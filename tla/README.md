# A TLA+ model of the M2M network emulator

This repository is an Android emulator (QEMU) extended with a virtual ZigBee
network. A simulated network of N devices is N emulator processes. Each runs
one guest program and all of them share one System V memory segment. The guest
calls `Network_Init`, `Network_Send`, `Network_Recv` and `Network_Exit`
(`src/m2m_app/network_device.c`), which reach the emulator through a device
page (`src/hw/virtual-network-device.c`). The network itself is in
`src/hw/m2m_*.c`. A guest's virtual time comes from a virtual performance
monitor, the VPMU (`src/hw/vpmu-device.c`), which a tracer of guest processes,
SET (`src/SET`), also starts and stops. This directory models that code in TLA+,
checks it with TLC and proves with TLAPS, for every size, what does not depend on
one.

## 1. The system

Device 1 is the coordinator (ZC), the others are routers (ZR) and end devices
(ZED). A ZC has a guest and a routing thread, a ZED only a guest, a ZR only a
routing thread (`ROUTER_RFD` in `src/m2m.h`). The network uses no lock: threads
and processes communicate by spinning on words of the segment. Inside a process
the emulation thread feeds two simulator threads of the VPMU, and SET has a
control thread for users.

| part | state | operations | source |
|---|---|---|---|
| header queue | `producer`, `consumer`, four entries | push, consume | `m2m_mm.h`, `m2m_route_processor.h`, in line in its users |
| send and receive | control flag (`dataflag`, `transtime`) per host, `tmp_time` | `m2m_send`, `m2m_post_remote_msg`, `m2m_recv`, `m2m_get_local_msg` | `m2m_send_recv.c` |
| routing thread | `router_localtime`, the packet chosen, deadline flags | idle, select, wait, deliver, forward, fail, signal | `m2m_route_processor.c` |
| route discovery | globals `d`, `prev`, `route_path`, `route_hops` | `dijkstra`, `routePath` | `m2m_route_processor.c:45-76, 758-808` |
| virtual time | a local time per device, `action_probe` | `m2m_time_init`, `time_sync`, `transmission_latency`, `m2m_time_exit` | `m2m_time.c` |
| segment | the SysV segment under key 8175 | create, attach, remove | `m2m_mm.c` |
| topology, layout | `NODE_MAP`, `NODE_TYPE`, address tables | `node_infofetch`, `m2m_dbp_init` | `m2m_topology.c`, `m2m_dbp.c` |
| virtual network device | none of its own | order of the calls in INIT, SEND, RECV, EXIT | `virtual-network-device.c` |
| VPMU | `VPMU_enabled`, `timing_register`, a ring of branches, sets of references | `put_event`, `cache_ref`, `branch_thread`, `dinero_thread`, start, report, stop | `vpmu-device.c`, `target-arm/op_vpmu.c` |
| SET | table of processes, hash table by pid, `tracing_process`, shared counters and files | execve, exit, switch, mmap, thread creation, application start; device registers; control thread | `SET/SET.c`, `SET_event.c`, `SET_ctrl.c`, `hw/SET_device.c` |

How they interact. A host's guest pushes a packet (header entry, payload entry)
into a queue: a ZED into its queue at its neighbour, a ZC into its own outgoing
queue. It sets its control flag to 77 and spins. Each routing thread on the way
takes the earliest packet of its queues, waits until the clocks of the other
neighbours have passed it, and pushes it on. The thread that puts it into the
receiver's queue clears the sender's control flag and stores the arrival time;
a failed hop stores 44 and the sender tries again. Local times double as the
start barrier (`MAX_TIME` is "not started") and as a parking place while a
device waits in recv or has finished (`MAX_TIME - 1`). The time a guest sees
counts cache misses, so every question for it waits until `dinero_thread` has
simulated what was put; SET enables the VPMU when the first process it traces
starts and disables it with the last.

What is hard: the threads at both ends of a queue interleave freely; a header is
read again after its entry was released; a sender has no timeout; the wait for
other neighbours is a distributed condition on clocks that are parked, unparked
and synchronised from each other; times are unsigned differences; the start
barrier uses the same words as the clocks; a killed run leaves its segment
behind; two threads share the globals of route discovery; the VPMU's workers
stop and sleep on their own reading of `VPMU_enabled`, and are waited for by
spinning; SET keeps four kinds of pointers to objects that it frees by count.
`PROJECT.json` lists
these hazards at their lines, with the properties for each.

What makes each part correct:

- queue: it is a FIFO channel, messages are whole, nobody reads what another writes;
- network: every packet arrives once, in order; success means delivery; every
  sender is signalled, with the right time; every call returns; packets are
  served in the order of virtual time; clocks do not run back;
- start: no guest runs before all queues are reset; every device gets through;
- routes: the next hop is a neighbour and nearer to the destination;
- layout: both ends of a link mean the same queue; nothing overlaps;
- VPMU: the workers simulate what was put, in order and once; a report is
  complete; who waits for a worker gets on;
- SET: the tables hold exactly the traced processes; what they share lives as
  long as the last of them; events are put down to the process that runs; the
  profile runs as long as something is traced.

## 2. The modules

| module | models | notes |
|---|---|---|
| `HeaderQueueOps` | the ring as a value | operators shared by the next two |
| `Mailbox` | abstract: a bounded FIFO channel | the promise of a queue |
| `HeaderQueue` | one queue and its two threads, one step per shared access | refines `Mailbox` |
| `HeaderQueue_proofs` | theorems about `HeaderQueue` | TLAPS |
| `NetworkService` | abstract: sends that wait for delivery or fail, receives in order of arrival | the promise of the network to guests |
| `M2MNetwork` | guests and routing threads over all queues, control flags and local times | the composition; refines `NetworkService` (proved for the networks of section 4); instances in `MCNetwork`; theorems in `M2MNetwork_proofs` |
| `Startup` | INIT and EXIT, the segment, the barrier | instances in `MCStartup`; theorems in `Startup_proofs` |
| `Routing` | route discovery as its threads run it | theorems in `Routing_proofs` |
| `Layout` | topology file to addresses | theorems in `Layout_proofs` |
| `VPMU` | the emulation thread, the two simulator threads, and who starts and stops profiles | theorems in `VPMU_proofs` |
| `SETTracer` | the tables and objects of SET under the events of a guest, with the control thread | theorems in `SETTracer_proofs` |
| `InductionFacts` | two facts about natural numbers that proofs by induction need | TLAPS |

Definitions keep the names of the source. The correspondence line by line is the
"map" of `PROJECT.json`. Definitions headed "Broken variant" are not part of the
model: each is a plausible mistake in one definition, and shows that a property
would notice it.

`HeaderQueue`. A producer is `m2m_post_remote_msg` or a routing thread, a
consumer `m2m_get_local_msg` or a routing thread; all repeat the same protocol.
A push is `Begin`, `CopyHeader` (after the first spin loop), `CopyPayload`
(after the second), `Publish`. Consuming is `Poll`, `Copy`, `Release` and
`LateRead`, the second look at the header after `consumer += 2`. `synchronous`
tells a queue whose producer waits for a signal (an application) from one whose
producer does not (a routing thread). A memcpy is one step: `ExclusiveEntries`
is why that is sound.

`M2MNetwork`. Queues are `hq[d][i]`, i from 1 to 8 for neighbours, 9 and 10 for
a coordinator's own packets (`NODE_MAX_LINKS`, `NODE_MAX_LINKS + 1` in the code).
A guest is at `apc`, with its program counter `ip` into `Program[d]`; a routing
thread is at `rpc`, scanning at `index`. A scan takes one step per index, since
queues and clocks change under it. The values that arithmetic produces
(latencies, guest computation) are chosen from constants: `Latency` for
`transmission_latency`, `FailLatency` and `MaxFails` for its failures (the
channel busy rates in `src/m2m.h` are 0, so failures need other rates there),
`Work` for guest code, and `OneHopLatency` for `one_hop_latency`, which divides
by zero (`m2m_route_processor.c:84-89`) and converts the result to an integer:
an undefined value, one per build. Time is modulo `TimeMod` in place of 2^64. The
next hop is the constant `NextHop`; that `route_discovery` computes such hops is
`Routing`'s business. `arrival` is a history variable. A send of more than 128
bytes returns success and sends nothing (`SendNothing`). In the refinement a
host's inbox is what its program has received and what lies in its queue; the
hops, the clocks and the copies on the way are stutters, and a send that fails
leaves nothing behind before it is tried again.

`Startup`. Local times are reduced to "MAX_TIME or not" (`started`); `clean` is
the history of queue resets. A router's routing thread may store its time at any
moment after it was created (`ThreadSync`). A scenario says whether a segment was
left over and how patient the operator is.

`Routing`. A step is a round of a loop, so that two callers can interleave. Inputs
are all connected symmetric networks.

`Layout`. A device reads the file line by line and computes its tables. Inputs
are all networks whose links are listed by both ends in ascending order, as in
every `topology.conf` of the repository. Computations are private, so devices take
turns. `FlagSize` is the size of the control flag as a struct: 12 in the 32-bit
build, which is the supported one.

`VPMU`. The build with `CONFIG_VPMU_THREAD`, an option of a configuration header
that the build generates. `todo[t]` is the rest of the function that thread t is
in, one element per access to shared state: a counter under a mutex is read when
the mutex is taken and written when it is released. The k-th branch and the
k-th reference are the number k, so that order is visible. `bdone`, `rdone` and
`seen` (which workers a report has waited for) are history. A worker that
waits on its condition variable may wake without a signal. `DeviceModel`,
`SETModel` and `Controller` say who starts profiles with which timing model;
`Patient` keeps a start until both workers sleep.

`SETTracer`. `heap` holds what is allocated: processes with their copied fields
(`idx`, `hash_pos`), the counters that threads share, and files; a freed object
is marked and stays visible to those who still point to it. An event is one
step, because events run on the emulation thread; `SET_attach_process` on the
control thread is two. "LIBRARY" stands for `SET_PROCESS_LIBRARY` and
`SET_PROCESS_DALVIK`, ObjFile and DexFile are one kind of file, and `procHashTable`
has a place -1, the word before it, where the first failed start writes. Processes
start and end in any order and anywhere in the table; the control thread runs at
any time, also after `SET_exit`. Five events leave a table that the code cannot go
on with, and the history variable `damage` says which has come: "first" (the first
process of the table ends), "moved" (one ends that an earlier end has moved, and
which is not the last), "full" (a thread is created when the table is full), "race"
(an event attaches a process while the control thread does) and "again" (a traced
program, or a traced process, executes again). The model takes that step as the
code does and ends there, because what follows reads freed memory or wrong
entries, and how freed memory is used again is not modelled. Every property says
which damages it excepts, and for each damage a configuration below shows what it
breaks. `moved` is the history of the processes whose place is no longer their
`idx`.

## 3. The runs

| run | shows |
|---|---|
| `queue` | the ring with 4 pushes of 3 messages, both kinds of producer: channel refinement, exclusive access, whole messages, what the late read sees, and that pushes end |
| `net_hub` | ZC with two ZEDs; all send at once, one a message that is too long; the ZC's two threads and its two own queues; guests get what was sent to them; refinement of the service |
| `net_chain` | ZC-ZR-ZED: three reports in a row and an answer, with up to two failures at a sender or at the router and retries; refinement of the service; every call returns; which header a receiver sees that looks at a released entry |
| `net_star` | ZC-ZR with two ZEDs: the wait for the other neighbours, the times reported, clocks that do not run back; with two of the values that `one_hop_latency` may have |
| `start` | four devices, any order, and a left segment |
| `routes` | all connected networks of four devices, two calls |
| `layout` | all networks of two to four devices |
| `vpmu` | both workers, profiles of guest and SET on two threads: order, complete reports, and that the wait for an awake `dinero_thread` ends |
| `set` | programs, applications and threads that start and end in any order, with a user at the control thread, up to the first damage and with its step |
| `star_wait` | violation: the wait of `m2m_route_processor.c:406` can miss its end |
| `vpmu_stop` | violation: a stopped profile with branches left is never reported (`vpmu-device.c:2081, 2808`) |
| `set_table` | violation: a process that the end of another has moved ends, and the table removes the wrong one (`SET.c:370-379`) |

Four pushes take the indices of a ring around twice, with a message in every
position. Two messages per link are the most that can be in flight on it (one
published, one waiting), so programs with two or three calls per device reach
full queues. `Latency = {1, 2}` and `Work = {1}` are enough to make two packets
arrive in either order and at the same time. In the chain there is never a choice
between two packets, so one latency is enough and the failures take two; three
messages in a row to one receiver are the fewest for which the entry it looks at
late is written again (`ReceiverSeesOwnHeader` is indeed violated with the same
constants). 64 (65536 with failures, whose times contain an address) exceeds every
time reached. Of the undefined `one_hop_latency` the star has the two extremes, 0 and
63: with 0 the router serves, with 63 it mostly waits for ever at line 406. Four devices give a router
a third neighbour, the smallest case in which it waits at all. A ring of three
branches, of which two can be used, and two sets of two references are full and
wrap with three branches and five references; two calls start and stop a profile
or start a second one on what the first left. Four SETProcess objects are
app_process, two programs and a thread, or one program and two threads, in a
table that three of them fill; two processes run, and a pid is used again after
an exit. An end in the middle of the table moves an entry, a second end meets it.
Deadlock checking is off everywhere because programs end.

Some properties hold in the passing runs and fail in larger networks, as the
configurations below show. For `WaitingSenderIsServed`, `ImplementsService` and
`SignalIsArrival` the networks in which they hold have a description, under which
they are proved (section 4); `LateReadSeesHeader` is proved for all networks whose
routers stay. `MCNetwork` assumes (`TheoremsApply`, which TLC
evaluates) that the instances of the runs meet it and which of the others do not.
`DeadlineHolds`, `AllReturn` and `ClockNeverBack` are established for the topologies of
their runs and no more, `SyncReturns` for a worker that is awake, and the properties
of SET up to the damages they name.

Further configurations with counterexamples, not among the runs:

| configuration | module | shows |
|---|---|---|
| `BadSignalSender.cfg` | `MCNetwork` | three senders behind a router: the ZC signals the wrong one, the right one spins (`m2m_route_processor.c:494`) |
| `BadReceiveTime.cfg` | `MCNetwork` | a burst of the ZC to a ZED: the receiver reads the time of a later message (`ReceiverSeesOwnHeader`; `m2m_send_recv.c:471, 516`) |
| `BadSignalTime.cfg` | `MCNetwork` | a ZC sends to a ZED through a router: the time reported leaves out a hop (`m2m_route_processor.c:608`) |
| `BadDeadline.cfg` | `MCNetwork` | a neighbour parked in recv is counted, wakes up and sends an earlier packet (TO-DO-M2M, items 1 and 4) |
| `BadTreeTime.cfg` | `MCNetwork` | the ZC trusts a router's copy of an end device's clock that is out of date (`m2m_time.c:115-158`) |
| `BadExit.cfg` | `MCNetwork` | the ZC exits between delivery and signal: the sender spins for ever (FIXME at `m2m_route_processor.c:718`) |
| `BadStartFirst.cfg` | `MCStartup` | a device reports before the ZC marks all local times: the ZC waits for ever, although it was started first as README-M2M asks |
| `BadStartRouter.cfg` | `MCStartup` | a router passes for started before its queues are reset (`m2m_route_processor.c:159`) |
| `BadRouteRace.cfg` | `Routing` | route discovery by two threads (`m2m_route_processor.c:74`) |
| `BadLayout64.cfg` | `Layout` | in a 64-bit build the ZC's control flag overlaps the first entry of device 2 |
| `BadWakeup.cfg` | `VPMU` | SET signals `dinero_thread` before it sets `VPMU_enabled`: the wake-up is lost (`SET.c:127-128`) |
| `BadSetFirst.cfg` | `SETTracer` | the first process of the table ends and stays in it (`FirstProcessLeaves`; `SET.c:371`) |
| `BadSetFull.cfg` | `SETTracer` | a thread that finds the table full is traced and not listed (`FullTableLists`; `SET.c:357`), and has the `idx` of its parent (`SET.c:259`) |
| `BadSetAgain.cfg` | `SETTracer` | a traced program is executed twice: its first place in the hash table is never cleared (`AgainIsFound`; `SET_event.c:202-203`) |
| `BadSetRace.cfg` | `SETTracer` | an event attaches a process between the two stores of the control thread and takes its place (`RaceKeepsEntry`; `SET.c:360-362`) |
| `BadSetProbe.cfg` | `SETTracer` | two pids share a place: the exit of one hides the other (`SET_event.c:218`); it then exits unseen and stays in the table, and a thread with its pid is not inserted, so that `HashHoldsTraced` ends too |

Fairness. Every guest inside a call and every routing thread is a host thread
that the host's scheduler runs, so `WF` on each of them; in `HeaderQueue` on the
producer once it has begun and on the consumer. A guest need not compute
(`Execute` has no fairness) and an application need not send. In `Startup` the
operator starts every device. In `VPMU` the workers and every thread inside a
function are scheduled; nobody need start, stop or put anything, and no wake-up
without a signal is promised. Nothing is assumed about relative speed. The retry
of a failed send ends because `MaxFails` bounds the failures.

## 4. The proofs

`HeaderQueue_proofs` proves for every set of messages and every number of pushes:
`TypeCorrect`, `MessagesAreWhole`, `LateReadIsOwn`, `EntriesAreExclusive` and
`QueueIsChannel` (the refinement of `Mailbox`). The only assumption is that
`MaxMessages` is a natural number. The size of the ring is the code's 4.

None of these is inductive by itself: that the payload copied fits the header
depends on what is in the entries behind `consumer`, which depends on where the
producer is, and the late read depends on whether a synchronous producer waits.
The inductive invariant `IInv` adds

- `QueueInv`: both indices are even; a ring that is not empty holds the header
  and the payload of one message at `consumer`; what the producer has copied so
  far is in the entries at `producer`, and the ring is empty when it publishes;
- `ConsumerInv`: a consumer between poll and release has the pointer to the
  entries at `consumer`, the ring is not empty, and what it has copied is what
  they hold; at the late read its pointer is the other slot;
- `SyncInv`: an application waits exactly while its message is in the ring or
  being consumed, and pushes nothing meanwhile.

The argument: with steps of two and four entries, `producer` and `consumer` are
equal or two apart (`SlotFacts`). So "full" for the second spin loop is exactly
"not empty" (`FullIffNotEmpty`): the first spin loop never waits
(`HeaderEntryFree`), a header may be copied beside a message but never over it,
and a payload is copied only when the ring is empty. `IInv` was checked with TLC
first and is preserved action by action in `NextIInv`; the refinement maps
`Publish` to `Put`, `Release` to `Take`, everything else to a stutter.

`VPMU_proofs` proves `TypeCorrect`, `BranchesInOrder`, `ReferencesInOrder` and
`ReportsAreComplete` for all sizes of the rings, all numbers of branches,
references and calls, and every choice of who starts profiles with which model.
It assumes what the source fixes: a branch ring of at least two places, at least
one set of at least one reference. "In order" speaks of the one place that a
worker is about to read, so the invariant has to say what is in every place. It has

- `TodoInv`: which sequences of steps can be left of the function a thread is in,
  so that a step is known to come after the one that took the mutex;
- `BranchMutexInv` and `SetMutexInv`: who holds a mutex is between taking and
  releasing it, and what it has read of the counter is still the counter;
- `BranchSizeInv`: the counter of the ring, `bput - bdone` and the distance of
  the two indices are the same number, up to a step that is under way;
- `BranchTraceInv` and `TraceBufferInv`: the k-th branch or reference that has been
  put and not been simulated is at the place of number k modulo the size;
- `SeenInv`: what a report has waited for is still true when it is written,
  because the emulation thread puts nothing meanwhile.

`Startup_proofs` proves `TypeCorrect` and `BarrierIsSafe` for every topology.
`BarrierHolds` alone is not a theorem: on a left segment an impatient operator
breaks it (`BadStartFirst.cfg` is the same race seen from the other side), so the
theorem has the premise `StartsSafely`: no segment was left over, or the others
are started once the coordinator waits. The invariant relates what a local time
says ("not MAX_TIME") to what its device has done since the coordinator marked it.

`Routing_proofs` proves `TypeCorrect`, `VisitedNodesAreFinal` and `HopsAreNearer` for
every connected symmetric network of up to 41 devices: `route_path` has 40
places (`m2m_route_processor.c`), and a longer path would be written behind it.
They assume one caller at a time (`OneCaller`); with two they are false
(`BadRouteRace.cfg`). `Distance` is defined by growing balls, so the first part
proves what a graph distance is: balls grow until they are everything
(`BallIsAll`), the distance to a neighbour differs by at most one, and every node
but the source has a neighbour that is one nearer. The invariant is then
Dijkstra's: visited nodes have their distance, the others the least distance over
a visited node; `prev` is a tree of nearer nodes; the stack of `routePath` is a path
in it; so the first node written is a neighbour of the source and on a shortest path.

`Layout_proofs` proves `TypeCorrect`, `LinkEndsAgree` and `RegionsAreDisjoint` for every
network of at most 99 devices (`m2m_dbp.c:50` wants one number less than
`MAX_NODE_NUM`) of which none has more than the 8 links of `NODE_MAX_LINKS`.
The invariant says that a device holds exactly what it should by the
lines it has read, in terms of the file alone, and that devices that had their
turn hold the right addresses. `LinkEndsAgree` is then a fact about ranks: the
number of neighbours that come before the j-th in an ascending list is j - 1.
`RegionsAreDisjoint` needs the control flag to fit the 12 bytes
that `m2m_mm.h` reserves; `BadLayout64.cfg` shows that it fails for 16.

`SETTracer_proofs` proves `TypeCorrect`, `TableLists`, `CountersCount`, `FilesAreLoaded`,
`RunningIsTraced`, `HashIsExact`, `SwitchFinds` and the action property `ProfileFollows`
for all sizes of the tables and any number of names, pids, processes and files.
Nothing is assumed about the order in which processes start and end, or about the
moments at which the control thread runs; what each theorem excepts is in its
property, and each `BadSet*.cfg` shows why. `HashIsExact` and
`SwitchFinds` also assume `NoCollision`: no two pids have the same place, as holds
for pids below `PROC_HASH_TABLE_SIZE` = 32749 (the default of a Linux guest goes up to 32768); the
others hold with collisions too. The only assumption about the tables is
`MAX_PROC_TABLE_SIZE < PROC_HASH_TABLE_SIZE`, as in the source (1024 and 32749). The
invariant `Inv` has the types at all times; what the control thread relies on
(`CtrlInv`, also after `SET_exit`) and `TableInv` until a damage comes; and the rest
while SET runs, through every damage but "again", since the others damage the table
only:

- `AllocInv`: objects are allocated in order, so that a new one is referred to by
  nobody;
- `CounterInv`: a live process has a counter that is not freed; one that is not
  traced shares it with nobody; a counter counts its group;
- `FileInv`: a file that somebody has mapped is loaded, and its counter is at
  least the number of groups that have mapped it. Equality is false: a thread's
  copy does not learn of files mapped later, and the last thread frees only what it knows;
- `TableInv`: the entries of the table are live and distinct, the one that the control
  thread has written and not counted among them; an entry that was never moved knows
  its place, a moved one has an `idx` beyond its place; every traced process is a
  counted entry;
- `HashInv` and `RunningInv`: what the hash table and `set.tracing_process` point
  to is traced, at its place, and running.

`DeleteStep` is the centre. A process that was never moved knows its place, so the
shift of `SET_detach_process` takes out it and no other, and those behind it become
moved ones, one place below their `idx`. A moved process that is the last entry has an
`idx` beyond the table: the shift moves nobody, and the size that is decremented drops
just it. The remaining ends are the damages "first" and "moved". Between the two
stores of the control thread the shift moves the uncounted entry too, which then is
at the new size: this is why it belongs to the places in use (`Used`). Every entry of the hash table is traced and knows its place, so entries
map into the table of processes, which is smaller: there is a free place
(`FreePlace`, a pigeonhole argument), linear probing reaches every place
(`ProbesEverywhere`), and so a search ends (`ProbeStops`). Without collisions
`FoundInv` adds that a traced process is at its own place, that its pid has not
exited, and that it is the one traced while it runs. `ProfileFollows` rests on
`HasProcessIsTraced`: the counter of an entry that is not traced counts nobody, so
what SET_has_process_being_tracing finds is exactly a traced process with an output.

Induction. The library's induction theorems take operators, which the provers
here cannot instantiate. `InductionFacts` states induction over a set instead of a
predicate, from the least element of a set of naturals; the proofs define the set
of the numbers for which the claim holds. Recursive functions (`Ball`, `Start`)
are first shown to exist by that induction.

`M2MNetwork_proofs` proves `TypeCorrect` and `PayloadsAreOwn` for every topology,
program and set of latencies. Of the topology it assumes what `TopologyAssumption`
says: links are symmetric, an end device has one link and not to another end
device, a next hop is a neighbour and not the device itself, and an end device is
a hop only for packets to it. The last two follow from `HopsAreNearer`: a hop is
nearer to the destination, and an end device has no second neighbour to be nearer
through. Types are not obvious here: a receiver and a routing thread read an entry
again after they have released it, `Select` may only end with a packet chosen, and
a queue is named by a next hop that was computed steps before. `IInv` has

- `QueuesOK`: the indices of every queue are even, and a queue that is not empty holds
  a header and a payload of the same call at `consumer`; in a queue that a guest
  receives from, the header names that guest;
- `GuestInv`: what a guest has copied so far is in the entries at `producer`, the
  queue is empty when it publishes, and the entry it reads late is a header;
- `RouterInv`: the packet selected is at the head of its queue and its next hop is the
  one for its receiver; a thread that searches has a packet or one lies ahead of its
  index, because a transmission takes time and so no packet looks like `NoPacket`
  (`FirstIsPreferred`); the copies in the next queue as for a guest;
- `ReceivedInv`: the payloads received so far were sent to their receiver.

The argument: every queue has one thread that feeds it (`GuestFeeds`, `RouterFeeds`)
and one that drains it (`GuestDrains`, `RouterDrains`). A feeder's step keeps the
message at the head and keeps headers headers; a drainer's keeps the entries at the
tail and an empty queue empty. So a step needs a proof for the thread that moves
and for no other: `FeedFrame` and `DrainFrame` give the invariants of all the rest.

Three more theorems follow the packets: `WaitingSendersAreServed`,
`NetworkImplementsService` (the refinement of `NetworkService`) and
`SignalTellsArrival`. They are false of some networks, so they have hypotheses,
defined at the end of `M2MNetwork`:

- `TwoPerLink`: at most two senders have packets that cross the same link between
  routers. A routing thread reads the sender's name again after `consumer += 2`
  (`m2m_route_processor.c:494, 607`). The ring has two places for messages, a sender
  that waits sends nothing else, so with two senders the entry just released is not
  written before it is read; a third sender's header may go there
  (`BadSignalSender.cfg`). Links from an end device to a router carry one sender's
  packets anyway, and what a guest receives from is not read late by a router.
- `RoutersStay`: no routing thread ends; one that does leaves a sender without its
  signal (`BadExit.cfg`).
- `ShortRoutes`, for `SignalTellsArrival` only: sends go to the coordinator or to a
  neighbour. At the end of a longer route to an end device the time of the hop before
  is left out of the signal (`BadSignalTime.cfg`).

The first two hold in `net_hub`, `net_chain` and `net_star`, the third in `net_star`;
programs, latencies, failures and the number of devices and hops are arbitrary.

`LateReadsAreKnown` needs only `RoutersStay`: the entry that a receiver looks at after
`consumer += 2` is the slot behind the one it will poll next (`LateInv`), and nobody
but the routing thread that feeds the queue writes there. It does so only when a
message lies at `consumer`, and then it waits for room until the receiver polls again, so
that it can be named as long as it is not cancelled (`BlockedRest`).

A packet has a place: the hands of a routing thread between release and signal, or
the head of a queue that one scans (`PacketAt`). The inductive invariant `ServiceInv`
is, on top of `IInv`:

- `TravelInv`: every packet at a place is of the call in which its sender waits for
  a signal, and came along the route (`OnRoute`) to where it is;
- `UniqueInv`: no two packets are of the same sender;
- `ServedInv`: every sender that waits has one;
- `SenderInv`: what a guest has copied into a queue is the packet of its call;
- `CarrierInv`: what a routing thread has copied into the next queue is the packet it
  carries, and the header in the entry it has released is still that packet's;
- `InboxInv`: the payload of a call is with its receiver if and only if the packet
  has been delivered, and none of a later call is.

A step moves at most one packet: a guest's `Publish` makes one, `RoutePublish` moves it
to the next router or puts it into the inbox, a signal ends it. All other places stay
(`OthersStay`). The critical step is `RouteHeader`, which writes beside a packet in
the ring: `LinkFree` shows by counting senders that the entry written is not the one a
thread behind the link has yet to read. `WaitingSenderIsServed` counts places in
another way (`Travels`), and follows (`ServedFollows`).

For the refinement, every action of a guest or a routing thread is mapped to a step of
the service or a stutter (`NextMaps`): the `RoutePublish` of the last hop is `Deliver`,
which `UniqueInv` and `InboxInv` make possible; a signal is only seen when the guest
returns with it, and `InboxInv` says that success and failure are then told rightly; a
receive takes the next payload of the inbox, which does not change when a payload moves
from the queue to the program. `PollInv` says that only a receive polls. For the times,
`TimeInv` adds that a routing thread that brings a packet to its receiver has the
time at which it arrives (`OnTime`) and has recorded it (`Recorded`); `OwnLastHop`
shows that with `ShortRoutes` a routing thread that brings a packet to an end device has
it from the guest of its own device.

Only model-checked:

- liveness (`PushEnds`, `AllReturn`, `AllStart`, `SyncReturns`): the prover has no
  fairness;
- `DeadlineHolds`: what a router concludes from clocks that are parked or copied is
  false in general (`BadDeadline.cfg`, `BadTreeTime.cfg`), and true in an instance
  for its latencies and amounts of guest work;
- `ClockNeverBack`: false where `SignalIsArrival` is (the constants of
  `BadSignalTime.cfg`), and otherwise true only while no time reaches `TimeMod`, which no
  bound on the lengths of programs alone prevents.

## 5. Not modelled

The repository is mostly QEMU and the Android emulator: translators, disassemblers,
floating point, device emulation, skins, audio, user-mode networking, and the
vendored cache simulator. They are not this project's own logic and make up some 99
of 100 lines, so the share of the tree that a model of the M2M code, the VPMU's
threads and SET covers is small.

Of the VPMU: the counting of cycles and power, the periodic sampling thread and the
device's other registers. Of SET: call stacks, output files, method, JNI and
system call events, which only write records; tracing of the kernel's start, which
ends in `exit`; the limits of the file tables of a process; the names kept for 512
pids; a start that fails for an application, which goes on to read the freed
object. Of the network: the formula of `transmission_latency` (floating point and
`rand`; its outcomes are the constants `Latency`, `FailLatency`, `MaxFails`), the
character scanning of the topology file (including its 40-character line buffer),
logging, core affinity, debug printing. NETWORK_INIT reports success whatever its
steps return (`virtual-network-device.c:122`): the only step that fails without ending
the emulator leaves no state to act on. `m2m_send` to a router or to device 0 is
accepted by the code and is left out of the programs: it ends the emulator or
writes through an unset pointer. Neighbour lists that are not ascending or not
symmetric or have more than 8 links are outside `Layout`, and networks whose paths
`route_path` could not hold outside `Routing`.

## 6. Plan

Done in this order, the most important behaviour first: the queue and its
proofs; the network; the start; routes; layout; the abstract service and the
refinement; the VPMU's threads; SET. Next:

1. Proofs: that no payload arrives twice and that those of one sender arrive in
   order also where three senders share a link and the wrong one is signalled. There a
   sender may have two packets on their way, so `UniqueInv` has to speak of calls, and
   the statement must not rest on the signal as `ImplementsService` does.
2. `Latency`: the retry structure of `transmission_latency` (CSMA back-off, retransmission,
   acknowledgement) with its failure outcomes.
