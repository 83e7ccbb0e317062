---------------------------- MODULE M2MNetwork ----------------------------
(***************************************************************************)
(* The running M2M network: the guest program of every device, inside      *)
(* Network_Send and Network_Recv (src/hw/m2m_send_recv.c), and the routing *)
(* thread of every coordinator and router (src/hw/m2m_route_processor.c),  *)
(* over the shared segment: header queues, control flags and local times.  *)
(*                                                                         *)
(* All devices are initialised (Startup models how they get there).  A     *)
(* step is the code between two accesses to queues and control flags that  *)
(* another thread writes or reads; HeaderQueue shows why one memcpy may be *)
(* one step.  Four steps join accesses whose intermediate values nobody    *)
(* acts on: RecvBegins stores the local time twice, GetMessage resumes the *)
(* local time before it releases the entries, ForwardFail sets the flag    *)
(* before it releases them, and time_sync reads the local times of several *)
(* devices.  Time is uint64_t nanoseconds, here modulo TimeMod.            *)
(***************************************************************************)
EXTENDS HeaderQueueOps, Sequences, FiniteSets

CONSTANTS
    TotalDeviceNum,   \* devices are 1 .. TotalDeviceNum
    DeviceType,       \* device -> "ZC", "ZR" or "ZED"
    Neighbors,        \* device -> its neighbours, in the order of topology.conf
    NextHop,          \* device -> destination -> route_discovery's answer
    Program,          \* device -> what its guest program calls, in order
    Latency,          \* what transmission_latency may return on success
    FailLatency,      \* what it may leave in fail_latency when it returns 0
    MaxFails,         \* bound: how many transmissions fail
    Work,             \* what guest code between two calls may take
    MaxWork,          \* bound: how often each guest computes
    OneHopLatency,    \* what one_hop_latency may return: undefined, 1.0 / 0.0
    FailPointer,      \* the address of the routing thread's fail_latency
    TimeMod           \* stands for 2^64

Device == 1 .. TotalDeviceNum
Router == {d \in Device : DeviceType[d] # "ZED"}     \* devices with a routing thread
Host == {d \in Device : DeviceType[d] # "ZR"}        \* devices that send and receive

NODE_MAX_LINKS == 8
MAX_TIME == TimeMod - 1
Time == 0 .. MAX_TIME

\* unsigned 64-bit arithmetic
Plus(s, t) == (s + t) % TimeMod
Minus(s, t) == (s - t) % TimeMod

NeighborNum(d) == Len(Neighbors[d])

\* m2m_hq_meta_start[]: one queue per neighbour, then the queue of packets for
\* the device itself and the queue of packets the device itself sends (the
\* code counts from 0).
LocalIn == NODE_MAX_LINKS + 1
LocalOut == NODE_MAX_LINKS + 2
QueueIndex(d) ==
    (1 .. NeighborNum(d)) \cup (IF DeviceType[d] = "ZC" THEN {LocalIn, LocalOut} ELSE {})

\* Which of n's queues belongs to its neighbour d (the remote_hq arrays of
\* m2m_dbp_init point there).  An end device has one queue for everything.
LinkOf(n, d) == IF DeviceType[n] = "ZED" THEN 1
                ELSE CHOOSE i \in 1 .. NeighborNum(n) : Neighbors[n][i] = d

ASSUME TopologyAssumption ==
    /\ TotalDeviceNum \in Nat \ {0}
    /\ DeviceType \in [Device -> {"ZC", "ZR", "ZED"}]
    /\ \A d \in Device : DeviceType[d] = "ZC" <=> d = 1
    /\ Neighbors \in [Device -> Seq(Device)]
    /\ \A d \in Device : NeighborNum(d) \in 1 .. NODE_MAX_LINKS
    /\ \A d \in Device : DeviceType[d] = "ZED" =>
           NeighborNum(d) = 1 /\ DeviceType[Neighbors[d][1]] # "ZED"
    /\ \A d \in Device : \A i \in 1 .. NeighborNum(d) :
           \E j \in 1 .. NeighborNum(Neighbors[d][i]) : Neighbors[Neighbors[d][i]][j] = d
    /\ NextHop \in [Device -> [Device -> Device]]
    /\ \A d \in Device, r \in Host : d # r =>
           /\ NextHop[d][r] # d
           /\ \E i \in 1 .. NeighborNum(d) : Neighbors[d][i] = NextHop[d][r]
    /\ \A d \in Device, r \in Host : d # r /\ DeviceType[NextHop[d][r]] = "ZED" =>
           NextHop[d][r] = r

\* "large" is a send of more than HEADER_QUEUE_ENTRY_SIZE bytes.
Call == [op : {"send", "large"}, to : Nat] \cup [op : {"recv", "exit"}]

\* A guest program sends to hosts only, or to a number m2m_send rejects.
ASSUME ProgramAssumption ==
    /\ Program \in [Device -> Seq(Call)]
    /\ \A d \in Device : \A k \in 1 .. Len(Program[d]) :
           /\ DeviceType[d] = "ZR" => Program[d][k].op = "exit"
           /\ Program[d][k].op = "send" =>
                  Program[d][k].to \in Host \/ Program[d][k].to > TotalDeviceNum

ASSUME TimeAssumption ==
    /\ TimeMod \in Nat \ {0, 1}
    /\ Latency \subseteq Time \ {0}
    /\ FailLatency \subseteq Time
    /\ OneHopLatency \subseteq Time
    /\ OneHopLatency # {}
    /\ Work \subseteq Time
    /\ FailPointer \in Time
    /\ MaxFails \in Nat
    /\ MaxWork \in Nat

VARIABLES
    hq,          \* the header queues: hq[d][i]
    conflag,     \* m2m_hq_conflag_start[d]: dataflag and transtime
    localtime,   \* m2m_localtime_start[d]
    apc,         \* where the guest of d is
    ip,          \* the call it makes or makes next
    clock,       \* its virtual time (get_vpmu_time)
    tmp_time,    \* its time when it began to wait in recv
    hdr,         \* the header it sends, or the one it received
    hptr,        \* its header pointer into its queue (localHQe_ptr)
    rcvd,        \* the payloads its program has received, in order
    rpc,         \* where the routing thread of d is
    index,       \* the index it scans
    sel,         \* packet_mintime, _sendtime, _from, _next and _ind
    exceeded,    \* the indices whose neigbor_device_deadline is set
    rtime,       \* router_localtime
    fptr,        \* FROM_packet, as an index into the queue sel.ind
    onehop,      \* what one_hop_latency returns in this build
    work,        \* how often a guest has computed
    fails,       \* how many transmissions have failed
    arrival      \* history: when the last packet of d reached its receiver

shared == <<hq, conflag, localtime>>
guest == <<apc, ip, clock, tmp_time, hdr, hptr, rcvd>>
routing == <<rpc, index, sel, exceeded, rtime, fptr>>
limits == <<onehop, work, fails, arrival>>
vars == <<shared, guest, routing, limits>>

NoHeader == [kind |-> "none"]
Header == [kind : {"header"}, SenderID : Device, ReceiverID : Device,
           ForwardID : Device, SendTime : Time, TransTime : Time]

\* The k-th call of d's program sends this payload.
Payload(d, k) == [kind |-> "payload", from |-> d, call |-> k]
PayloadSet == [kind : {"payload"}, from : Device, call : Nat]

NoPacket == [mintime |-> MAX_TIME, sendtime |-> MAX_TIME, from |-> 0, next |-> 0, ind |-> 0]

\* The guest has executed something since NETWORK_INIT, so its time is not 0,
\* which tmp_time keeps for "not waiting".
Init ==
    /\ hq = [d \in Device |-> [i \in QueueIndex(d) |-> ResetQueue([j \in Index |-> Blank])]]
    /\ conflag = [d \in Device |-> [dataflag |-> 0, transtime |-> 0]]
    /\ localtime = [d \in Device |-> 0]
    /\ apc = [d \in Device |-> "run"]
    /\ ip = [d \in Device |-> 1]
    /\ clock = [d \in Device |-> 1]
    /\ tmp_time = [d \in Device |-> 0]
    /\ hdr = [d \in Device |-> NoHeader]
    /\ hptr = [d \in Device |-> 0]
    /\ rcvd = [d \in Device |-> << >>]
    /\ rpc = [d \in Device |-> IF d \in Router THEN "idle" ELSE "none"]
    /\ index = [d \in Device |-> 1]
    /\ sel = [d \in Device |-> NoPacket]
    /\ exceeded = [d \in Device |-> {}]
    /\ rtime = [d \in Device |-> 0]
    /\ fptr = [d \in Device |-> 0]
    /\ onehop \in OneHopLatency
    /\ work = [d \in Device |-> 0]
    /\ fails = 0
    /\ arrival = [d \in Device |-> 0]

Arrives(h) == Plus(h.SendTime, h.TransTime)
---------------------------------------------------------------------------
(* time_sync(): a host reads its own virtual time; a router takes the      *)
(* least local time of its end devices, or of its other neighbours when it *)
(* has none, and 0 while one of them has not started.                      *)

NeighborSet(d) == {Neighbors[d][i] : i \in 1 .. NeighborNum(d)}
EndNeighbors(d) == {n \in NeighborSet(d) : DeviceType[n] = "ZED"}
SyncWith(d) == IF EndNeighbors(d) # {} THEN EndNeighbors(d) ELSE NeighborSet(d)

RouterSync(d, lt) ==
    LET times == {lt[n] : n \in SyncWith(d)}
    IN  IF MAX_TIME \in times THEN 0
        ELSE CHOOSE t \in times : \A u \in times : t <= u

\* What the routing thread of d stores into its device's local time: a
\* coordinator's is the guest's business.
SyncRouter(d) ==
    localtime' = IF DeviceType[d] = "ZR"
                 THEN [localtime EXCEPT ![d] = RouterSync(d, localtime)]
                 ELSE localtime
---------------------------------------------------------------------------
(* The guest of d. *)

Calls(d, op) == /\ apc[d] = "run"
                /\ ip[d] <= Len(Program[d])
                /\ Program[d][ip[d]].op = op

Accepted(d, r) == r # d /\ r <= TotalDeviceNum

\* The queue a host pushes into, and the queue it receives from, as a device
\* and an index.
SendQueue(d) == IF DeviceType[d] = "ZED"
                THEN <<Neighbors[d][1], LinkOf(Neighbors[d][1], d)>>
                ELSE <<d, LocalOut>>
RecvQueue(d) == IF DeviceType[d] = "ZED" THEN <<d, 1>> ELSE <<d, LocalIn>>

At(a) == hq[a[1]][a[2]]
Set(a, q) == hq' = [hq EXCEPT ![a[1]][a[2]] = q]

\* The guest executes code; the coordinator alone has vpmu_trigger set, so
\* only its local time follows.
Execute(d) ==
    /\ apc[d] = "run"
    /\ d \in Host
    /\ ip[d] <= Len(Program[d])
    /\ work[d] < MaxWork
    /\ work' = [work EXCEPT ![d] = @ + 1]
    /\ \E w \in Work : clock' = [clock EXCEPT ![d] = Plus(@, w)]
    /\ localtime' = IF DeviceType[d] = "ZC" THEN [localtime EXCEPT ![d] = clock'[d]]
                    ELSE localtime
    /\ UNCHANGED <<hq, conflag, apc, ip, tmp_time, hdr, hptr, rcvd, routing,
                   onehop, fails, arrival>>

\* m2m_send returns M2M_ERROR for a bad receiver, and M2M_TRANS_SUCCESS for a
\* large message: nothing is sent in either case.
SendNothing(d) ==
    /\ \/ Calls(d, "large")
       \/ Calls(d, "send") /\ ~Accepted(d, Program[d][ip[d]].to)
    /\ ip' = [ip EXCEPT ![d] = @ + 1]
    /\ UNCHANGED <<shared, apc, clock, tmp_time, hdr, hptr, rcvd, routing, limits>>

\* m2m_post_remote_msg up to the push: the header is made, and the sender's
\* clock and local time are already advanced by the transmission time.
Post(d) ==
    /\ Calls(d, "send")
    /\ Accepted(d, Program[d][ip[d]].to)
    /\ \E t \in Latency :
          /\ hdr' = [hdr EXCEPT ![d] =
                 [kind |-> "header", SenderID |-> d, ReceiverID |-> Program[d][ip[d]].to,
                  ForwardID |-> d, SendTime |-> clock[d], TransTime |-> t]]
          /\ clock' = [clock EXCEPT ![d] = Plus(@, t)]
    /\ localtime' = [localtime EXCEPT ![d] = clock'[d]]
    /\ apc' = [apc EXCEPT ![d] = "header"]
    /\ UNCHANGED <<hq, conflag, ip, tmp_time, hptr, rcvd, routing, limits>>

\* transmission_latency returned 0: M2M_TRANS_FAIL, and the guest tries again.
PostFail(d) ==
    /\ Calls(d, "send")
    /\ Accepted(d, Program[d][ip[d]].to)
    /\ fails < MaxFails
    /\ fails' = fails + 1
    /\ \E f \in FailLatency : clock' = [clock EXCEPT ![d] = Plus(@, f)]
    /\ localtime' = [localtime EXCEPT ![d] = clock'[d]]
    /\ UNCHANGED <<hq, conflag, apc, ip, tmp_time, hdr, hptr, rcvd, routing,
                   onehop, work, arrival>>

CopyHeader(d) ==
    /\ apc[d] = "header"
    /\ ~NoHeaderEntry(At(SendQueue(d)))
    /\ Set(SendQueue(d), PutHeader(At(SendQueue(d)), hdr[d]))
    /\ apc' = [apc EXCEPT ![d] = "payload"]
    /\ UNCHANGED <<conflag, localtime, ip, clock, tmp_time, hdr, hptr, rcvd, routing, limits>>

CopyPayload(d) ==
    /\ apc[d] = "payload"
    /\ ~NoPayloadEntry(At(SendQueue(d)))
    /\ Set(SendQueue(d), PutPayload(At(SendQueue(d)), Payload(d, ip[d])))
    /\ conflag' = [conflag EXCEPT ![d] = [dataflag |-> 77, transtime |-> 0]]
    /\ apc' = [apc EXCEPT ![d] = "publish"]
    /\ UNCHANGED <<localtime, ip, clock, tmp_time, hdr, hptr, rcvd, routing, limits>>

Publish(d) ==
    /\ apc[d] = "publish"
    /\ Set(SendQueue(d), Published(At(SendQueue(d))))
    /\ apc' = [apc EXCEPT ![d] = "signal"]
    /\ UNCHANGED <<conflag, localtime, ip, clock, tmp_time, hdr, hptr, rcvd, routing, limits>>

\* The spin on dataflag = 77 is over.  The clock moves by transtime minus the
\* local time, an unsigned difference; 44 is M2M_TRANS_FAIL and is tried again.
SendReturns(d) ==
    /\ apc[d] = "signal"
    /\ conflag[d].dataflag # 77
    /\ clock' = [clock EXCEPT ![d] = Plus(@, Minus(conflag[d].transtime, localtime[d]))]
    /\ localtime' = [localtime EXCEPT ![d] = clock'[d]]
    /\ ip' = IF conflag[d].dataflag = 44 THEN ip ELSE [ip EXCEPT ![d] = @ + 1]
    /\ hdr' = [hdr EXCEPT ![d] = NoHeader]
    /\ apc' = [apc EXCEPT ![d] = "run"]
    /\ UNCHANGED <<hq, conflag, tmp_time, hptr, rcvd, routing, limits>>

\* m2m_get_local_msg, first call: the device's time is parked just below
\* MAX_TIME, which means "not started".
RecvBegins(d) ==
    /\ Calls(d, "recv")
    /\ tmp_time' = [tmp_time EXCEPT ![d] = clock[d]]
    /\ localtime' = [localtime EXCEPT ![d] = MAX_TIME - 1]
    /\ apc' = [apc EXCEPT ![d] = "poll"]
    /\ UNCHANGED <<hq, conflag, ip, clock, hdr, hptr, rcvd, routing, limits>>

\* Broken variant: the header pointer is computed again after consumer += 2.
GetMessageFreshPointer(d) ==
    LET q == At(RecvQueue(d)) IN
    /\ apc[d] = "poll"
    /\ ~Empty(q)
    /\ rcvd' = [rcvd EXCEPT ![d] = Append(@, HeadPayload(q))]
    /\ hdr' = [hdr EXCEPT ![d] = HeadHeader(q)]
    /\ hptr' = [hptr EXCEPT ![d] = Released(q).consumer]
    /\ localtime' = [localtime EXCEPT ![d] = tmp_time[d]]
    /\ tmp_time' = [tmp_time EXCEPT ![d] = 0]
    /\ Set(RecvQueue(d), Released(q))
    /\ apc' = [apc EXCEPT ![d] = "late"]
    /\ UNCHANGED <<conflag, ip, clock, routing, limits>>

\* A message is there: it is copied, the local time resumed and the entries
\* released.  (An empty queue is M2M_TRANS_NOT_READY and another poll.)
GetMessage(d) ==
    LET q == At(RecvQueue(d)) IN
    /\ apc[d] = "poll"
    /\ ~Empty(q)
    /\ rcvd' = [rcvd EXCEPT ![d] = Append(@, HeadPayload(q))]
    /\ hdr' = [hdr EXCEPT ![d] = HeadHeader(q)]
    /\ hptr' = [hptr EXCEPT ![d] = q.consumer]
    /\ localtime' = [localtime EXCEPT ![d] = tmp_time[d]]
    /\ tmp_time' = [tmp_time EXCEPT ![d] = 0]
    /\ Set(RecvQueue(d), Released(q))
    /\ apc' = [apc EXCEPT ![d] = "late"]
    /\ UNCHANGED <<conflag, ip, clock, routing, limits>>

\* The clock catches up with the arrival time that the header now shows.
RecvReturns(d) ==
    LET h == At(RecvQueue(d)).entry[hptr[d]] IN
    /\ apc[d] = "late"
    /\ clock' = [clock EXCEPT ![d] =
           IF localtime[d] < Arrives(h) THEN Plus(@, Minus(Arrives(h), localtime[d])) ELSE @]
    /\ localtime' = [localtime EXCEPT ![d] = clock'[d]]
    /\ ip' = [ip EXCEPT ![d] = @ + 1]
    /\ hdr' = [hdr EXCEPT ![d] = NoHeader]
    /\ hptr' = [hptr EXCEPT ![d] = 0]
    /\ apc' = [apc EXCEPT ![d] = "run"]
    /\ UNCHANGED <<hq, conflag, tmp_time, rcvd, routing, limits>>

\* Network_Exit: the routing thread is cancelled wherever it is, and the local
\* time is parked.
Exit(d) ==
    /\ Calls(d, "exit")
    /\ rpc' = IF d \in Router THEN [rpc EXCEPT ![d] = "cancelled"] ELSE rpc
    /\ localtime' = [localtime EXCEPT ![d] = MAX_TIME - 1]
    /\ ip' = [ip EXCEPT ![d] = @ + 1]
    /\ apc' = [apc EXCEPT ![d] = "exited"]
    /\ UNCHANGED <<hq, conflag, clock, tmp_time, hdr, hptr, rcvd,
                   index, sel, exceeded, rtime, fptr, limits>>

Guest(d) == \/ SendNothing(d) \/ Post(d) \/ PostFail(d)
            \/ CopyHeader(d) \/ CopyPayload(d) \/ Publish(d) \/ SendReturns(d)
            \/ RecvBegins(d) \/ GetMessage(d) \/ RecvReturns(d)
            \/ Exit(d)
---------------------------------------------------------------------------
(* The routing thread of d. *)

\* Broken variant: the coordinator forgets the packets of its own guest.
SearchNumNeighborsOnly(d) == NeighborNum(d)

\* A coordinator also serves the packets of its own guest.
SearchNum(d) == NeighborNum(d) + (IF DeviceType[d] = "ZR" THEN 0 ELSE 1)

\* The queue and the device behind a scan index.
QueueAt(d, i) == IF i = NeighborNum(d) + 1 THEN LocalOut ELSE i
DeviceAt(d, i) == IF i = NeighborNum(d) + 1 THEN d ELSE Neighbors[d][i]

Waiting(d, i) == ~Empty(hq[d][QueueAt(d, i)])
SomeWaiting(d) == \E i \in 1 .. SearchNum(d) : Waiting(d, i)

\* Earlier arrival, or the same arrival and an earlier send time.
Earlier(h, s) == \/ Arrives(h) < s.mintime
                 \/ Arrives(h) = s.mintime /\ h.SendTime < s.sendtime

\* The packet at the head of the queue at index i as the one to serve.
Candidate(d, i) ==
    LET h == HeadHeader(hq[d][QueueAt(d, i)])
    IN  [mintime |-> Arrives(h), sendtime |-> h.SendTime, from |-> h.ForwardID,
         next |-> IF h.ReceiverID = d THEN d ELSE NextHop[d][h.ReceiverID],
         ind |-> QueueAt(d, i)]

Preferred(d, i) == Waiting(d, i) /\ Earlier(HeadHeader(hq[d][QueueAt(d, i)]), sel[d])

\* Every queue is empty: a router only follows its neighbours' time.
Idle(d) ==
    /\ rpc[d] = "idle"
    /\ ~SomeWaiting(d)
    /\ SyncRouter(d)
    /\ UNCHANGED <<hq, conflag, guest, routing, limits>>

Wake(d) ==
    /\ rpc[d] = "idle"
    /\ SomeWaiting(d)
    /\ SyncRouter(d)
    /\ rpc' = [rpc EXCEPT ![d] = "select"]
    /\ UNCHANGED <<hq, conflag, guest, index, sel, exceeded, rtime, fptr, limits>>

\* One index of the search for the earliest packet.
Select(d) ==
    LET i == index[d]
        last == i = SearchNum(d)
    IN  /\ rpc[d] = "select"
        /\ sel' = [sel EXCEPT ![d] = IF Preferred(d, i) THEN Candidate(d, i) ELSE @]
        /\ index' = [index EXCEPT ![d] = IF last THEN 1 ELSE i + 1]
        /\ rpc' = IF ~last THEN rpc
                  ELSE [rpc EXCEPT ![d] = IF SearchNum(d) > 2 THEN "wait" ELSE "serve"]
        /\ UNCHANGED <<shared, guest, exceeded, rtime, fptr, limits>>

\* Broken variant: the margin is taken off once more.
ThresholdTooLow(mintime) == IF mintime > onehop + 1 THEN mintime - onehop - 1 ELSE 0

Threshold(mintime) == IF mintime > onehop THEN mintime - onehop ELSE 0

\* Broken variant: an earlier packet takes over, but not its next hop.
WaitOthersStaleNext(d) ==
    LET i == index[d]
        last == i = SearchNum(d)
        s == IF Preferred(d, i) THEN [Candidate(d, i) EXCEPT !.next = sel[d].next] ELSE sel[d]
        before == IF Preferred(d, i) THEN {} ELSE exceeded[d]
        reached == /\ s.from # DeviceAt(d, i)
                   /\ Threshold(s.mintime) <= localtime[DeviceAt(d, i)]
        after == IF reached THEN before \cup {i} ELSE before
    IN  /\ rpc[d] = "wait"
        /\ sel' = [sel EXCEPT ![d] = s]
        /\ exceeded' = [exceeded EXCEPT ![d] = after]
        /\ index' = [index EXCEPT ![d] = IF last THEN 1 ELSE i + 1]
        /\ IF last THEN SyncRouter(d) ELSE UNCHANGED localtime
        /\ rpc' = IF last /\ Cardinality(after) = SearchNum(d) - 2
                  THEN [rpc EXCEPT ![d] = "serve"] ELSE rpc
        /\ UNCHANGED <<hq, conflag, guest, rtime, fptr, limits>>

\* One index of the wait until the other neighbours' clocks exceed the packet:
\* an earlier packet takes over and the deadlines start again; the scan ends
\* with a comparison of their number for equality.
WaitOthers(d) ==
    LET i == index[d]
        last == i = SearchNum(d)
        s == IF Preferred(d, i) THEN Candidate(d, i) ELSE sel[d]
        before == IF Preferred(d, i) THEN {} ELSE exceeded[d]
        reached == /\ s.from # DeviceAt(d, i)
                   /\ Threshold(s.mintime) <= localtime[DeviceAt(d, i)]
        after == IF reached THEN before \cup {i} ELSE before
    IN  /\ rpc[d] = "wait"
        /\ sel' = [sel EXCEPT ![d] = s]
        /\ exceeded' = [exceeded EXCEPT ![d] = after]
        /\ index' = [index EXCEPT ![d] = IF last THEN 1 ELSE i + 1]
        /\ IF last THEN SyncRouter(d) ELSE UNCHANGED localtime
        /\ rpc' = IF last /\ Cardinality(after) = SearchNum(d) - 2
                  THEN [rpc EXCEPT ![d] = "serve"] ELSE rpc
        /\ UNCHANGED <<hq, conflag, guest, rtime, fptr, limits>>

From(d) == hq[d][sel[d].ind]
\* Where the packet goes: the device's own guest or the queue at the next hop.
Target(d) == IF sel[d].next = d THEN <<d, LocalIn>>
             ELSE <<sel[d].next, LinkOf(sel[d].next, d)>>

Later(s, t) == IF s < t THEN t ELSE s

\* The packet's header is brought up to date, in place.
Rewrite(d, h) == hq' = [hq EXCEPT ![d][sel[d].ind].entry[From(d).consumer] = h]

\* The packet is for this device: it is handed on with the router's time.
Deliver(d) ==
    LET h == HeadHeader(From(d))
        rt == Later(rtime[d], h.SendTime)
    IN  /\ rpc[d] = "serve"
        /\ sel[d].next = d
        /\ rtime' = [rtime EXCEPT ![d] = rt]
        /\ Rewrite(d, [h EXCEPT !.SendTime = rt])
        /\ fptr' = [fptr EXCEPT ![d] = From(d).consumer]
        /\ rpc' = [rpc EXCEPT ![d] = "header"]
        /\ UNCHANGED <<conflag, localtime, guest, index, sel, exceeded, limits>>

\* Broken variant: the time of the hop before is not added to the send time.
ForwardNoHopTime(d) ==
    LET h == HeadHeader(From(d))
        rt == Later(rtime[d], h.SendTime)
        own == h.SenderID = d
    IN  /\ rpc[d] = "serve"
        /\ sel[d].next # d
        /\ \E t \in IF own THEN {h.TransTime} ELSE Latency :
              /\ Rewrite(d, [h EXCEPT !.ForwardID = d,
                                      !.SendTime = rt,
                                      !.TransTime = t])
              /\ rtime' = [rtime EXCEPT ![d] = Plus(rt, t)]
        /\ fptr' = [fptr EXCEPT ![d] = From(d).consumer]
        /\ rpc' = [rpc EXCEPT ![d] = "header"]
        /\ UNCHANGED <<conflag, localtime, guest, index, sel, exceeded, limits>>

\* The packet goes on.  A packet of the own guest has its latency already.
Forward(d) ==
    LET h == HeadHeader(From(d))
        rt == Later(rtime[d], h.SendTime)
        own == h.SenderID = d
    IN  /\ rpc[d] = "serve"
        /\ sel[d].next # d
        /\ \E t \in IF own THEN {h.TransTime} ELSE Latency :
              /\ Rewrite(d, [h EXCEPT !.ForwardID = d,
                                      !.SendTime = IF own THEN rt ELSE Plus(rt, h.TransTime),
                                      !.TransTime = t])
              /\ rtime' = [rtime EXCEPT ![d] = Plus(rt, t)]
        /\ fptr' = [fptr EXCEPT ![d] = From(d).consumer]
        /\ rpc' = [rpc EXCEPT ![d] = "header"]
        /\ UNCHANGED <<conflag, localtime, guest, index, sel, exceeded, limits>>

\* What uint64_t + uint64_t* is: a pointer, so the integer counts words.  (In a
\* 32-bit build it also wraps at 2^32; the runs stay below.)
AddPointer(t) == (8 * t + FailPointer) % TimeMod

\* The transmission fails on the way: the sender is told, with a time made of
\* the address of fail_latency, and the packet is dropped.
ForwardFail(d) ==
    LET h == HeadHeader(From(d))
        rt == Later(rtime[d], h.SendTime)
        h2 == [h EXCEPT !.ForwardID = d, !.SendTime = Plus(rt, h.TransTime), !.TransTime = 0]
    IN  /\ rpc[d] = "serve"
        /\ sel[d].next # d
        /\ h.SenderID # d
        /\ fails < MaxFails
        /\ FailLatency # {}
        /\ fails' = fails + 1
        /\ conflag' = [conflag EXCEPT ![h.SenderID] =
               [dataflag |-> 44, transtime |-> AddPointer(h2.SendTime)]]
        /\ rtime' = [rtime EXCEPT ![d] = AddPointer(rt)]
        /\ hq' = [hq EXCEPT ![d][sel[d].ind] =
               Released([@ EXCEPT !.entry[From(d).consumer] = h2])]
        /\ rpc' = [rpc EXCEPT ![d] = "idle"]
        /\ sel' = [sel EXCEPT ![d] = NoPacket]
        /\ exceeded' = [exceeded EXCEPT ![d] = {}]
        /\ UNCHANGED <<localtime, guest, index, fptr, onehop, work, arrival>>

RouteHeader(d) ==
    /\ rpc[d] = "header"
    /\ ~NoHeaderEntry(At(Target(d)))
    /\ Set(Target(d), PutHeader(At(Target(d)), HeadHeader(From(d))))
    /\ rpc' = [rpc EXCEPT ![d] = "payload"]
    /\ UNCHANGED <<conflag, localtime, guest, index, sel, exceeded, rtime, fptr, limits>>

RoutePayload(d) ==
    /\ rpc[d] = "payload"
    /\ ~NoPayloadEntry(At(Target(d)))
    /\ Set(Target(d), PutPayload(At(Target(d)), HeadPayload(From(d))))
    /\ rpc' = [rpc EXCEPT ![d] = "release"]
    /\ UNCHANGED <<conflag, localtime, guest, index, sel, exceeded, rtime, fptr, limits>>

\* Broken variant: the consumer index stays where it is.
RouteReleaseForgotten(d) ==
    /\ rpc[d] = "release"
    /\ rpc' = [rpc EXCEPT ![d] = "publish"]
    /\ UNCHANGED <<shared, guest, index, sel, exceeded, rtime, fptr, limits>>

RouteRelease(d) ==
    /\ rpc[d] = "release"
    /\ hq' = [hq EXCEPT ![d][sel[d].ind] = Released(@)]
    /\ rpc' = [rpc EXCEPT ![d] = "publish"]
    /\ UNCHANGED <<conflag, localtime, guest, index, sel, exceeded, rtime, fptr, limits>>

\* Broken variant: the producer index stays where it is.
RoutePublishForgotten(d) ==
    /\ rpc[d] = "publish"
    /\ rpc' = [rpc EXCEPT ![d] = "signal"]
    /\ UNCHANGED <<shared, guest, index, sel, exceeded, rtime, fptr, limits>>

RoutePublish(d) ==
    LET q == At(Target(d))
        h == q.entry[q.producer]
    IN  /\ rpc[d] = "publish"
        /\ Set(Target(d), Published(q))
        /\ arrival' = IF h.ReceiverID = sel[d].next
                      THEN [arrival EXCEPT ![h.SenderID] = Arrives(h)] ELSE arrival
        /\ rpc' = [rpc EXCEPT ![d] = "signal"]
        /\ UNCHANGED <<conflag, localtime, guest, index, sel, exceeded, rtime, fptr,
                       onehop, work, fails>>

\* Broken variant: a delivery to the own guest is not reported to its sender.
RouteSignalForwardedOnly(d) ==
    LET h == From(d).entry[fptr[d]]
        last == h.ReceiverID = sel[d].next /\ DeviceType[sel[d].next] = "ZED"
    IN  /\ rpc[d] = "signal"
        /\ conflag' = IF last
                      THEN [conflag EXCEPT ![h.SenderID] = [dataflag |-> 0, transtime |-> rtime[d]]]
                      ELSE conflag
        /\ rpc' = [rpc EXCEPT ![d] = "idle"]
        /\ sel' = [sel EXCEPT ![d] = NoPacket]
        /\ exceeded' = [exceeded EXCEPT ![d] = {}]
        /\ fptr' = [fptr EXCEPT ![d] = 0]
        /\ UNCHANGED <<hq, localtime, guest, index, rtime, limits>>

\* Broken variant: the last hop's transmission time is left out.
RouteSignalAtSendTime(d) ==
    LET h == From(d).entry[fptr[d]]
        mine == sel[d].next = d
        last == h.ReceiverID = sel[d].next /\ DeviceType[sel[d].next] = "ZED"
    IN  /\ rpc[d] = "signal"
        /\ conflag' = IF mine \/ last
                      THEN [conflag EXCEPT ![h.SenderID] = [dataflag |-> 0, transtime |-> rtime[d]]]
                      ELSE conflag
        /\ rpc' = [rpc EXCEPT ![d] = "idle"]
        /\ sel' = [sel EXCEPT ![d] = NoPacket]
        /\ exceeded' = [exceeded EXCEPT ![d] = {}]
        /\ fptr' = [fptr EXCEPT ![d] = 0]
        /\ UNCHANGED <<hq, localtime, guest, index, rtime, limits>>

\* Broken variant: every hop signals the sender, not only the last.
RouteSignalEveryHop(d) ==
    LET h == From(d).entry[fptr[d]]
        mine == sel[d].next = d
        rt == IF mine THEN Plus(rtime[d], h.TransTime) ELSE rtime[d]
    IN  /\ rpc[d] = "signal"
        /\ rtime' = [rtime EXCEPT ![d] = rt]
        /\ conflag' = [conflag EXCEPT ![h.SenderID] = [dataflag |-> 0, transtime |-> rt]]
        /\ rpc' = [rpc EXCEPT ![d] = "idle"]
        /\ sel' = [sel EXCEPT ![d] = NoPacket]
        /\ exceeded' = [exceeded EXCEPT ![d] = {}]
        /\ fptr' = [fptr EXCEPT ![d] = 0]
        /\ UNCHANGED <<hq, localtime, guest, index, limits>>

\* The sender that the header names NOW is told when its packet arrived.
RouteSignal(d) ==
    LET h == From(d).entry[fptr[d]]
        mine == sel[d].next = d
        last == h.ReceiverID = sel[d].next /\ DeviceType[sel[d].next] = "ZED"
        rt == IF mine THEN Plus(rtime[d], h.TransTime) ELSE rtime[d]
    IN  /\ rpc[d] = "signal"
        /\ rtime' = [rtime EXCEPT ![d] = rt]
        /\ conflag' = IF mine \/ last
                      THEN [conflag EXCEPT ![h.SenderID] = [dataflag |-> 0, transtime |-> rt]]
                      ELSE conflag
        /\ rpc' = [rpc EXCEPT ![d] = "idle"]
        /\ sel' = [sel EXCEPT ![d] = NoPacket]
        /\ exceeded' = [exceeded EXCEPT ![d] = {}]
        /\ fptr' = [fptr EXCEPT ![d] = 0]
        /\ UNCHANGED <<hq, localtime, guest, index, limits>>

Routing(d) == \/ Idle(d) \/ Wake(d) \/ Select(d) \/ WaitOthers(d)
              \/ Deliver(d) \/ Forward(d) \/ ForwardFail(d)
              \/ RouteHeader(d) \/ RoutePayload(d) \/ RouteRelease(d)
              \/ RoutePublish(d) \/ RouteSignal(d)
---------------------------------------------------------------------------
Next == \E d \in Device : Execute(d) \/ Guest(d) \/ Routing(d)

Spec == Init /\ [][Next]_vars

\* Guests and routing threads are host threads, which the host schedules; a
\* guest need not compute.
FairSpec == Spec /\ \A d \in Device : WF_vars(Guest(d)) /\ WF_vars(Routing(d))
---------------------------------------------------------------------------
(* What the network promises. *)

\* Every variable has its type.
TypeOK ==
    /\ DOMAIN hq = Device
    /\ \A d \in Device : hq[d] \in [QueueIndex(d) -> Queue({Blank} \cup Header \cup PayloadSet)]
    /\ conflag \in [Device -> [dataflag : {0, 44, 77}, transtime : Time]]
    /\ localtime \in [Device -> Time]
    /\ apc \in [Device -> {"run", "header", "payload", "publish", "signal",
                           "poll", "late", "exited"}]
    /\ ip \in [Device -> Nat \ {0}]
    /\ clock \in [Device -> Time]
    /\ tmp_time \in [Device -> Time]
    /\ hdr \in [Device -> {NoHeader} \cup Header]
    /\ hptr \in [Device -> Index]
    /\ rcvd \in [Device -> Seq(PayloadSet)]
    /\ rpc \in [Device -> {"none", "cancelled", "idle", "select", "wait", "serve",
                           "header", "payload", "release", "publish", "signal"}]
    /\ index \in [Device -> 1 .. NODE_MAX_LINKS + 1]
    /\ sel \in [Device -> [mintime : Time, sendtime : Time, from : 0 .. TotalDeviceNum,
                           next : 0 .. TotalDeviceNum, ind : 0 .. LocalOut]]
    /\ exceeded \in [Device -> SUBSET (1 .. NODE_MAX_LINKS + 1)]
    /\ rtime \in [Device -> Time]
    /\ fptr \in [Device -> Index]
    /\ onehop \in OneHopLatency
    /\ work \in [Device -> 0 .. MaxWork]
    /\ fails \in 0 .. MaxFails
    /\ arrival \in [Device -> Time]

\* What has reached host r: what its guest has copied and what is in its queue.
Arrived(r) == LET q == At(RecvQueue(r))
              IN  rcvd[r] \o (IF Empty(q) THEN << >> ELSE <<HeadPayload(q)>>)

\* The state of the service that the devices provide.
Service == INSTANCE NetworkService WITH
    ip <- [h \in Host |-> ip[h]],
    st <- [h \in Host |->
              IF apc[h] \in {"header", "payload", "publish", "signal"} THEN "wait"
              ELSE IF apc[h] = "late" THEN "got" ELSE "idle"],
    inbox <- [h \in Host |-> Arrived(h)],
    taken <- [h \in Host |-> Len(rcvd[h])]

\* Over any number of hops a receiver gets the payloads of each sender whole,
\* once each and in the order of the Network_Send calls (send_recv.c:307-324
\* and 422-471, route_processor.c:462-479 and 576-592); M2M_TRANS_SUCCESS means
\* that the payload is with its receiver (route_processor.c:479 and 494-497,
\* 592 and 603-612), M2M_TRANS_FAIL that it is not and will not be.
ImplementsService == Service!Spec

\* Where the packet that s waits for still travels: the queues before its
\* receiver's, and the routing threads between consumer += 2 and producer += 2.
Travels(s) ==
    LET p == Payload(s, ip[s])
        r == Program[s][ip[s]].to
    IN  {a \in Device \X (1 .. LocalOut) :
            /\ a[2] \in QueueIndex(a[1])
            /\ a # RecvQueue(r)
            /\ ~Empty(At(a))
            /\ HeadPayload(At(a)) = p}
        \cup {d \in Router :
            /\ rpc[d] = "publish"
            /\ At(Target(d)).entry[PayloadOf(At(Target(d)).producer)] = p}

\* A sender that spins on its control flag (send_recv.c:331) is not forgotten:
\* its packet travels, in one place only, or it has arrived and a routing
\* thread is about to signal this very sender, although that thread takes the
\* sender's name from a queue entry it has already released
\* (route_processor.c:478 and 494, 591 and 607).
WaitingSenderIsServed ==
    \A s \in Host : apc[s] = "signal" /\ conflag[s].dataflag = 77 =>
        \/ Cardinality(Travels(s)) = 1
        \/ /\ Travels(s) = {}
           /\ \E d \in Router : rpc[d] = "signal" /\ From(d).entry[fptr[d]].SenderID = s

\* "Receiver routing processor will modify dataflag=>0 and correspond arrivel
\* time" (send_recv.c:52-53): the time in a control flag that reports success
\* is the time at which the packet reached its receiver.
SignalIsArrival ==
    \A s \in Host : apc[s] = "signal" /\ conflag[s].dataflag = 0 =>
        conflag[s].transtime = arrival[s]

\* The entry from which m2m_get_local_msg takes the arrival time (send_recv.c:
\* 516-519) still holds the header of the message received, although it is
\* released before (471).  False of the code: BadReceiveTime.cfg.
ReceiverSeesOwnHeader ==
    \A d \in Host : apc[d] = "late" => At(RecvQueue(d)).entry[hptr[d]] = hdr[d]

\* The routing threads that have copied a header for d into a full queue and
\* spin until there is room for the payload.
Overwriting(d) == {f \in Router : /\ rpc[f] = "payload"
                                  /\ Target(f) = RecvQueue(d)
                                  /\ ~Empty(At(RecvQueue(d)))}

\* Which arrival time m2m_get_local_msg advances the receiver to, when it reads
\* it after consumer += 2 (send_recv.c:471 and 516-519): that of the message
\* received, except when two more messages have followed meanwhile, one that
\* fills the queue and one whose header is copied before there is room for its
\* payload (route_processor.c:467-470 and 581-584); then it is the arrival time
\* of the latter, and of no other.
LateReadSeesHeader ==
    \A d \in Host : apc[d] = "late" =>
        LET h == At(RecvQueue(d)).entry[hptr[d]]
        IN  IF Overwriting(d) = {} THEN h = hdr[d]
            ELSE \E f \in Overwriting(d) : h = HeadHeader(From(f))

\* A guest receives nothing but whole payloads of Network_Send calls whose
\* receiver it is (send_recv.c:447-466): a routing thread copies the header and
\* the payload of a packet one after the other into a queue of the next hop,
\* which it takes from the header (route_processor.c:462-479 and 576-592).
ReceivesOwnPayloads ==
    \A d \in Host : \A k \in 1 .. Len(rcvd[d]) :
        LET p == rcvd[d][k]
        IN  /\ p.call \in 1 .. Len(Program[p.from])
            /\ Program[p.from][p.call].op = "send"
            /\ Program[p.from][p.call].to = d

\* The virtual time of a guest never runs backwards (send_recv.c:360 and 376
\* add an unsigned difference).
ClockNeverBack == [][\A d \in Device : clock'[d] >= clock[d]]_vars

\* The wait for the other neighbours (route_processor.c:292 and 298-408) is
\* worth its cost: once a neighbour's deadline is counted, no packet of that
\* neighbour turns up that arrives before the packet about to be served.
DeadlineHolds ==
    \A d \in Router : rpc[d] = "serve" =>
        \A i \in exceeded[d] : Waiting(d, i) =>
            Arrives(HeadHeader(hq[d][QueueAt(d, i)])) >= sel[d].mintime

\* The end of every program is reached: no send and no receive blocks for
\* ever.
AllReturn == <>(\A d \in Device : ip[d] > Len(Program[d]))
---------------------------------------------------------------------------
(* Networks for which more is proved. *)

\* Where a packet from s to r comes along: the least set of devices that
\* contains s and with a device its next hop.
OnRoute(s, r) ==
    {d \in Device : \A D \in SUBSET Device :
        s \in D /\ (\A e \in D \ {r} : NextHop[e][r] \in D) => d \in D}

SendsTo(s) == {r \in Host \ {s} : \E k \in 1 .. Len(Program[s]) :
                  Program[s][k].op = "send" /\ Program[s][k].to = r}

\* Whose packets cross the link from d to n.
LinkUsers(d, n) == {s \in Host : \E r \in SendsTo(s) :
                        d \in OnRoute(s, r) /\ d # r /\ NextHop[d][r] = n}

\* At most two senders share a link between routers.
TwoPerLink == \A d, n \in Router : \A s, t, u \in LinkUsers(d, n) : s = t \/ t = u \/ s = u

\* No routing thread ends with its guest.
RoutersStay == \A d \in Router : \A k \in 1 .. Len(Program[d]) : Program[d][k].op # "exit"

\* Every send goes to the coordinator or to a neighbour.
ShortRoutes == \A s \in Host : \A r \in SendsTo(s) : r = 1 \/ NextHop[s][r] = r
===========================================================================
