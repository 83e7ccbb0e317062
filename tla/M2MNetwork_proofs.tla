--------------------------- MODULE M2MNetwork_proofs ---------------------------
(***************************************************************************)
(* Proofs about the network, for every topology, program and latency: in   *)
(* every queue a header is followed by its own payload, and a guest        *)
(* receives only what was sent to it.  While the routers stay, it is known *)
(* which header a receiver reads after it has released it.  And for the    *)
(* networks in which at most two senders share a link between routers too: *)
(* every sender that waits is served, the network implements the message   *)
(* service of NetworkService, and where every send goes to the coordinator *)
(* or to a neighbour, the time a sender is told is the time of arrival.    *)
(*                                                                         *)
(* A queue has one thread that feeds it and one that drains it.  So the    *)
(* argument of HeaderQueue_proofs carries over: what a thread relies on at *)
(* its end of a queue is kept by the thread at the other end.  The second  *)
(* half follows each packet: from the queue its sender feeds to the inbox  *)
(* of its receiver it is at one place at a time, and its sender waits.     *)
(***************************************************************************)
EXTENDS M2MNetwork, TLAPS, InductionFacts, FiniteSetTheorems

---------------------------------------------------------------------------
(* The topology. *)

\* Neighbours are devices, and fit into the arrays of queues.
LEMMA NeighborFacts ==
    ASSUME NEW d \in Device
    PROVE  /\ NeighborNum(d) \in 1 .. 8
           /\ \A i \in 1 .. NeighborNum(d) : Neighbors[d][i] \in Device
           /\ NeighborSet(d) \subseteq Device
           /\ NeighborSet(d) # {}
<1>1. Neighbors[d] \in Seq(Device) /\ NeighborNum(d) \in 1 .. 8
  BY TopologyAssumption DEF NODE_MAX_LINKS
<1>2. \A i \in 1 .. NeighborNum(d) : Neighbors[d][i] \in Device
  BY <1>1 DEF NeighborNum
<1>3. 1 \in 1 .. NeighborNum(d)
  BY <1>1
<1> QED
  BY <1>1, <1>2, <1>3 DEF NeighborSet

\* Neighbours know each other.
LEMMA Symmetric ==
    ASSUME NEW d \in Device, NEW n \in NeighborSet(d)
    PROVE  n \in Device /\ d \in NeighborSet(n)
<1>1. PICK i \in 1 .. NeighborNum(d) : n = Neighbors[d][i]
  BY DEF NeighborSet
<1>2. \E j \in 1 .. NeighborNum(n) : Neighbors[n][j] = d
  BY <1>1, TopologyAssumption
<1> QED
  BY <1>1, <1>2, NeighborFacts DEF NeighborSet

\* The queue of n for its neighbour d.
LEMMA LinkFacts ==
    ASSUME NEW n \in Device, NEW d \in NeighborSet(n)
    PROVE  /\ LinkOf(n, d) \in 1 .. NeighborNum(n)
           /\ Neighbors[n][LinkOf(n, d)] = d
<1>1. PICK i \in 1 .. NeighborNum(n) : Neighbors[n][i] = d
  BY DEF NeighborSet
<1>2. CASE DeviceType[n] = "ZED"
  <2>1. NeighborNum(n) = 1
    BY <1>2, TopologyAssumption
  <2>2. i = 1
    BY <1>1, <2>1
  <2> QED
    BY <1>1, <1>2, <2>1, <2>2 DEF LinkOf
<1>3. CASE DeviceType[n] # "ZED"
  BY <1>1, <1>3 DEF LinkOf
<1> QED
  BY <1>2, <1>3

\* An end device has one neighbour, which is none.
LEMMA EndDevice ==
    ASSUME NEW d \in Device, DeviceType[d] = "ZED"
    PROVE  /\ NeighborNum(d) = 1
           /\ Neighbors[d][1] \in NeighborSet(d)
           /\ DeviceType[Neighbors[d][1]] # "ZED"
<1>1. NeighborNum(d) = 1 /\ DeviceType[Neighbors[d][1]] # "ZED"
  BY TopologyAssumption
<1> QED
  BY <1>1 DEF NeighborSet

\* Which queues a device has.
LEMMA QueueIndexFacts ==
    ASSUME NEW d \in Device
    PROVE  /\ \A i \in 1 .. NeighborNum(d) : i \in QueueIndex(d) /\ i # LocalIn /\ i # LocalOut
           /\ \A i \in QueueIndex(d) : i \in 1 .. NeighborNum(d) \/ i = LocalIn \/ i = LocalOut
           /\ LocalIn \in QueueIndex(d) <=> DeviceType[d] = "ZC"
           /\ LocalOut \in QueueIndex(d) <=> DeviceType[d] = "ZC"
           /\ LocalIn = 9 /\ LocalOut = 10
           /\ QueueIndex(d) \subseteq 1 .. 10
<1>1. NeighborNum(d) \in 1 .. 8
  BY NeighborFacts
<1>2. LocalIn = 9 /\ LocalOut = 10
  BY DEF LocalIn, LocalOut, NODE_MAX_LINKS
<1> QED
  BY <1>1, <1>2 DEF QueueIndex
---------------------------------------------------------------------------
(* The inductive invariant. *)

\* The payload p is of a call that sends from s to r.
Addressed(p, s, r) ==
    /\ p \in PayloadSet
    /\ p.from = s
    /\ p.call \in 1 .. Len(Program[s])
    /\ Program[s][p.call].op = "send"
    /\ Program[s][p.call].to = r

\* A header on its way: its transmission takes time.
Good(h) == h \in Header /\ h.TransTime # 0 /\ h.ReceiverID \in Host

\* The queues that guests receive from.
IsRecvQueue(n, i) == DeviceType[n] = "ZED" \/ i = LocalIn

\* A header and a payload that belong together, and in queue i of n.
Message(n, i, h, p) ==
    /\ Good(h)
    /\ Addressed(p, h.SenderID, h.ReceiverID)
    /\ IsRecvQueue(n, i) => h.ReceiverID = n

Entry == {Blank} \cup Header \cup PayloadSet
Even == {0, 2}

TailHeader(q) == q.entry[q.producer]
TailPayload(q) == q.entry[PayloadOf(q.producer)]

QueueOK(n, i, q) ==
    /\ q \in Queue(Entry)
    /\ q.producer \in Even
    /\ q.consumer \in Even
    /\ ~Empty(q) => Message(n, i, HeadHeader(q), HeadPayload(q))

QueuesOK == \A n \in Device : \A i \in QueueIndex(n) : QueueOK(n, i, hq[n][i])

\* The guest d makes the header it sends, then copies it, then the payload.
Sends(d) ==
    /\ d \in Host
    /\ Good(hdr[d])
    /\ Addressed(Payload(d, ip[d]), hdr[d].SenderID, hdr[d].ReceiverID)

GuestInv(d) ==
    /\ apc[d] \in {"header", "payload"} => Sends(d)
    /\ apc[d] = "payload" => TailHeader(At(SendQueue(d))) = hdr[d]
    /\ apc[d] = "publish" =>
           LET q == At(SendQueue(d)) IN
           /\ d \in Host
           /\ Empty(q)
           /\ Message(SendQueue(d)[1], SendQueue(d)[2], TailHeader(q), TailPayload(q))
    /\ apc[d] = "poll" => d \in Host
    /\ apc[d] = "late" => d \in Host /\ hptr[d] \in Even
                          /\ At(RecvQueue(d)).entry[hptr[d]] \in Header

\* Where a packet for r goes from d.
Hop(d, r) == IF r = d THEN d ELSE NextHop[d][r]

\* The queues that the routing thread of d scans.
Scanned(d) == QueueIndex(d) \ {LocalIn}

\* Where the routing thread of d can send packets: its own guest, a neighbour.
CanHop(d, n) == IF n = d THEN DeviceType[d] = "ZC" ELSE n \in NeighborSet(d)

Selected(d) ==
    /\ sel[d].ind \in Scanned(d)
    /\ ~Empty(From(d))
    /\ sel[d].next = Hop(d, HeadHeader(From(d)).ReceiverID)

RouterInv(d) ==
    /\ rpc[d] # "none" => d \in Router
    /\ rpc[d] \in {"idle", "select", "wait"} => index[d] \in 1 .. SearchNum(d)
    /\ rpc[d] = "idle" => sel[d] = NoPacket /\ index[d] = 1
    /\ rpc[d] = "select" => \/ Selected(d)
                            \/ /\ sel[d] = NoPacket
                               /\ \E i \in index[d] .. SearchNum(d) : Waiting(d, i)
    /\ rpc[d] \in {"serve", "header", "payload", "release", "publish", "signal"} => index[d] = 1
    /\ rpc[d] \in {"wait", "serve", "header", "payload", "release"} => Selected(d)
    /\ rpc[d] \in {"header", "payload", "release", "publish", "signal"} =>
           /\ CanHop(d, sel[d].next)
           /\ sel[d].ind \in Scanned(d)
           /\ fptr[d] \in Even
           /\ From(d).entry[fptr[d]] \in Header
    /\ rpc[d] = "payload" => TailHeader(At(Target(d))) = HeadHeader(From(d))
    /\ rpc[d] \in {"release", "publish"} =>
           LET q == At(Target(d)) IN
           /\ Empty(q)
           /\ Message(Target(d)[1], Target(d)[2], TailHeader(q), TailPayload(q))

ReceivedInv == \A d \in Device : \A k \in 1 .. Len(rcvd[d]) :
    Addressed(rcvd[d][k], rcvd[d][k].from, d)

ThreadsInv == \A d \in Device : GuestInv(d) /\ RouterInv(d)

IInv == TypeOK /\ QueuesOK /\ ReceivedInv /\ ThreadsInv

---------------------------------------------------------------------------
(* What the operations on a queue keep. *)

\* What the thread that drains a queue relies on.
KeepsHead(q, r) ==
    ~Empty(q) => /\ ~Empty(r)
                 /\ HeadHeader(r) = HeadHeader(q)
                 /\ HeadPayload(r) = HeadPayload(q)

\* It reads a header again after it has released it: it finds a header there.
KeepsHeaders(q, r) == \A j \in Even : q.entry[j] \in Header => r.entry[j] \in Header

\* What the thread that feeds a queue relies on.
KeepsTail(q, r) ==
    /\ TailHeader(r) = TailHeader(q)
    /\ TailPayload(r) = TailPayload(q)
    /\ Empty(q) => Empty(r)

EvenQueue(q) == q \in Queue(Entry) /\ q.producer \in Even /\ q.consumer \in Even

LEMMA EvenFacts ==
    /\ \A i \in Even : i \in Index /\ PayloadOf(i) \in Index /\ PayloadOf(i) \notin Even
    /\ \A i \in Even : Advance(i) \in Even /\ Advance(i) # i
    /\ \A i, j \in Even : i # j => Advance(i) = j
    /\ \A i, j \in Even : (i + 2) % HEADER_QUEUE_ENTRY_NUM # j => i = j
<1>1. PayloadOf(0) = 1 /\ PayloadOf(2) = 3
  BY DEF PayloadOf, HEADER_QUEUE_ENTRY_NUM
<1>2. Advance(0) = 2 /\ Advance(2) = 0 /\ (0 + 2) % 4 = 2 /\ (2 + 2) % 4 = 0
  BY DEF Advance, HEADER_QUEUE_ENTRY_NUM
<1>3. Index = 0 .. 3 /\ HEADER_QUEUE_ENTRY_NUM = 4
  BY DEF Index, HEADER_QUEUE_ENTRY_NUM
<1> QED
  BY <1>1, <1>2, <1>3 DEF Even

\* A queue as a record, and one with another entry or another index.
LEMMA QueueUpdate ==
    ASSUME NEW q, EvenQueue(q)
    PROVE  /\ \A j \in Index, e \in Entry :
                 LET r == [q EXCEPT !.entry[j] = e]
                 IN  /\ EvenQueue(r)
                     /\ r.producer = q.producer
                     /\ r.consumer = q.consumer
                     /\ r.entry[j] = e
                     /\ \A k \in Index : k # j => r.entry[k] = q.entry[k]
           /\ \A j \in Even :
                 LET r == [q EXCEPT !.producer = j]
                 IN  EvenQueue(r) /\ r.producer = j /\ r.consumer = q.consumer /\ r.entry = q.entry
           /\ \A j \in Even :
                 LET r == [q EXCEPT !.consumer = j]
                 IN  EvenQueue(r) /\ r.producer = q.producer /\ r.consumer = j /\ r.entry = q.entry
<1>1. \A j \in Even : j \in Index
  BY EvenFacts
<1> QED
  BY <1>1 DEF EvenQueue, Queue

LEMMA PutHeaderFacts ==
    ASSUME NEW q, EvenQueue(q), NEW h \in Header, NEW r, r = PutHeader(q, h)
    PROVE  /\ EvenQueue(r)
           /\ KeepsHead(q, r)
           /\ KeepsHeaders(q, r)
           /\ TailHeader(r) = h
           /\ Empty(r) <=> Empty(q)
<1>1. q.producer \in Even /\ q.consumer \in Even /\ h \in Entry
  BY DEF EvenQueue, Entry
<1>2. /\ q.producer \in Index /\ q.consumer \in Index
      /\ PayloadOf(q.consumer) \in Index /\ PayloadOf(q.consumer) \notin Even
  BY <1>1, EvenFacts
<1>3. /\ EvenQueue(r) /\ r.producer = q.producer /\ r.consumer = q.consumer
      /\ r.entry[q.producer] = h
      /\ \A k \in Index : k # q.producer => r.entry[k] = q.entry[k]
  BY <1>1, <1>2, QueueUpdate DEF PutHeader
<1>4. KeepsHead(q, r)
  BY <1>1, <1>2, <1>3 DEF KeepsHead, Empty, HeadHeader, HeadPayload
<1>5. KeepsHeaders(q, r)
  BY <1>3, EvenFacts DEF KeepsHeaders
<1> QED
  BY <1>3, <1>4, <1>5 DEF TailHeader, Empty

LEMMA PutPayloadFacts ==
    ASSUME NEW q, EvenQueue(q), ~NoPayloadEntry(q),
           NEW p \in PayloadSet, NEW r, r = PutPayload(q, p)
    PROVE  /\ EvenQueue(r)
           /\ KeepsHead(q, r)
           /\ KeepsHeaders(q, r)
           /\ TailHeader(r) = TailHeader(q)
           /\ TailPayload(r) = p
           /\ Empty(q)
           /\ Empty(r)
<1>1. q.producer \in Even /\ q.consumer \in Even /\ p \in Entry
  BY DEF EvenQueue, Entry
<1>2. /\ q.producer \in Index
      /\ PayloadOf(q.producer) \in Index /\ PayloadOf(q.producer) \notin Even
  BY <1>1, EvenFacts
<1>3. /\ EvenQueue(r) /\ r.producer = q.producer /\ r.consumer = q.consumer
      /\ r.entry[PayloadOf(q.producer)] = p
      /\ \A k \in Index : k # PayloadOf(q.producer) => r.entry[k] = q.entry[k]
  BY <1>1, <1>2, QueueUpdate DEF PutPayload
<1>4. q.producer = q.consumer
  BY <1>1, EvenFacts DEF NoPayloadEntry
<1>5. KeepsHeaders(q, r)
  BY <1>2, <1>3, EvenFacts DEF KeepsHeaders
<1> QED
  BY <1>1, <1>2, <1>3, <1>4, <1>5 DEF KeepsHead, TailHeader, TailPayload, Empty

LEMMA PublishedFacts ==
    ASSUME NEW q, EvenQueue(q), Empty(q), NEW r, r = Published(q)
    PROVE  /\ EvenQueue(r)
           /\ KeepsHead(q, r)
           /\ KeepsHeaders(q, r)
           /\ ~Empty(r)
           /\ HeadHeader(r) = TailHeader(q)
           /\ HeadPayload(r) = TailPayload(q)
<1>1. q.producer \in Even /\ q.consumer \in Even /\ q.producer = q.consumer
  BY DEF EvenQueue, Empty
<1>2. Advance(q.producer) \in Even /\ Advance(q.producer) # q.producer
  BY <1>1, EvenFacts
<1>3. EvenQueue(r) /\ r.producer = Advance(q.producer) /\ r.consumer = q.consumer
      /\ r.entry = q.entry
  BY <1>2, QueueUpdate DEF Published
<1> QED
  BY <1>1, <1>2, <1>3
     DEF KeepsHead, KeepsHeaders, Empty, HeadHeader, HeadPayload, TailHeader, TailPayload

LEMMA ReleasedFacts ==
    ASSUME NEW q, EvenQueue(q), ~Empty(q), NEW r, r = Released(q)
    PROVE  /\ EvenQueue(r)
           /\ KeepsTail(q, r)
           /\ r.entry = q.entry
           /\ Empty(r)
<1>1. q.producer \in Even /\ q.consumer \in Even /\ q.producer # q.consumer
  BY DEF EvenQueue, Empty
<1>2. Advance(q.consumer) \in Even /\ Advance(q.consumer) = q.producer
  BY <1>1, EvenFacts
<1>3. EvenQueue(r) /\ r.producer = q.producer /\ r.consumer = Advance(q.consumer)
      /\ r.entry = q.entry
  BY <1>2, QueueUpdate DEF Released
<1> QED
  BY <1>1, <1>2, <1>3 DEF KeepsTail, Empty, TailHeader, TailPayload

LEMMA RewriteFacts ==
    ASSUME NEW q, EvenQueue(q), ~Empty(q), NEW h \in Header,
           NEW r, r = [q EXCEPT !.entry[q.consumer] = h]
    PROVE  /\ EvenQueue(r)
           /\ KeepsTail(q, r)
           /\ ~Empty(r)
           /\ r.consumer = q.consumer
           /\ HeadHeader(r) = h
           /\ HeadPayload(r) = HeadPayload(q)
<1>1. q.producer \in Even /\ q.consumer \in Even /\ q.producer # q.consumer /\ h \in Entry
  BY DEF EvenQueue, Empty, Entry
<1>2. /\ q.consumer \in Index /\ q.producer \in Index
      /\ PayloadOf(q.producer) \in Index /\ PayloadOf(q.producer) # q.consumer
      /\ PayloadOf(q.consumer) \in Index /\ PayloadOf(q.consumer) # q.consumer
  BY <1>1, EvenFacts
<1>3. /\ EvenQueue(r) /\ r.producer = q.producer /\ r.consumer = q.consumer
      /\ r.entry[q.consumer] = h
      /\ \A k \in Index : k # q.consumer => r.entry[k] = q.entry[k]
  BY <1>1, <1>2, QueueUpdate
<1> QED
  BY <1>1, <1>2, <1>3
     DEF KeepsTail, Empty, HeadHeader, HeadPayload, TailHeader, TailPayload
---------------------------------------------------------------------------
(* A step changes one queue, or none. *)

QueueTypes ==
    /\ DOMAIN hq = Device
    /\ \A d \in Device : hq[d] \in [QueueIndex(d) -> Queue(Entry)]

Others(n, i) == \A m \in Device : \A j \in QueueIndex(m) :
                   m # n \/ j # i => hq'[m][j] = hq[m][j]

LEMMA OneQueue ==
    ASSUME QueueTypes, NEW n \in Device, NEW i \in QueueIndex(n), NEW r, EvenQueue(r),
           hq' = [hq EXCEPT ![n][i] = r]
    PROVE  QueueTypes' /\ hq'[n][i] = r /\ Others(n, i)
<1>1. r \in Queue(Entry)
  BY DEF EvenQueue
<1>2. hq[n] \in [QueueIndex(n) -> Queue(Entry)]
  BY DEF QueueTypes
<1>3. DOMAIN hq' = Device
  BY DEF QueueTypes
<1>4. hq'[n] = [hq[n] EXCEPT ![i] = r]
  BY DEF QueueTypes
<1>5. \A m \in Device : m # n => hq'[m] = hq[m]
  BY DEF QueueTypes
<1>6. hq'[n] \in [QueueIndex(n) -> Queue(Entry)]
  BY <1>1, <1>2, <1>4
<1>7. hq'[n][i] = r /\ \A j \in QueueIndex(n) : j # i => hq'[n][j] = hq[n][j]
  BY <1>2, <1>4
<1>8. \A d \in Device : hq'[d] \in [QueueIndex(d) -> Queue(Entry)]
  BY <1>5, <1>6 DEF QueueTypes
<1> QED
  BY <1>3, <1>5, <1>7, <1>8 DEF QueueTypes, Others

LEMMA OneQueueOK ==
    ASSUME QueuesOK, NEW n \in Device, NEW i \in QueueIndex(n),
           Others(n, i), QueueOK(n, i, hq'[n][i])
    PROVE  QueuesOK'
BY DEF QueuesOK, Others, QueueOK, Message, Good, Addressed, IsRecvQueue
---------------------------------------------------------------------------
(* Who feeds and who drains a queue. *)

Feeder(n, i) == IF i \in {LocalIn, LocalOut} THEN n ELSE Neighbors[n][i]
FedByGuest(n, i) == i = LocalOut \/ (i # LocalIn /\ DeviceType[Neighbors[n][i]] = "ZED")

LEMMA GuestFeeds ==
    ASSUME NEW d \in Host
    PROVE  LET n == SendQueue(d)[1]
               i == SendQueue(d)[2]
           IN  /\ n \in Device
               /\ i \in QueueIndex(n)
               /\ ~IsRecvQueue(n, i)
               /\ FedByGuest(n, i)
               /\ Feeder(n, i) = d
<1>1. d \in Device /\ DeviceType[d] \in {"ZC", "ZR", "ZED"} /\ DeviceType[d] # "ZR"
  BY TopologyAssumption DEF Host
<1>2. CASE DeviceType[d] = "ZED"
  <2> DEFINE n == Neighbors[d][1]
  <2>1. n \in NeighborSet(d) /\ DeviceType[n] # "ZED"
    BY <1>1, <1>2, EndDevice
  <2>2. n \in Device /\ d \in NeighborSet(n)
    BY <1>1, <2>1, Symmetric
  <2>3. LinkOf(n, d) \in 1 .. NeighborNum(n) /\ Neighbors[n][LinkOf(n, d)] = d
    BY <2>2, LinkFacts
  <2>4. LinkOf(n, d) \in QueueIndex(n) /\ LinkOf(n, d) # LocalIn /\ LinkOf(n, d) # LocalOut
    BY <2>2, <2>3, QueueIndexFacts
  <2>5. SendQueue(d)[1] = n /\ SendQueue(d)[2] = LinkOf(n, d)
    BY <1>2 DEF SendQueue
  <2> HIDE DEF n
  <2> QED
    BY <1>2, <2>1, <2>2, <2>3, <2>4, <2>5 DEF IsRecvQueue, FedByGuest, Feeder
<1>3. CASE DeviceType[d] = "ZC"
  <2>1. SendQueue(d)[1] = d /\ SendQueue(d)[2] = LocalOut
    BY <1>3 DEF SendQueue
  <2>2. LocalOut \in QueueIndex(d) /\ LocalOut # LocalIn
    BY <1>1, <1>3, QueueIndexFacts
  <2> QED
    BY <1>1, <1>3, <2>1, <2>2 DEF IsRecvQueue, FedByGuest, Feeder
<1> QED
  BY <1>1, <1>2, <1>3

LEMMA GuestDrains ==
    ASSUME NEW d \in Host
    PROVE  /\ d \in Device
           /\ RecvQueue(d)[1] = d
           /\ RecvQueue(d)[2] \in QueueIndex(d)
           /\ IsRecvQueue(d, RecvQueue(d)[2])
<1>1. d \in Device /\ DeviceType[d] \in {"ZC", "ZR", "ZED"} /\ DeviceType[d] # "ZR"
  BY TopologyAssumption DEF Host
<1>2. CASE DeviceType[d] = "ZED"
  <2>1. 1 \in 1 .. NeighborNum(d)
    BY <1>1, <1>2, EndDevice
  <2>2. 1 \in QueueIndex(d)
    BY <1>1, <2>1, QueueIndexFacts
  <2> QED
    BY <1>1, <1>2, <2>2 DEF RecvQueue, IsRecvQueue
<1>3. CASE DeviceType[d] = "ZC"
  BY <1>1, <1>3, QueueIndexFacts DEF RecvQueue, IsRecvQueue
<1> QED
  BY <1>1, <1>2, <1>3

LEMMA RouterFeeds ==
    ASSUME NEW d \in Router, CanHop(d, sel[d].next)
    PROVE  LET n == Target(d)[1]
               i == Target(d)[2]
           IN  /\ n \in Device
               /\ i \in QueueIndex(n)
               /\ i # LocalOut
               /\ n = sel[d].next
               /\ n = d <=> i = LocalIn
               /\ ~FedByGuest(n, i)
               /\ Feeder(n, i) = d
<1>1. d \in Device /\ DeviceType[d] # "ZED"
  BY DEF Router
<1>2. CASE sel[d].next = d
  <2>1. Target(d)[1] = d /\ Target(d)[2] = LocalIn
    BY <1>2 DEF Target
  <2>2. DeviceType[d] = "ZC"
    BY <1>2 DEF CanHop
  <2>3. LocalIn \in QueueIndex(d) /\ LocalIn # LocalOut
    BY <1>1, <2>2, QueueIndexFacts
  <2> QED
    BY <1>1, <1>2, <2>1, <2>3 DEF FedByGuest, Feeder
<1>3. CASE sel[d].next # d
  <2> DEFINE n == sel[d].next
  <2>1. n \in NeighborSet(d)
    BY <1>3 DEF CanHop
  <2>2. n \in Device /\ d \in NeighborSet(n)
    BY <1>1, <2>1, Symmetric
  <2>3. LinkOf(n, d) \in 1 .. NeighborNum(n) /\ Neighbors[n][LinkOf(n, d)] = d
    BY <2>2, LinkFacts
  <2>4. LinkOf(n, d) \in QueueIndex(n) /\ LinkOf(n, d) # LocalIn /\ LinkOf(n, d) # LocalOut
    BY <2>2, <2>3, QueueIndexFacts
  <2>5. Target(d)[1] = n /\ Target(d)[2] = LinkOf(n, d)
    BY <1>3 DEF Target
  <2>6. n # d
    BY <1>3
  <2> HIDE DEF n
  <2> QED
    BY <1>1, <2>2, <2>3, <2>4, <2>5, <2>6 DEF FedByGuest, Feeder, n
<1> QED
  BY <1>2, <1>3

LEMMA RouterDrains ==
    ASSUME NEW d \in Router
    PROVE  /\ d \in Device
           /\ Scanned(d) \subseteq QueueIndex(d)
           /\ \A i \in Scanned(d) : ~IsRecvQueue(d, i)
BY DEF Router, Scanned, IsRecvQueue
---------------------------------------------------------------------------
(* A thread that does not move keeps its part of the invariant. *)

GuestRests(d) == apc'[d] = apc[d] /\ ip'[d] = ip[d] /\ hdr'[d] = hdr[d] /\ hptr'[d] = hptr[d]
RouterRests(d) ==
    rpc'[d] = rpc[d] /\ index'[d] = index[d] /\ sel'[d] = sel[d] /\ fptr'[d] = fptr[d]

LEMMA GuestKept ==
    ASSUME NEW d \in Device, GuestInv(d), GuestRests(d),
           d \in Host => /\ KeepsTail(At(SendQueue(d)), At(SendQueue(d))')
                         /\ KeepsHeaders(At(RecvQueue(d)), At(RecvQueue(d))')
    PROVE  GuestInv(d)'
<1>1. SendQueue(d)' = SendQueue(d) /\ RecvQueue(d)' = RecvQueue(d)
  BY DEF SendQueue, RecvQueue, LinkOf, NeighborNum
<1> DEFINE q == At(SendQueue(d))
           r == At(SendQueue(d))'
           w == At(RecvQueue(d))
           u == At(RecvQueue(d))'
<1>2. At(SendQueue(d))' = r /\ At(RecvQueue(d))' = u
  OBVIOUS
<1>3. apc[d] \in {"header", "payload"} => Sends(d) /\ Sends(d)'
  BY DEF GuestInv, GuestRests, Sends, Good, Addressed, Payload, Host, Device
<1>4. apc[d] = "payload" => TailHeader(r) = hdr'[d]
  <2>1. apc[d] = "payload" => d \in Host /\ TailHeader(q) = hdr[d]
    BY DEF GuestInv, Sends
  <2> HIDE DEF q, r
  <2> QED
    BY <2>1 DEF GuestRests, KeepsTail, q, r
<1>5. apc[d] = "publish" =>
         /\ d \in Host
         /\ Empty(r)
         /\ Message(SendQueue(d)[1], SendQueue(d)[2], TailHeader(r), TailPayload(r))
  <2>1. apc[d] = "publish" =>
         /\ d \in Host
         /\ Empty(q)
         /\ Message(SendQueue(d)[1], SendQueue(d)[2], TailHeader(q), TailPayload(q))
    BY DEF GuestInv
  <2>2. d \in Host => KeepsTail(q, r)
    OBVIOUS
  <2> HIDE DEF q, r
  <2> QED
    BY <2>1, <2>2 DEF KeepsTail
<1>6. apc[d] = "poll" => d \in Host
  BY DEF GuestInv
<1>7. apc[d] = "late" => d \in Host /\ hptr[d] \in Even /\ u.entry[hptr[d]] \in Header
  <2>1. apc[d] = "late" => d \in Host /\ hptr[d] \in Even /\ w.entry[hptr[d]] \in Header
    BY DEF GuestInv
  <2>2. d \in Host => KeepsHeaders(w, u)
    OBVIOUS
  <2> HIDE DEF w, u
  <2> QED
    BY <2>1, <2>2 DEF KeepsHeaders
<1> HIDE DEF q, r, w, u
<1> QED
  BY <1>1, <1>2, <1>3, <1>4, <1>5, <1>6, <1>7 DEF GuestInv, GuestRests

LEMMA ScanFacts ==
    ASSUME NEW d \in Router, NEW i \in 1 .. SearchNum(d)
    PROVE  /\ QueueAt(d, i) \in Scanned(d)
           /\ DeviceAt(d, i) \in Device
           /\ SearchNum(d) \in 1 .. 9
<1>1. d \in Device /\ DeviceType[d] \in {"ZC", "ZR"}
  BY TopologyAssumption DEF Router
<1>2. NeighborNum(d) \in 1 .. 8 /\ \A j \in 1 .. NeighborNum(d) : Neighbors[d][j] \in Device
  BY <1>1, NeighborFacts
<1>3. CASE i \in 1 .. NeighborNum(d)
  BY <1>1, <1>2, <1>3, QueueIndexFacts DEF QueueAt, DeviceAt, SearchNum, Scanned
<1>4. CASE i \notin 1 .. NeighborNum(d)
  <2>1. DeviceType[d] = "ZC" /\ i = NeighborNum(d) + 1
    BY <1>1, <1>2, <1>4 DEF SearchNum
  <2> QED
    BY <1>1, <1>2, <2>1, QueueIndexFacts DEF QueueAt, DeviceAt, SearchNum, Scanned
<1> QED
  BY <1>3, <1>4

LEMMA SelectedKept ==
    ASSUME NEW d \in Device, Selected(d), sel'[d] = sel[d],
           KeepsHead(From(d), From(d)')
    PROVE  Selected(d)' /\ HeadHeader(From(d))' = HeadHeader(From(d))
<1> DEFINE q == From(d)
           r == From(d)'
<1>1. sel[d].ind \in Scanned(d) /\ ~Empty(q) /\ sel[d].next = Hop(d, HeadHeader(q).ReceiverID)
  BY DEF Selected
<1>2. KeepsHead(q, r)
  OBVIOUS
<1>3. ~Empty(r) /\ HeadHeader(r) = HeadHeader(q)
  BY <1>1, <1>2 DEF KeepsHead
<1> HIDE DEF q, r
<1>4. sel'[d].ind \in Scanned(d) /\ ~Empty(r) /\ sel'[d].next = Hop(d, HeadHeader(r).ReceiverID)
  BY <1>1, <1>3
<1>5. From(d)' = r
  BY DEF r
<1>6. HeadHeader(From(d))' = HeadHeader(r) /\ Empty(From(d))' = Empty(r)
  BY <1>5
<1> QED
  BY <1>3, <1>4, <1>6 DEF Selected, q, r

LEMMA RouterKept ==
    ASSUME NEW d \in Device, RouterInv(d), RouterRests(d),
           d \in Router => \A i \in Scanned(d) : /\ KeepsHead(hq[d][i], hq'[d][i])
                                                 /\ KeepsHeaders(hq[d][i], hq'[d][i]),
           d \in Router /\ CanHop(d, sel[d].next) => KeepsTail(At(Target(d)), At(Target(d))')
    PROVE  RouterInv(d)'
<1>1. rpc'[d] = rpc[d] /\ index'[d] = index[d] /\ sel'[d] = sel[d] /\ fptr'[d] = fptr[d]
  BY DEF RouterRests
<1>2. Target(d)' = Target(d)
  BY <1>1 DEF Target, LinkOf, NeighborNum
<1>3. rpc[d] # "none" => d \in Router
  BY DEF RouterInv
<1>4. ASSUME d \in Router, Selected(d)
      PROVE  Selected(d)' /\ HeadHeader(From(d))' = HeadHeader(From(d))
  <2>1. KeepsHead(From(d), From(d)')
    BY <1>1, <1>4 DEF Selected, From
  <2> QED
    BY <1>1, <1>4, <2>1, SelectedKept
<1>5. rpc[d] = "select" =>
        \/ Selected(d)'
        \/ /\ sel[d] = NoPacket
           /\ \E i \in index[d] .. SearchNum(d) : Waiting(d, i)'
  <2> SUFFICES ASSUME rpc[d] = "select", ~Selected(d)
               PROVE  /\ sel[d] = NoPacket
                      /\ \E i \in index[d] .. SearchNum(d) : Waiting(d, i)'
    BY <1>3, <1>4
  <2>1. sel[d] = NoPacket /\ index[d] \in 1 .. SearchNum(d)
    BY DEF RouterInv
  <2>2. PICK i \in index[d] .. SearchNum(d) : Waiting(d, i)
    BY DEF RouterInv
  <2>3. i \in 1 .. SearchNum(d)
    BY <2>1
  <2>4. QueueAt(d, i) \in Scanned(d)
    BY <1>3, <2>3, ScanFacts
  <2>5. Waiting(d, i)'
    BY <1>3, <2>2, <2>4 DEF Waiting, KeepsHead, QueueAt, NeighborNum, LocalOut, Scanned
  <2> QED
    BY <2>1, <2>2, <2>5
<1>6. rpc[d] \in {"header", "payload", "release", "publish", "signal"} =>
           From(d)'.entry[fptr[d]] \in Header
  BY <1>1, <1>3 DEF RouterInv, From, KeepsHeaders
<1>7. rpc[d] \in {"wait", "serve", "header", "payload", "release"} => Selected(d)'
  BY <1>3, <1>4 DEF RouterInv
<1>8. rpc[d] \in {"payload", "release", "publish"} =>
        KeepsTail(At(Target(d)), At(Target(d))')
  BY <1>3 DEF RouterInv
<1>9. rpc[d] = "payload" => TailHeader(At(Target(d))') = HeadHeader(From(d))'
  BY <1>3, <1>4, <1>8 DEF RouterInv, KeepsTail
<1>10. rpc[d] \in {"release", "publish"} =>
           LET q == At(Target(d))' IN
           /\ Empty(q)
           /\ Message(Target(d)[1], Target(d)[2], TailHeader(q), TailPayload(q))
  BY <1>8 DEF RouterInv, KeepsTail
<1>11. /\ rpc[d] \in {"idle", "select", "wait"} => index[d] \in 1 .. SearchNum(d)
       /\ rpc[d] = "idle" => sel[d] = NoPacket /\ index[d] = 1
       /\ rpc[d] \in {"serve", "header", "payload", "release", "publish", "signal"} => index[d] = 1
       /\ rpc[d] \in {"header", "payload", "release", "publish", "signal"} =>
             /\ CanHop(d, sel[d].next)
             /\ sel[d].ind \in Scanned(d)
             /\ fptr[d] \in Even
  BY DEF RouterInv
<1> QED
  BY <1>1, <1>2, <1>3, <1>5, <1>6, <1>7, <1>9, <1>10, <1>11 DEF RouterInv

LEMMA KeepsItself ==
    ASSUME NEW q
    PROVE  KeepsHead(q, q) /\ KeepsHeaders(q, q) /\ KeepsTail(q, q)
BY DEF KeepsHead, KeepsHeaders, KeepsTail

\* The guest of no device copies a payload.
LEMMA ReceivedFrame ==
    ASSUME ReceivedInv, rcvd' = rcvd
    PROVE  ReceivedInv'
<1>1. \A p, t, r : Addressed(p, t, r)' <=> Addressed(p, t, r)
  BY DEF Addressed
<1> QED
  BY <1>1 DEF ReceivedInv

\* No queue changes.
LEMMA QueuesFrame ==
    ASSUME QueueTypes, QueuesOK, hq' = hq
    PROVE  QueueTypes' /\ QueuesOK'
<1>1. QueueTypes'
  BY DEF QueueTypes
<1>2. \A n, i, q : QueueOK(n, i, q)' <=> QueueOK(n, i, q)
  BY DEF QueueOK, Message, Good, Addressed, IsRecvQueue
<1>3. QueuesOK'
  BY <1>2 DEF QueuesOK
<1> QED
  BY <1>1, <1>3

LEMMA NoQueueFrame ==
    ASSUME ThreadsInv, hq' = hq
    PROVE  \A d \in Device : /\ GuestRests(d) => GuestInv(d)'
                             /\ RouterRests(d) => RouterInv(d)'
<1> SUFFICES ASSUME NEW d \in Device
             PROVE  /\ GuestRests(d) => GuestInv(d)'
                    /\ RouterRests(d) => RouterInv(d)'
  OBVIOUS
<1>1. ASSUME GuestRests(d) PROVE GuestInv(d)'
  <2>1. At(SendQueue(d))' = At(SendQueue(d)) /\ At(RecvQueue(d))' = At(RecvQueue(d))
    BY DEF At, SendQueue, RecvQueue, LinkOf, NeighborNum
  <2>2. /\ KeepsTail(At(SendQueue(d)), At(SendQueue(d))')
        /\ KeepsHeaders(At(RecvQueue(d)), At(RecvQueue(d))')
    BY <2>1, KeepsItself
  <2> QED
    BY <1>1, <2>2, GuestKept DEF ThreadsInv
<1>2. ASSUME RouterRests(d) PROVE RouterInv(d)'
  <2>1. Target(d)' = Target(d)
    BY <1>2 DEF RouterRests, Target, LinkOf, NeighborNum
  <2>2. At(Target(d))' = At(Target(d))
    BY <2>1 DEF At
  <2>3. KeepsTail(At(Target(d)), At(Target(d))')
    BY <2>2, KeepsItself
  <2>4. \A i \in Scanned(d) : KeepsHead(hq[d][i], hq'[d][i]) /\ KeepsHeaders(hq[d][i], hq'[d][i])
    BY KeepsItself
  <2> QED
    BY <1>2, <2>3, <2>4, RouterKept DEF ThreadsInv
<1> QED
  BY <1>1, <1>2

\* A feeder's step: nobody else but the drainer notices, and that one has what
\* it relies on.
LEMMA FeedFrame ==
    ASSUME ThreadsInv, NEW n \in Device, NEW i \in QueueIndex(n), Others(n, i),
           KeepsHead(hq[n][i], hq'[n][i]), KeepsHeaders(hq[n][i], hq'[n][i])
    PROVE  \A d \in Device :
               /\ GuestRests(d) /\ ~(FedByGuest(n, i) /\ Feeder(n, i) = d) => GuestInv(d)'
               /\ RouterRests(d) /\ (FedByGuest(n, i) \/ Feeder(n, i) # d) => RouterInv(d)'
<1> SUFFICES ASSUME NEW d \in Device
             PROVE  /\ GuestRests(d) /\ ~(FedByGuest(n, i) /\ Feeder(n, i) = d) => GuestInv(d)'
                    /\ RouterRests(d) /\ (FedByGuest(n, i) \/ Feeder(n, i) # d) => RouterInv(d)'
  OBVIOUS
<1>1. \A m \in Device : \A j \in QueueIndex(m) :
         KeepsHead(hq[m][j], hq'[m][j]) /\ KeepsHeaders(hq[m][j], hq'[m][j])
  BY KeepsItself DEF Others
<1>2. \A m \in Device : \A j \in QueueIndex(m) :
         m # n \/ j # i => KeepsTail(hq[m][j], hq'[m][j])
  BY KeepsItself DEF Others
<1>3. ASSUME GuestRests(d), ~(FedByGuest(n, i) /\ Feeder(n, i) = d) PROVE GuestInv(d)'
  <2>1. ASSUME d \in Host PROVE KeepsTail(At(SendQueue(d)), At(SendQueue(d))')
    <3> DEFINE m == SendQueue(d)[1]
               j == SendQueue(d)[2]
    <3>1. m \in Device /\ j \in QueueIndex(m) /\ FedByGuest(m, j) /\ Feeder(m, j) = d
      BY <2>1, GuestFeeds
    <3>2. At(SendQueue(d)) = hq[m][j] /\ At(SendQueue(d))' = hq'[m][j]
      BY DEF At, SendQueue, LinkOf, NeighborNum
    <3> HIDE DEF m, j
    <3>3. m # n \/ j # i
      BY <1>3, <3>1
    <3> QED
      BY <1>2, <3>1, <3>2, <3>3
  <2>2. ASSUME d \in Host PROVE KeepsHeaders(At(RecvQueue(d)), At(RecvQueue(d))')
    <3>1. RecvQueue(d)[1] = d /\ RecvQueue(d)[2] \in QueueIndex(d)
      BY <2>2, GuestDrains
    <3>2. At(RecvQueue(d)) = hq[d][RecvQueue(d)[2]] /\ At(RecvQueue(d))' = hq'[d][RecvQueue(d)[2]]
      BY <3>1 DEF At, RecvQueue
    <3> QED
      BY <1>1, <3>1, <3>2
  <2> QED
    BY <1>3, <2>1, <2>2, GuestKept DEF ThreadsInv
<1>4. ASSUME RouterRests(d), FedByGuest(n, i) \/ Feeder(n, i) # d PROVE RouterInv(d)'
  <2>1. ASSUME d \in Router, CanHop(d, sel[d].next)
        PROVE  KeepsTail(At(Target(d)), At(Target(d))')
    <3> DEFINE m == Target(d)[1]
               j == Target(d)[2]
    <3>1. m \in Device /\ j \in QueueIndex(m) /\ ~FedByGuest(m, j) /\ Feeder(m, j) = d
      BY <2>1, RouterFeeds
    <3>2. Target(d)' = Target(d)
      BY <1>4 DEF RouterRests, Target, LinkOf, NeighborNum
    <3>3. At(Target(d)) = hq[m][j] /\ At(Target(d))' = hq'[m][j]
      BY <3>2 DEF At
    <3> HIDE DEF m, j
    <3>4. m # n \/ j # i
      BY <1>4, <3>1
    <3> QED
      BY <1>2, <3>1, <3>3, <3>4
  <2>2. ASSUME d \in Router
        PROVE  \A k \in Scanned(d) : /\ KeepsHead(hq[d][k], hq'[d][k])
                                     /\ KeepsHeaders(hq[d][k], hq'[d][k])
    BY <1>1, <2>2, RouterDrains
  <2> QED
    BY <1>4, <2>1, <2>2, RouterKept DEF ThreadsInv
<1> QED
  BY <1>3, <1>4

\* A drainer's step: nobody else but the feeder notices.
LEMMA DrainFrame ==
    ASSUME ThreadsInv, NEW n \in Device, NEW i \in QueueIndex(n), Others(n, i),
           KeepsTail(hq[n][i], hq'[n][i])
    PROVE  \A d \in Device :
               /\ GuestRests(d) /\ ~(IsRecvQueue(n, i) /\ d = n) => GuestInv(d)'
               /\ RouterRests(d) /\ (IsRecvQueue(n, i) \/ d # n) => RouterInv(d)'
<1> SUFFICES ASSUME NEW d \in Device
             PROVE  /\ GuestRests(d) /\ ~(IsRecvQueue(n, i) /\ d = n) => GuestInv(d)'
                    /\ RouterRests(d) /\ (IsRecvQueue(n, i) \/ d # n) => RouterInv(d)'
  OBVIOUS
<1>1. \A m \in Device : \A j \in QueueIndex(m) : KeepsTail(hq[m][j], hq'[m][j])
  BY KeepsItself DEF Others
<1>2. \A m \in Device : \A j \in QueueIndex(m) : m # n \/ j # i =>
         KeepsHead(hq[m][j], hq'[m][j]) /\ KeepsHeaders(hq[m][j], hq'[m][j])
  BY KeepsItself DEF Others
<1>3. ASSUME GuestRests(d), ~(IsRecvQueue(n, i) /\ d = n) PROVE GuestInv(d)'
  <2>1. ASSUME d \in Host PROVE KeepsTail(At(SendQueue(d)), At(SendQueue(d))')
    <3> DEFINE m == SendQueue(d)[1]
               j == SendQueue(d)[2]
    <3>1. m \in Device /\ j \in QueueIndex(m)
      BY <2>1, GuestFeeds
    <3>2. At(SendQueue(d)) = hq[m][j] /\ At(SendQueue(d))' = hq'[m][j]
      BY DEF At, SendQueue, LinkOf, NeighborNum
    <3> HIDE DEF m, j
    <3> QED
      BY <1>1, <3>1, <3>2
  <2>2. ASSUME d \in Host PROVE KeepsHeaders(At(RecvQueue(d)), At(RecvQueue(d))')
    <3>1. RecvQueue(d)[1] = d /\ RecvQueue(d)[2] \in QueueIndex(d)
          /\ IsRecvQueue(d, RecvQueue(d)[2])
      BY <2>2, GuestDrains
    <3>2. At(RecvQueue(d)) = hq[d][RecvQueue(d)[2]] /\ At(RecvQueue(d))' = hq'[d][RecvQueue(d)[2]]
      BY <3>1 DEF At, RecvQueue
    <3>3. d # n \/ RecvQueue(d)[2] # i
      BY <1>3, <3>1
    <3> QED
      BY <1>2, <3>1, <3>2, <3>3
  <2> QED
    BY <1>3, <2>1, <2>2, GuestKept DEF ThreadsInv
<1>4. ASSUME RouterRests(d), IsRecvQueue(n, i) \/ d # n PROVE RouterInv(d)'
  <2>1. ASSUME d \in Router, CanHop(d, sel[d].next)
        PROVE  KeepsTail(At(Target(d)), At(Target(d))')
    <3>1. Target(d)[1] \in Device /\ Target(d)[2] \in QueueIndex(Target(d)[1])
      BY <2>1, RouterFeeds
    <3>2. Target(d)' = Target(d)
      BY <1>4 DEF RouterRests, Target, LinkOf, NeighborNum
    <3> QED
      BY <1>1, <3>1, <3>2 DEF At
  <2>2. ASSUME d \in Router, NEW k \in Scanned(d)
        PROVE  KeepsHead(hq[d][k], hq'[d][k]) /\ KeepsHeaders(hq[d][k], hq'[d][k])
    <3>1. k \in QueueIndex(d) /\ ~IsRecvQueue(d, k)
      BY <2>2, RouterDrains
    <3>2. d # n \/ k # i
      BY <1>4, <3>1
    <3> QED
      BY <1>2, <3>1, <3>2
  <2> QED
    BY <1>4, <2>1, <2>2, RouterKept DEF ThreadsInv
<1> QED
  BY <1>3, <1>4
---------------------------------------------------------------------------
(* Types. *)

RestTypes ==
    /\ conflag \in [Device -> [dataflag : {0, 44, 77}, transtime : Time]]
    /\ localtime \in [Device -> Time]
    /\ apc \in [Device -> {"run", "header", "payload", "publish", "signal",
                           "poll", "late", "exited"}]
    /\ ip \in [Device -> Nat \ {0}]
    /\ clock \in [Device -> Time]
    /\ tmp_time \in [Device -> Time]
    /\ hdr \in [Device -> {NoHeader} \cup Header]
    /\ hptr \in [Device -> Index]
    /\ rcvd \in [Device -> Seq(PayloadSet)]

RouteTypes ==
    /\ rpc \in [Device -> {"none", "cancelled", "idle", "select", "wait", "serve",
                           "header", "payload", "release", "publish", "signal"}]
    /\ index \in [Device -> 1 .. NODE_MAX_LINKS + 1]
    /\ sel \in [Device -> [mintime : Time, sendtime : Time, from : 0 .. TotalDeviceNum,
                           next : 0 .. TotalDeviceNum, ind : 0 .. LocalOut]]
    /\ exceeded \in [Device -> SUBSET (1 .. NODE_MAX_LINKS + 1)]
    /\ rtime \in [Device -> Time]
    /\ fptr \in [Device -> Index]

LimitTypes ==
    /\ onehop \in OneHopLatency
    /\ work \in [Device -> 0 .. MaxWork]
    /\ fails \in 0 .. MaxFails
    /\ arrival \in [Device -> Time]

LEMMA TypeSplit ==
    /\ TypeOK <=> QueueTypes /\ RestTypes /\ RouteTypes /\ LimitTypes
    /\ TypeOK' <=> QueueTypes' /\ RestTypes' /\ RouteTypes' /\ LimitTypes'
<1>1. {Blank} \cup Header \cup PayloadSet = Entry
  BY DEF Entry
<1>2. TypeOK <=> QueueTypes /\ RestTypes /\ RouteTypes /\ LimitTypes
  BY <1>1 DEF TypeOK, QueueTypes, RestTypes, RouteTypes, LimitTypes
<1>3. TypeOK' <=> QueueTypes' /\ RestTypes' /\ RouteTypes' /\ LimitTypes'
  BY <1>1 DEF TypeOK, QueueTypes, RestTypes, RouteTypes, LimitTypes
<1> QED
  BY <1>2, <1>3

LEMMA TimeFacts ==
    /\ \A s, t \in Time : Plus(s, t) \in Time /\ Minus(s, t) \in Time /\ Later(s, t) \in Time
    /\ \A t \in Time : AddPointer(t) \in Time
    /\ 0 \in Time /\ 1 \in Time /\ MAX_TIME \in Time /\ MAX_TIME - 1 \in Time
<1>1. TimeMod \in Nat /\ TimeMod > 1 /\ FailPointer \in Time
  BY TimeAssumption
<1>2. \A x \in Int : x % TimeMod \in Time
  BY <1>1 DEF Time, MAX_TIME
<1>3. Time \subseteq Int
  BY DEF Time
<1>4. \A s, t \in Time : Plus(s, t) \in Time /\ Minus(s, t) \in Time
  BY <1>2, <1>3 DEF Plus, Minus
<1>5. \A t \in Time : AddPointer(t) \in Time
  <2> SUFFICES ASSUME NEW t \in Time PROVE (8 * t + FailPointer) % TimeMod \in Time
    BY DEF AddPointer
  <2>1. 8 * t + FailPointer \in Int
    BY <1>1, <1>3
  <2> QED
    BY <1>2, <2>1
<1>6. \A s, t \in Time : Later(s, t) \in Time
  BY DEF Later
<1> QED
  BY <1>1, <1>4, <1>5, <1>6 DEF Time, MAX_TIME

LEMMA HeaderTimes ==
    ASSUME NEW h \in Header
    PROVE  /\ Arrives(h) \in Time
           /\ h.SendTime \in Time /\ h.TransTime \in Time
           /\ h.SenderID \in Device /\ h.ReceiverID \in Device /\ h.ForwardID \in Device
<1>1. /\ h.SendTime \in Time /\ h.TransTime \in Time
      /\ h.SenderID \in Device /\ h.ReceiverID \in Device /\ h.ForwardID \in Device
  BY DEF Header
<1> QED
  BY <1>1, TimeFacts DEF Arrives

\* time_sync() of a router returns a time: the least of some.
LEMMA RouterSyncTime ==
    ASSUME NEW d \in Device, localtime \in [Device -> Time]
    PROVE  RouterSync(d, localtime) \in Time
<1> DEFINE times == {localtime[n] : n \in SyncWith(d)}
<1>1. SyncWith(d) \subseteq Device /\ SyncWith(d) # {}
  BY NeighborFacts DEF SyncWith, EndNeighbors
<1>2. times \subseteq Time /\ times # {}
  BY <1>1
<1>3. times \in SUBSET Nat
  BY <1>2 DEF Time
<1>4. \E t \in times : \A u \in times : t <= u
  BY <1>2, <1>3, LeastNatural
<1>5. RouterSync(d, localtime) = 0 \/ RouterSync(d, localtime) \in times
  <2>1. (CHOOSE t \in times : \A u \in times : t <= u) \in times
    BY <1>4
  <2> QED
    BY <2>1 DEF RouterSync
<1> QED
  BY <1>2, <1>5, TimeFacts

LEMMA SyncRouterTime ==
    ASSUME NEW d \in Device, localtime \in [Device -> Time], SyncRouter(d)
    PROVE  localtime' \in [Device -> Time]
BY RouterSyncTime DEF SyncRouter
---------------------------------------------------------------------------
(* The guest's steps that touch no queue. *)

LEMMA GuestLocalStep ==
    ASSUME IInv, NEW d \in Device, UNCHANGED <<hq, rcvd, rpc, index, sel, fptr>>,
           \A e \in Device : e # d => GuestRests(e), GuestInv(d)',
           RestTypes', RouteTypes', LimitTypes'
    PROVE  IInv'
<1>1. QueueTypes /\ QueuesOK /\ ReceivedInv /\ ThreadsInv
  BY TypeSplit DEF IInv
<1>2. QueueTypes' /\ QueuesOK'
  BY <1>1, QueuesFrame
<1>3. ReceivedInv'
  BY <1>1, ReceivedFrame
<1>4. \A e \in Device : RouterRests(e)
  BY DEF RouterRests
<1>5. ThreadsInv'
  BY <1>1, <1>4, NoQueueFrame DEF ThreadsInv
<1> QED
  BY <1>2, <1>3, <1>5, TypeSplit DEF IInv

\* What a call of the program is.
LEMMA CallFacts ==
    ASSUME NEW d \in Device, RestTypes, NEW op, Calls(d, op), op # "exit"
    PROVE  /\ d \in Host
           /\ ip[d] \in 1 .. Len(Program[d])
           /\ op = "send" /\ Accepted(d, Program[d][ip[d]].to) => Program[d][ip[d]].to \in Host
<1>1. ip[d] \in Nat \ {0} /\ Program[d] \in Seq(Call)
  BY ProgramAssumption DEF RestTypes
<1>2. ip[d] \in 1 .. Len(Program[d])
  BY <1>1 DEF Calls
<1>3. d \in Host
  BY <1>2, ProgramAssumption DEF Calls, Host
<1>4. ASSUME op = "send" PROVE Program[d][ip[d]].to \in Nat
  <2>1. Program[d][ip[d]] \in Call /\ Program[d][ip[d]].op = "send"
    BY <1>1, <1>2, <1>4 DEF Calls
  <2> QED
    BY <2>1 DEF Call
<1>5. ASSUME op = "send", Accepted(d, Program[d][ip[d]].to)
      PROVE  Program[d][ip[d]].to \in Host
  <2>1. Program[d][ip[d]].to \in Host \/ Program[d][ip[d]].to > TotalDeviceNum
    BY <1>2, <1>5, ProgramAssumption DEF Calls
  <2>2. TotalDeviceNum \in Nat
    BY TopologyAssumption
  <2> QED
    BY <1>4, <1>5, <2>1, <2>2 DEF Accepted
<1> QED
  BY <1>2, <1>3, <1>5

\* A guest that runs its program, or has exited, has nothing to keep.
LEMMA GuestRuns ==
    ASSUME NEW d \in Device, apc'[d] \in {"run", "exited", "signal"}
    PROVE  GuestInv(d)'
BY DEF GuestInv

LEMMA ExecuteStep ==
    ASSUME IInv, NEW d \in Device, Execute(d)
    PROVE  IInv'
<1>1. RestTypes /\ RouteTypes /\ LimitTypes /\ ThreadsInv
  BY TypeSplit DEF IInv
<1>2. \A e \in Device : GuestRests(e)
  BY DEF Execute, GuestRests
<1>3. UNCHANGED <<hq, rcvd, routing>>
  BY DEF Execute
<1>4. GuestInv(d)'
  BY <1>1, <1>2, <1>3, NoQueueFrame
<1>5. RestTypes'
  <2>1. clock[d] \in Time /\ Work \subseteq Time
    BY <1>1, TimeAssumption DEF RestTypes
  <2>2. clock' \in [Device -> Time]
    BY <1>1, <2>1, TimeFacts DEF RestTypes, Execute
  <2>3. localtime' \in [Device -> Time]
    BY <1>1, <2>2 DEF RestTypes, Execute
  <2> QED
    BY <1>1, <2>2, <2>3 DEF RestTypes, Execute
<1>6. RouteTypes'
  BY <1>1, <1>3 DEF RouteTypes, routing
<1>7. LimitTypes'
  <2>1. MaxWork \in Nat
    BY TimeAssumption
  <2>2. work' \in [Device -> 0 .. MaxWork]
    BY <1>1, <2>1 DEF LimitTypes, Execute
  <2> QED
    BY <1>1, <2>2 DEF LimitTypes, Execute
<1> QED
  BY <1>2, <1>3, <1>4, <1>5, <1>6, <1>7, GuestLocalStep DEF routing

LEMMA SendNothingStep ==
    ASSUME IInv, NEW d \in Device, SendNothing(d)
    PROVE  IInv'
<1>1. RestTypes /\ RouteTypes /\ LimitTypes
  BY TypeSplit DEF IInv
<1>2. UNCHANGED <<shared, apc, clock, tmp_time, hdr, hptr, rcvd, routing, limits>>
      /\ ip' = [ip EXCEPT ![d] = @ + 1] /\ apc[d] = "run"
  BY DEF SendNothing, Calls
<1>3. \A e \in Device : e # d => GuestRests(e)
  BY <1>2 DEF GuestRests
<1>4. GuestInv(d)'
  BY <1>2, GuestRuns
<1>5. RestTypes'
  BY <1>1, <1>2 DEF RestTypes, shared
<1>6. RouteTypes' /\ LimitTypes'
  BY <1>1, <1>2 DEF RouteTypes, LimitTypes, routing, limits
<1> QED
  BY <1>2, <1>3, <1>4, <1>5, <1>6, GuestLocalStep DEF shared, routing

LEMMA PostFailStep ==
    ASSUME IInv, NEW d \in Device, PostFail(d)
    PROVE  IInv'
<1>1. RestTypes /\ RouteTypes /\ LimitTypes /\ apc[d] = "run"
  BY TypeSplit DEF IInv, PostFail, Calls
<1>2. UNCHANGED <<hq, conflag, apc, ip, tmp_time, hdr, hptr, rcvd, routing, onehop, work, arrival>>
  BY DEF PostFail
<1>3. \A e \in Device : e # d => GuestRests(e)
  BY <1>2 DEF GuestRests
<1>4. GuestInv(d)'
  BY <1>1, <1>2, GuestRuns
<1>5. RestTypes'
  <2>1. clock[d] \in Time /\ FailLatency \subseteq Time
    BY <1>1, TimeAssumption DEF RestTypes
  <2>2. clock' \in [Device -> Time]
    BY <1>1, <2>1, TimeFacts DEF RestTypes, PostFail
  <2>3. localtime' \in [Device -> Time]
    BY <1>1, <2>2 DEF RestTypes, PostFail
  <2> QED
    BY <1>1, <1>2, <2>2, <2>3 DEF RestTypes
<1>6. RouteTypes'
  BY <1>1, <1>2 DEF RouteTypes, routing
<1>7. LimitTypes'
  <2>1. fails' \in 0 .. MaxFails
    BY <1>1, TimeAssumption DEF LimitTypes, PostFail
  <2> QED
    BY <1>1, <1>2, <2>1 DEF LimitTypes
<1> QED
  BY <1>2, <1>3, <1>4, <1>5, <1>6, <1>7, GuestLocalStep DEF routing

LEMMA PostStep ==
    ASSUME IInv, NEW d \in Device, Post(d)
    PROVE  IInv'
<1>1. RestTypes /\ RouteTypes /\ LimitTypes
  BY TypeSplit DEF IInv
<1>2. /\ UNCHANGED <<hq, conflag, ip, tmp_time, hptr, rcvd, routing, limits>>
      /\ apc' = [apc EXCEPT ![d] = "header"]
      /\ localtime' = [localtime EXCEPT ![d] = clock'[d]]
      /\ Calls(d, "send") /\ Accepted(d, Program[d][ip[d]].to)
  BY DEF Post
<1>3. PICK t \in Latency :
          /\ hdr' = [hdr EXCEPT ![d] =
                 [kind |-> "header", SenderID |-> d, ReceiverID |-> Program[d][ip[d]].to,
                  ForwardID |-> d, SendTime |-> clock[d], TransTime |-> t]]
          /\ clock' = [clock EXCEPT ![d] = Plus(@, t)]
  BY DEF Post
<1>4. d \in Host /\ ip[d] \in 1 .. Len(Program[d]) /\ Program[d][ip[d]].to \in Host
      /\ Program[d][ip[d]].op = "send"
  BY <1>1, <1>2, CallFacts DEF Calls
<1>5. t \in Time /\ t # 0 /\ clock[d] \in Time
  BY <1>1, TimeAssumption DEF RestTypes
<1> DEFINE h == [kind |-> "header", SenderID |-> d, ReceiverID |-> Program[d][ip[d]].to,
                 ForwardID |-> d, SendTime |-> clock[d], TransTime |-> t]
<1>6. h \in Header /\ h.TransTime = t /\ h.SenderID = d /\ h.ReceiverID = Program[d][ip[d]].to
  BY <1>4, <1>5 DEF Header, Host
<1>7. Good(h)
  BY <1>4, <1>5, <1>6 DEF Good
<1>8. Addressed(Payload(d, ip[d]), d, Program[d][ip[d]].to)
  <2>1. Payload(d, ip[d]).from = d /\ Payload(d, ip[d]).call = ip[d]
    BY DEF Payload
  <2>2. Payload(d, ip[d]) \in PayloadSet
    BY <1>4 DEF Payload, PayloadSet
  <2> QED
    BY <1>4, <2>1, <2>2 DEF Addressed
<1>9. hdr'[d] = h /\ ip'[d] = ip[d] /\ apc'[d] = "header"
  BY <1>1, <1>2, <1>3 DEF RestTypes
<1> HIDE DEF h
<1>10. GuestInv(d)'
  <2>1. Sends(d)'
    BY <1>4, <1>6, <1>7, <1>8, <1>9 DEF Sends, Good, Payload, Addressed, Host, Device
  <2> QED
    BY <1>9, <2>1 DEF GuestInv
<1>11. \A e \in Device : e # d => GuestRests(e)
  BY <1>1, <1>2, <1>3 DEF GuestRests, RestTypes
<1>12. RestTypes'
  <2>1. clock' \in [Device -> Time]
    BY <1>1, <1>3, <1>5, TimeFacts DEF RestTypes
  <2>2. localtime' \in [Device -> Time]
    BY <1>1, <1>2, <2>1 DEF RestTypes
  <2>3. hdr' \in [Device -> {NoHeader} \cup Header]
    BY <1>1, <1>3, <1>6 DEF RestTypes, h
  <2> QED
    BY <1>1, <1>2, <2>1, <2>2, <2>3 DEF RestTypes
<1>13. RouteTypes' /\ LimitTypes'
  BY <1>1, <1>2 DEF RouteTypes, LimitTypes, routing, limits
<1> QED
  BY <1>2, <1>10, <1>11, <1>12, <1>13, GuestLocalStep DEF routing

LEMMA SendReturnsStep ==
    ASSUME IInv, NEW d \in Device, SendReturns(d)
    PROVE  IInv'
<1>1. RestTypes /\ RouteTypes /\ LimitTypes
  BY TypeSplit DEF IInv
<1>2. /\ UNCHANGED <<hq, conflag, tmp_time, hptr, rcvd, routing, limits>>
      /\ clock' = [clock EXCEPT ![d] = Plus(@, Minus(conflag[d].transtime, localtime[d]))]
      /\ localtime' = [localtime EXCEPT ![d] = clock'[d]]
      /\ ip' = IF conflag[d].dataflag = 44 THEN ip ELSE [ip EXCEPT ![d] = @ + 1]
      /\ hdr' = [hdr EXCEPT ![d] = NoHeader]
      /\ apc' = [apc EXCEPT ![d] = "run"]
  BY DEF SendReturns
<1>3. \A e \in Device : e # d => GuestRests(e)
  BY <1>2 DEF GuestRests
<1>4. apc'[d] = "run"
  BY <1>1, <1>2 DEF RestTypes
<1>5. GuestInv(d)'
  BY <1>4, GuestRuns
<1>6. RestTypes'
  <2>1. conflag[d].transtime \in Time /\ localtime[d] \in Time /\ clock[d] \in Time
    BY <1>1 DEF RestTypes
  <2>2. Plus(clock[d], Minus(conflag[d].transtime, localtime[d])) \in Time
    BY <2>1, TimeFacts
  <2>3. clock' \in [Device -> Time]
    BY <1>1, <1>2, <2>2 DEF RestTypes
  <2>4. localtime' \in [Device -> Time]
    BY <1>1, <1>2, <2>3 DEF RestTypes
  <2>5. ip' \in [Device -> Nat \ {0}]
    BY <1>1, <1>2 DEF RestTypes
  <2> QED
    BY <1>1, <1>2, <2>3, <2>4, <2>5 DEF RestTypes
<1>7. RouteTypes' /\ LimitTypes'
  BY <1>1, <1>2 DEF RouteTypes, LimitTypes, routing, limits
<1> QED
  BY <1>2, <1>3, <1>5, <1>6, <1>7, GuestLocalStep DEF routing

LEMMA RecvBeginsStep ==
    ASSUME IInv, NEW d \in Device, RecvBegins(d)
    PROVE  IInv'
<1>1. RestTypes /\ RouteTypes /\ LimitTypes
  BY TypeSplit DEF IInv
<1>2. /\ UNCHANGED <<hq, conflag, ip, clock, hdr, hptr, rcvd, routing, limits>>
      /\ tmp_time' = [tmp_time EXCEPT ![d] = clock[d]]
      /\ localtime' = [localtime EXCEPT ![d] = MAX_TIME - 1]
      /\ apc' = [apc EXCEPT ![d] = "poll"]
  BY DEF RecvBegins
<1>3. \A e \in Device : e # d => GuestRests(e)
  BY <1>2 DEF GuestRests
<1>4. apc'[d] = "poll" /\ d \in Host
  BY <1>1, <1>2, CallFacts DEF RestTypes, RecvBegins
<1>5. GuestInv(d)'
  BY <1>4 DEF GuestInv, Host, Device
<1>6. RestTypes'
  <2>1. MAX_TIME - 1 \in Time
    BY TimeFacts
  <2>2. localtime' \in [Device -> Time] /\ tmp_time' \in [Device -> Time]
    BY <1>1, <1>2, <2>1 DEF RestTypes
  <2> QED
    BY <1>1, <1>2, <2>2 DEF RestTypes
<1>7. RouteTypes' /\ LimitTypes'
  BY <1>1, <1>2 DEF RouteTypes, LimitTypes, routing, limits
<1> QED
  BY <1>2, <1>3, <1>5, <1>6, <1>7, GuestLocalStep DEF routing

LEMMA RecvReturnsStep ==
    ASSUME IInv, NEW d \in Device, RecvReturns(d)
    PROVE  IInv'
<1>1. RestTypes /\ RouteTypes /\ LimitTypes /\ GuestInv(d)
  BY TypeSplit DEF IInv, ThreadsInv
<1> DEFINE h == At(RecvQueue(d)).entry[hptr[d]]
           c == IF localtime[d] < Arrives(h) THEN Plus(clock[d], Minus(Arrives(h), localtime[d]))
                ELSE clock[d]
<1>2. /\ UNCHANGED <<hq, conflag, tmp_time, rcvd, routing, limits>>
      /\ clock' = [clock EXCEPT ![d] = c]
      /\ localtime' = [localtime EXCEPT ![d] = clock'[d]]
      /\ ip' = [ip EXCEPT ![d] = @ + 1]
      /\ hdr' = [hdr EXCEPT ![d] = NoHeader]
      /\ hptr' = [hptr EXCEPT ![d] = 0]
      /\ apc' = [apc EXCEPT ![d] = "run"]
  BY <1>1 DEF RecvReturns, RestTypes
<1>3. \A e \in Device : e # d => GuestRests(e)
  BY <1>2 DEF GuestRests
<1>4. apc'[d] = "run"
  BY <1>1, <1>2 DEF RestTypes
<1>5. GuestInv(d)'
  BY <1>4, GuestRuns
<1>6. h \in Header
  BY <1>1 DEF GuestInv, RecvReturns
<1>7. c \in Time
  <2>1. Arrives(h) \in Time /\ localtime[d] \in Time /\ clock[d] \in Time
    BY <1>1, <1>6, HeaderTimes DEF RestTypes
  <2> HIDE DEF h
  <2> QED
    BY <2>1, TimeFacts
<1>8. RestTypes'
  <2> HIDE DEF c
  <2>1. clock' \in [Device -> Time]
    BY <1>1, <1>2, <1>7 DEF RestTypes
  <2>2. localtime' \in [Device -> Time]
    BY <1>1, <1>2, <2>1 DEF RestTypes
  <2>3. 0 \in Index
    BY DEF Index, HEADER_QUEUE_ENTRY_NUM
  <2> QED
    BY <1>1, <1>2, <2>1, <2>2, <2>3 DEF RestTypes
<1>9. RouteTypes' /\ LimitTypes'
  BY <1>1, <1>2 DEF RouteTypes, LimitTypes, routing, limits
<1> QED
  BY <1>2, <1>3, <1>5, <1>8, <1>9, GuestLocalStep DEF routing

LEMMA ExitStep ==
    ASSUME IInv, NEW d \in Device, Exit(d)
    PROVE  IInv'
<1>1. RestTypes /\ RouteTypes /\ LimitTypes
  BY TypeSplit DEF IInv
<1>2. QueueTypes /\ QueuesOK /\ ReceivedInv /\ ThreadsInv
  BY TypeSplit DEF IInv
<1>3. /\ UNCHANGED <<hq, conflag, clock, tmp_time, hdr, hptr, rcvd,
                     index, sel, exceeded, rtime, fptr, limits>>
      /\ rpc' = IF d \in Router THEN [rpc EXCEPT ![d] = "cancelled"] ELSE rpc
      /\ localtime' = [localtime EXCEPT ![d] = MAX_TIME - 1]
      /\ ip' = [ip EXCEPT ![d] = @ + 1]
      /\ apc' = [apc EXCEPT ![d] = "exited"]
  BY DEF Exit
<1>4. \A e \in Device : e # d => GuestRests(e) /\ RouterRests(e)
  BY <1>3 DEF GuestRests, RouterRests
<1>5. GuestInv(d)'
  <2>1. apc'[d] = "exited"
    BY <1>1, <1>3 DEF RestTypes
  <2> QED
    BY <2>1, GuestRuns
<1>6. RouterInv(d)'
  <2>1. CASE d \in Router
    <3>1. rpc'[d] = "cancelled"
      BY <1>1, <1>3, <2>1 DEF RouteTypes
    <3> QED
      BY <2>1, <3>1 DEF RouterInv, Router, Device
  <2>2. CASE d \notin Router
    BY <1>2, <1>3, <2>2, NoQueueFrame DEF RouterRests
  <2> QED
    BY <2>1, <2>2
<1>7. ThreadsInv'
  BY <1>2, <1>3, <1>4, <1>5, <1>6, NoQueueFrame DEF ThreadsInv
<1>8. QueueTypes' /\ QueuesOK' /\ ReceivedInv'
  <2>1. ReceivedInv'
    BY ONLY <1>2, <1>3, ReceivedFrame
  <2> QED
    BY ONLY <1>2, <1>3, <2>1, QueuesFrame
<1>9. RestTypes'
  <2>1. MAX_TIME - 1 \in Time
    BY TimeFacts
  <2>2. localtime' \in [Device -> Time]
    BY <1>1, <1>3, <2>1 DEF RestTypes
  <2> QED
    BY <1>1, <1>3, <2>2 DEF RestTypes
<1>10. RouteTypes' /\ LimitTypes'
  BY <1>1, <1>3 DEF RouteTypes, LimitTypes, limits
<1> QED
  BY <1>7, <1>8, <1>9, <1>10, TypeSplit DEF IInv
---------------------------------------------------------------------------
(* Steps at the two ends of a queue. *)

LEMMA QueueFacts ==
    ASSUME IInv, NEW n \in Device, NEW i \in QueueIndex(n)
    PROVE  /\ EvenQueue(hq[n][i])
           /\ ~Empty(hq[n][i]) => Message(n, i, HeadHeader(hq[n][i]), HeadPayload(hq[n][i]))
BY DEF IInv, QueuesOK, QueueOK, EvenQueue

LEMMA FeedQueue ==
    ASSUME IInv, NEW n \in Device, NEW i \in QueueIndex(n), NEW r,
           hq' = [hq EXCEPT ![n][i] = r], EvenQueue(r),
           KeepsHead(hq[n][i], r), KeepsHeaders(hq[n][i], r),
           Empty(hq[n][i]) /\ ~Empty(r) => Message(n, i, HeadHeader(r), HeadPayload(r))
    PROVE  /\ QueueTypes' /\ QueuesOK' /\ hq'[n][i] = r /\ Others(n, i)
           /\ \A d \in Device :
                /\ GuestRests(d) /\ ~(FedByGuest(n, i) /\ Feeder(n, i) = d) => GuestInv(d)'
                /\ RouterRests(d) /\ (FedByGuest(n, i) \/ Feeder(n, i) # d) => RouterInv(d)'
<1>1. QueueTypes /\ QueuesOK /\ ThreadsInv
  BY TypeSplit DEF IInv
<1>2. QueueTypes' /\ hq'[n][i] = r /\ Others(n, i)
  BY <1>1, OneQueue
<1>3. ~Empty(r) => Message(n, i, HeadHeader(r), HeadPayload(r))
  BY QueueFacts DEF KeepsHead
<1>4. QueueOK(n, i, r)
  BY <1>3 DEF QueueOK, EvenQueue
<1>5. QueuesOK'
  BY <1>1, <1>2, <1>4, OneQueueOK
<1> QED
  BY <1>1, <1>2, <1>5, FeedFrame

LEMMA DrainQueue ==
    ASSUME IInv, NEW n \in Device, NEW i \in QueueIndex(n), NEW r,
           hq' = [hq EXCEPT ![n][i] = r], EvenQueue(r), KeepsTail(hq[n][i], r),
           ~Empty(r) => Message(n, i, HeadHeader(r), HeadPayload(r))
    PROVE  /\ QueueTypes' /\ QueuesOK' /\ hq'[n][i] = r /\ Others(n, i)
           /\ \A d \in Device :
                /\ GuestRests(d) /\ ~(IsRecvQueue(n, i) /\ d = n) => GuestInv(d)'
                /\ RouterRests(d) /\ (IsRecvQueue(n, i) \/ d # n) => RouterInv(d)'
<1>1. QueueTypes /\ QueuesOK /\ ThreadsInv
  BY TypeSplit DEF IInv
<1>2. QueueTypes' /\ hq'[n][i] = r /\ Others(n, i)
  BY <1>1, OneQueue
<1>3. QueueOK(n, i, r)
  BY DEF QueueOK, EvenQueue
<1>4. QueuesOK'
  BY <1>1, <1>2, <1>3, OneQueueOK
<1> QED
  BY <1>1, <1>2, <1>4, DrainFrame

\* What every guest's push has in common.
LEMMA GuestPush ==
    ASSUME IInv, NEW d \in Host, NEW r,
           hq' = [hq EXCEPT ![SendQueue(d)[1]][SendQueue(d)[2]] = r], EvenQueue(r),
           KeepsHead(At(SendQueue(d)), r), KeepsHeaders(At(SendQueue(d)), r),
           Empty(At(SendQueue(d))) /\ ~Empty(r) =>
               Message(SendQueue(d)[1], SendQueue(d)[2], HeadHeader(r), HeadPayload(r)),
           UNCHANGED <<rcvd, rpc, index, sel, fptr>>,
           \A e \in Device : e # d => GuestRests(e), At(SendQueue(d))' = r => GuestInv(d)',
           RestTypes', RouteTypes', LimitTypes'
    PROVE  IInv'
<1> DEFINE n == SendQueue(d)[1]
           i == SendQueue(d)[2]
<1>1. n \in Device /\ i \in QueueIndex(n) /\ FedByGuest(n, i) /\ Feeder(n, i) = d
  BY GuestFeeds
<1>2. At(SendQueue(d)) = hq[n][i] /\ At(SendQueue(d))' = hq'[n][i]
  BY DEF At, SendQueue, LinkOf, NeighborNum
<1>3. /\ hq' = [hq EXCEPT ![n][i] = r]
      /\ KeepsHead(hq[n][i], r) /\ KeepsHeaders(hq[n][i], r)
      /\ Empty(hq[n][i]) /\ ~Empty(r) => Message(n, i, HeadHeader(r), HeadPayload(r))
  BY <1>2
<1> HIDE DEF n, i
<1>4. /\ QueueTypes' /\ QueuesOK' /\ hq'[n][i] = r
      /\ \A e \in Device :
           /\ GuestRests(e) /\ ~(FedByGuest(n, i) /\ Feeder(n, i) = e) => GuestInv(e)'
           /\ RouterRests(e) /\ (FedByGuest(n, i) \/ Feeder(n, i) # e) => RouterInv(e)'
  BY <1>1, <1>3, FeedQueue
<1>5. \A e \in Device : RouterRests(e)
  BY DEF RouterRests
<1>6. ThreadsInv'
  BY <1>1, <1>2, <1>4, <1>5 DEF ThreadsInv
<1>7. ReceivedInv'
  <2>1. ReceivedInv /\ rcvd' = rcvd
    BY DEF IInv
  <2> QED
    BY ONLY <2>1, ReceivedFrame
<1> QED
  BY <1>4, <1>6, <1>7, TypeSplit DEF IInv

LEMMA SendQueueFacts ==
    ASSUME IInv, NEW d \in Host
    PROVE  /\ SendQueue(d)' = SendQueue(d)
           /\ EvenQueue(At(SendQueue(d)))
           /\ ~IsRecvQueue(SendQueue(d)[1], SendQueue(d)[2])
           /\ \A q : Set(SendQueue(d), q) =>
                hq' = [hq EXCEPT ![SendQueue(d)[1]][SendQueue(d)[2]] = q]
<1>1. SendQueue(d)' = SendQueue(d)
  BY DEF SendQueue, LinkOf, NeighborNum
<1>2. SendQueue(d)[1] \in Device /\ SendQueue(d)[2] \in QueueIndex(SendQueue(d)[1])
      /\ ~IsRecvQueue(SendQueue(d)[1], SendQueue(d)[2])
  BY GuestFeeds
<1>3. EvenQueue(At(SendQueue(d)))
  BY <1>2, QueueFacts DEF At
<1> QED
  BY <1>1, <1>2, <1>3 DEF Set

LEMMA CopyHeaderStep ==
    ASSUME IInv, NEW d \in Device, CopyHeader(d)
    PROVE  IInv'
<1>1. RestTypes /\ RouteTypes /\ LimitTypes /\ GuestInv(d)
  BY TypeSplit DEF IInv, ThreadsInv
<1>2. /\ UNCHANGED <<conflag, localtime, ip, clock, tmp_time, hdr, hptr, rcvd, routing, limits>>
      /\ apc[d] = "header"
      /\ apc' = [apc EXCEPT ![d] = "payload"]
  BY DEF CopyHeader
<1>3. Sends(d) /\ d \in Host
  BY <1>1, <1>2 DEF GuestInv, Sends
<1> DEFINE q == At(SendQueue(d))
           r == PutHeader(q, hdr[d])
<1>4. EvenQueue(q) /\ hdr[d] \in Header
  BY <1>3, SendQueueFacts DEF Sends, Good
<1>5. hq' = [hq EXCEPT ![SendQueue(d)[1]][SendQueue(d)[2]] = r]
  BY <1>3, SendQueueFacts DEF CopyHeader
<1> HIDE DEF q
<1>6. EvenQueue(r) /\ KeepsHead(q, r) /\ KeepsHeaders(q, r) /\ TailHeader(r) = hdr[d]
      /\ (Empty(r) <=> Empty(q))
  BY <1>4, PutHeaderFacts
<1> HIDE DEF r
<1>7. \A e \in Device : e # d => GuestRests(e)
  BY <1>2 DEF GuestRests
<1>8. ASSUME At(SendQueue(d))' = r PROVE GuestInv(d)'
  <2>1. apc'[d] = "payload" /\ hdr'[d] = hdr[d] /\ ip'[d] = ip[d]
    BY <1>1, <1>2 DEF RestTypes
  <2>2. Sends(d)'
    BY <1>3, <2>1 DEF Sends, Good, Addressed, Payload, Host, Device
  <2>3. SendQueue(d)' = SendQueue(d)
    BY <1>3, SendQueueFacts
  <2> QED
    BY <1>6, <1>8, <2>1, <2>2, <2>3 DEF GuestInv
<1>9. RestTypes' /\ RouteTypes' /\ LimitTypes'
  BY <1>1, <1>2 DEF RestTypes, RouteTypes, LimitTypes, routing, limits
<1>10. UNCHANGED <<rcvd, rpc, index, sel, fptr>>
  BY <1>2 DEF routing
<1>11. KeepsHead(At(SendQueue(d)), r) /\ KeepsHeaders(At(SendQueue(d)), r)
       /\ (Empty(At(SendQueue(d))) <=> Empty(r))
  BY <1>6 DEF q
<1>12. At(SendQueue(d))' = r => GuestInv(d)'
  BY <1>8
<1> QED
  BY ONLY IInv, <1>3, <1>5, <1>6, <1>7, <1>9, <1>10, <1>11, <1>12, GuestPush

LEMMA CopyPayloadStep ==
    ASSUME IInv, NEW d \in Device, CopyPayload(d)
    PROVE  IInv'
<1>1. RestTypes /\ RouteTypes /\ LimitTypes /\ GuestInv(d)
  BY TypeSplit DEF IInv, ThreadsInv
<1>2. /\ UNCHANGED <<localtime, ip, clock, tmp_time, hdr, hptr, rcvd, routing, limits>>
      /\ apc[d] = "payload"
      /\ apc' = [apc EXCEPT ![d] = "publish"]
      /\ conflag' = [conflag EXCEPT ![d] = [dataflag |-> 77, transtime |-> 0]]
  BY DEF CopyPayload
<1>3. Sends(d) /\ d \in Host
  BY <1>1, <1>2 DEF GuestInv, Sends
<1> DEFINE q == At(SendQueue(d))
           p == Payload(d, ip[d])
           r == PutPayload(q, p)
<1>4. EvenQueue(q) /\ ~NoPayloadEntry(q) /\ TailHeader(q) = hdr[d]
  BY <1>1, <1>2, <1>3, SendQueueFacts DEF CopyPayload, GuestInv
<1>5. hq' = [hq EXCEPT ![SendQueue(d)[1]][SendQueue(d)[2]] = r]
  BY <1>3, SendQueueFacts DEF CopyPayload
<1>6. Good(hdr[d]) /\ Addressed(p, hdr[d].SenderID, hdr[d].ReceiverID) /\ p \in PayloadSet
  BY <1>3 DEF Sends, Addressed
<1> HIDE DEF q, p
<1>7. /\ EvenQueue(r) /\ KeepsHead(q, r) /\ KeepsHeaders(q, r)
      /\ TailHeader(r) = hdr[d] /\ TailPayload(r) = p /\ Empty(r)
  BY <1>4, <1>6, PutPayloadFacts
<1> HIDE DEF r
<1>8. \A e \in Device : e # d => GuestRests(e)
  BY <1>2 DEF GuestRests
<1>9. ASSUME At(SendQueue(d))' = r PROVE GuestInv(d)'
  <2>1. apc'[d] = "publish"
    BY <1>1, <1>2 DEF RestTypes
  <2>2. SendQueue(d)' = SendQueue(d) /\ ~IsRecvQueue(SendQueue(d)[1], SendQueue(d)[2])
    BY <1>3, SendQueueFacts
  <2>3. Message(SendQueue(d)[1], SendQueue(d)[2], TailHeader(r), TailPayload(r))
    BY <1>6, <1>7, <2>2 DEF Message
  <2> QED
    BY <1>3, <1>7, <1>9, <2>1, <2>2, <2>3 DEF GuestInv
<1>10. RestTypes' /\ RouteTypes' /\ LimitTypes'
  <2>1. conflag' \in [Device -> [dataflag : {0, 44, 77}, transtime : Time]]
    BY <1>1, <1>2, TimeFacts DEF RestTypes
  <2> QED
    BY <1>1, <1>2, <2>1 DEF RestTypes, RouteTypes, LimitTypes, routing, limits
<1>11. UNCHANGED <<rcvd, rpc, index, sel, fptr>>
  BY <1>2 DEF routing
<1>12. KeepsHead(At(SendQueue(d)), r) /\ KeepsHeaders(At(SendQueue(d)), r)
  BY <1>7 DEF q
<1>13. At(SendQueue(d))' = r => GuestInv(d)'
  BY <1>9
<1> QED
  BY ONLY IInv, <1>3, <1>5, <1>7, <1>8, <1>10, <1>11, <1>12, <1>13, GuestPush

LEMMA PublishStep ==
    ASSUME IInv, NEW d \in Device, Publish(d)
    PROVE  IInv'
<1>1. RestTypes /\ RouteTypes /\ LimitTypes /\ GuestInv(d)
  BY TypeSplit DEF IInv, ThreadsInv
<1>2. /\ UNCHANGED <<conflag, localtime, ip, clock, tmp_time, hdr, hptr, rcvd, routing, limits>>
      /\ apc[d] = "publish"
      /\ apc' = [apc EXCEPT ![d] = "signal"]
  BY DEF Publish
<1> DEFINE q == At(SendQueue(d))
           r == Published(q)
<1>3. /\ d \in Host /\ Empty(q)
      /\ Message(SendQueue(d)[1], SendQueue(d)[2], TailHeader(q), TailPayload(q))
  BY <1>1, <1>2 DEF GuestInv
<1>4. EvenQueue(q) /\ hq' = [hq EXCEPT ![SendQueue(d)[1]][SendQueue(d)[2]] = r]
  BY <1>3, SendQueueFacts DEF Publish
<1> HIDE DEF q
<1>5. /\ EvenQueue(r) /\ KeepsHead(q, r) /\ KeepsHeaders(q, r)
      /\ HeadHeader(r) = TailHeader(q) /\ HeadPayload(r) = TailPayload(q)
  BY <1>3, <1>4, PublishedFacts
<1> HIDE DEF r
<1>6. \A e \in Device : e # d => GuestRests(e)
  BY <1>2 DEF GuestRests
<1>7. apc'[d] = "signal"
  BY <1>1, <1>2 DEF RestTypes
<1>8. GuestInv(d)'
  BY <1>7, GuestRuns
<1>9. RestTypes' /\ RouteTypes' /\ LimitTypes'
  BY <1>1, <1>2 DEF RestTypes, RouteTypes, LimitTypes, routing, limits
<1>10. UNCHANGED <<rcvd, rpc, index, sel, fptr>>
  BY <1>2 DEF routing
<1>11. KeepsHead(At(SendQueue(d)), r) /\ KeepsHeaders(At(SendQueue(d)), r)
  BY <1>5 DEF q
<1>12. Message(SendQueue(d)[1], SendQueue(d)[2], HeadHeader(r), HeadPayload(r))
  BY <1>3, <1>5
<1> QED
  BY ONLY IInv, <1>3, <1>4, <1>5, <1>6, <1>8, <1>9, <1>10, <1>11, <1>12, GuestPush

LEMMA GetMessageStep ==
    ASSUME IInv, NEW d \in Device, GetMessage(d)
    PROVE  IInv'
<1>1. RestTypes /\ RouteTypes /\ LimitTypes /\ GuestInv(d) /\ ReceivedInv
  BY TypeSplit DEF IInv, ThreadsInv
<1> DEFINE i == RecvQueue(d)[2]
           q == hq[d][i]
           r == Released(q)
<1>2. apc[d] = "poll" /\ d \in Host
  BY <1>1 DEF GetMessage, GuestInv
<1>3. RecvQueue(d)[1] = d /\ i \in QueueIndex(d) /\ IsRecvQueue(d, i)
  BY <1>2, GuestDrains
<1>4. At(RecvQueue(d)) = q
  BY <1>3 DEF At
<1>5. /\ ~Empty(q)
      /\ rcvd' = [rcvd EXCEPT ![d] = Append(@, HeadPayload(q))]
      /\ hdr' = [hdr EXCEPT ![d] = HeadHeader(q)]
      /\ hptr' = [hptr EXCEPT ![d] = q.consumer]
      /\ localtime' = [localtime EXCEPT ![d] = tmp_time[d]]
      /\ tmp_time' = [tmp_time EXCEPT ![d] = 0]
      /\ apc' = [apc EXCEPT ![d] = "late"]
      /\ UNCHANGED <<conflag, ip, clock, routing, limits>>
  BY <1>4 DEF GetMessage
<1>6. hq' = [hq EXCEPT ![d][i] = r]
  BY <1>3, <1>4 DEF GetMessage, Set
<1>7. EvenQueue(q) /\ Message(d, i, HeadHeader(q), HeadPayload(q))
  BY <1>3, <1>5, QueueFacts
<1>8. EvenQueue(r) /\ KeepsTail(q, r) /\ r.entry = q.entry /\ Empty(r)
  <2> HIDE DEF q
  <2> QED
    BY <1>5, <1>7, ReleasedFacts
<1> HIDE DEF r, i
<1>9. /\ QueueTypes' /\ QueuesOK' /\ hq'[d][i] = r
      /\ \A e \in Device :
           /\ GuestRests(e) /\ ~(IsRecvQueue(d, i) /\ e = d) => GuestInv(e)'
           /\ RouterRests(e) /\ (IsRecvQueue(d, i) \/ e # d) => RouterInv(e)'
  <2>1. i \in QueueIndex(d) /\ (~Empty(r) => Message(d, i, HeadHeader(r), HeadPayload(r)))
    BY <1>3, <1>8
  <2>2. EvenQueue(r) /\ KeepsTail(hq[d][i], r)
    BY <1>8
  <2> QED
    BY ONLY IInv, d \in Device, <1>6, <2>1, <2>2, DrainQueue
<1>10. \A e \in Device : RouterRests(e) /\ (e # d => GuestRests(e))
  BY <1>5 DEF RouterRests, GuestRests, routing
<1>11. /\ HeadHeader(q) \in Header
       /\ HeadPayload(q) \in PayloadSet
       /\ Addressed(HeadPayload(q), HeadPayload(q).from, d)
  BY <1>3, <1>7 DEF Message, Good, Addressed
<1>12. q.consumer \in Even /\ q.consumer \in Index
  BY <1>7, EvenFacts DEF EvenQueue
<1> HIDE DEF q
<1>13. GuestInv(d)'
  <2>1. apc'[d] = "late" /\ hptr'[d] = q.consumer
    BY <1>1, <1>5 DEF RestTypes
  <2>2. RecvQueue(d)' = RecvQueue(d)
    BY DEF RecvQueue
  <2>3. At(RecvQueue(d))' = r
    BY <1>3, <1>9, <2>2 DEF At, i
  <2>4. r.entry[q.consumer] \in Header
    BY <1>8, <1>11 DEF HeadHeader
  <2> QED
    BY <1>2, <1>12, <2>1, <2>2, <2>3, <2>4 DEF GuestInv
<1>14. ThreadsInv'
  BY <1>9, <1>3, <1>10, <1>13 DEF ThreadsInv
<1>15. RestTypes'
  <2>1. rcvd' \in [Device -> Seq(PayloadSet)]
    BY <1>1, <1>5, <1>11 DEF RestTypes
  <2>2. 0 \in Time
    BY TimeFacts
  <2> QED
    BY <1>1, <1>5, <1>11, <1>12, <2>1, <2>2 DEF RestTypes
<1>16. RouteTypes' /\ LimitTypes'
  BY <1>1, <1>5 DEF RouteTypes, LimitTypes, routing, limits
<1>17. ReceivedInv'
  <2> SUFFICES ASSUME NEW e \in Device, NEW k \in 1 .. Len(rcvd'[e])
               PROVE  Addressed(rcvd'[e][k], rcvd'[e][k].from, e)
    BY DEF ReceivedInv, Addressed
  <2>1. CASE e # d
    <3>1. rcvd'[e] = rcvd[e]
      BY <1>1, <1>5, <2>1 DEF RestTypes
    <3> QED
      BY <1>1, <3>1 DEF ReceivedInv
  <2>2. CASE e = d
    <3>1. rcvd[d] \in Seq(PayloadSet) /\ rcvd'[d] = Append(rcvd[d], HeadPayload(q))
      BY <1>1, <1>5 DEF RestTypes
    <3>2. CASE k \in 1 .. Len(rcvd[d])
      <4>1. rcvd'[d][k] = rcvd[d][k]
        BY <3>1, <3>2
      <4> QED
        BY <1>1, <2>2, <3>2, <4>1 DEF ReceivedInv
    <3>3. CASE k = Len(rcvd[d]) + 1
      <4>1. rcvd'[d][k] = HeadPayload(q)
        BY <3>1, <3>3
      <4> QED
        BY <1>11, <2>2, <4>1
    <3> QED
      BY <2>2, <3>1, <3>2, <3>3
  <2> QED
    BY <2>1, <2>2
<1> QED
  BY <1>9, <1>14, <1>15, <1>16, <1>17, TypeSplit DEF IInv
---------------------------------------------------------------------------
(* The routing thread looks for the packet to serve. *)

LEMMA RouterLocalStep ==
    ASSUME IInv, NEW d \in Device, UNCHANGED <<hq, rcvd, apc, ip, hdr, hptr>>,
           \A e \in Device : e # d => RouterRests(e), RouterInv(d)',
           RestTypes', RouteTypes', LimitTypes'
    PROVE  IInv'
<1>1. QueueTypes /\ QueuesOK /\ ReceivedInv /\ ThreadsInv
  BY TypeSplit DEF IInv
<1>2. QueueTypes' /\ QueuesOK'
  BY <1>1, QueuesFrame
<1>3. ReceivedInv'
  BY <1>1, ReceivedFrame
<1>4. \A e \in Device : GuestRests(e)
  BY DEF GuestRests
<1>5. ThreadsInv'
  BY <1>1, <1>4, NoQueueFrame DEF ThreadsInv
<1> QED
  BY <1>2, <1>3, <1>5, TypeSplit DEF IInv

LEMMA IdleStep ==
    ASSUME IInv, NEW d \in Device, Idle(d)
    PROVE  IInv'
<1>1. RestTypes /\ RouteTypes /\ LimitTypes /\ ThreadsInv
  BY TypeSplit DEF IInv
<1>2. UNCHANGED <<hq, conflag, guest, routing, limits>>
  BY DEF Idle
<1>3. \A e \in Device : RouterRests(e)
  BY <1>2 DEF RouterRests, routing
<1>4. RouterInv(d)'
  BY <1>1, <1>2, <1>3, NoQueueFrame
<1>5. RestTypes'
  <2>1. localtime' \in [Device -> Time]
    BY <1>1, SyncRouterTime DEF RestTypes, Idle
  <2> QED
    BY <1>1, <1>2, <2>1 DEF RestTypes, guest
<1>6. RouteTypes' /\ LimitTypes'
  BY <1>1, <1>2 DEF RouteTypes, LimitTypes, routing, limits
<1> QED
  BY <1>2, <1>3, <1>4, <1>5, <1>6, RouterLocalStep DEF guest

LEMMA WakeStep ==
    ASSUME IInv, NEW d \in Device, Wake(d)
    PROVE  IInv'
<1>1. RestTypes /\ RouteTypes /\ LimitTypes /\ RouterInv(d)
  BY TypeSplit DEF IInv, ThreadsInv
<1>2. /\ UNCHANGED <<hq, conflag, guest, index, sel, exceeded, rtime, fptr, limits>>
      /\ rpc[d] = "idle" /\ SomeWaiting(d)
      /\ rpc' = [rpc EXCEPT ![d] = "select"]
  BY DEF Wake
<1>3. \A e \in Device : e # d => RouterRests(e)
  BY <1>2 DEF RouterRests
<1>4. RouterInv(d)'
  <2>1. /\ d \in Router /\ sel[d] = NoPacket /\ index[d] = 1
        /\ index[d] \in 1 .. SearchNum(d)
    BY <1>1, <1>2 DEF RouterInv
  <2>2. rpc'[d] = "select" /\ sel'[d] = sel[d] /\ index'[d] = index[d]
    BY <1>1, <1>2 DEF RouteTypes
  <2>3. \E i \in index[d] .. SearchNum(d) : Waiting(d, i)'
    BY <1>2, <2>1 DEF SomeWaiting, Waiting, QueueAt, NeighborNum
  <2> QED
    BY <2>1, <2>2, <2>3 DEF RouterInv, Router, Device, NoPacket, SearchNum, NeighborNum
<1>5. RestTypes'
  <2>1. localtime' \in [Device -> Time]
    BY <1>1, SyncRouterTime DEF RestTypes, Wake
  <2> QED
    BY <1>1, <1>2, <2>1 DEF RestTypes, guest
<1>6. RouteTypes' /\ LimitTypes'
  BY <1>1, <1>2 DEF RouteTypes, LimitTypes, limits
<1> QED
  BY <1>2, <1>3, <1>4, <1>5, <1>6, RouterLocalStep DEF guest

SelType == [mintime : Time, sendtime : Time, from : 0 .. TotalDeviceNum,
            next : 0 .. TotalDeviceNum, ind : 0 .. LocalOut]

\* A waiting packet becomes the one to serve.
LEMMA CandidateFacts ==
    ASSUME IInv, NEW d \in Router, NEW i \in 1 .. SearchNum(d), Waiting(d, i)
    PROVE  LET c == Candidate(d, i) IN
           /\ c \in SelType
           /\ c.ind \in Scanned(d)
           /\ ~Empty(hq[d][c.ind])
           /\ c.next = Hop(d, HeadHeader(hq[d][c.ind]).ReceiverID)
           /\ Good(HeadHeader(hq[d][c.ind]))
           /\ c.ind = QueueAt(d, i)
<1> DEFINE c == Candidate(d, i)
           j == QueueAt(d, i)
           h == HeadHeader(hq[d][j])
<1>1. d \in Device /\ j \in Scanned(d) /\ j \in QueueIndex(d)
  BY ScanFacts, RouterDrains
<1>2. ~Empty(hq[d][j])
  BY DEF Waiting
<1>3. Good(h)
  BY <1>1, <1>2, QueueFacts DEF Message
<1>4. /\ Arrives(h) \in Time /\ h.SendTime \in Time
      /\ h.ReceiverID \in Device /\ h.ForwardID \in Device
  BY <1>3, HeaderTimes DEF Good
<1>5. Hop(d, h.ReceiverID) \in Device
  <2>1. NextHop[d][h.ReceiverID] \in Device
    BY <1>1, <1>4, TopologyAssumption
  <2> QED
    BY <1>1, <2>1 DEF Hop
<1>6. j \in 0 .. LocalOut
  BY <1>1, QueueIndexFacts
<1>7. c = [mintime |-> Arrives(h), sendtime |-> h.SendTime, from |-> h.ForwardID,
           next |-> Hop(d, h.ReceiverID), ind |-> j]
  BY DEF Candidate, Hop
<1>8. Device \subseteq 0 .. TotalDeviceNum
  BY TopologyAssumption DEF Device
<1> HIDE DEF c, j, h
<1>9. c \in SelType /\ c.ind = j /\ c.next = Hop(d, h.ReceiverID)
  BY <1>4, <1>5, <1>6, <1>7, <1>8 DEF SelType
<1> QED
  BY <1>1, <1>2, <1>3, <1>9 DEF c, j, h

\* Nothing arrives as late as the time that stands for no packet.
LEMMA FirstIsPreferred ==
    ASSUME IInv, NEW d \in Router, NEW i \in 1 .. SearchNum(d), Waiting(d, i),
           sel[d] = NoPacket
    PROVE  Preferred(d, i)
<1> DEFINE h == HeadHeader(hq[d][QueueAt(d, i)])
<1>1. Good(h)
  BY CandidateFacts
<1>2. Arrives(h) \in Time /\ h.SendTime \in Time /\ h.TransTime \in Time /\ h.TransTime # 0
  BY <1>1, HeaderTimes DEF Good
<1>3. sel[d].mintime = MAX_TIME /\ sel[d].sendtime = MAX_TIME
  BY DEF NoPacket
<1>4. TimeMod \in Nat /\ TimeMod > 1
  BY TimeAssumption
<1> HIDE DEF h
<1>5. CASE h.SendTime # MAX_TIME
  <2>1. h.SendTime < MAX_TIME /\ Arrives(h) <= MAX_TIME /\ Arrives(h) \in Int /\ MAX_TIME \in Int
    BY <1>2, <1>4, <1>5 DEF Time, MAX_TIME
  <2> QED
    BY <1>3, <2>1 DEF Preferred, Earlier, h
<1>6. CASE h.SendTime = MAX_TIME
  <2>1. Arrives(h) = (MAX_TIME + h.TransTime) % TimeMod
    BY <1>6 DEF Arrives, Plus
  <2>2. MAX_TIME + h.TransTime = TimeMod * 1 + (h.TransTime - 1)
    BY <1>2, <1>4 DEF MAX_TIME, Time
  <2>3. h.TransTime - 1 \in 0 .. TimeMod - 1
    BY <1>2, <1>4 DEF MAX_TIME, Time
  <2>4. Arrives(h) = h.TransTime - 1
    BY <1>4, <2>1, <2>2, <2>3
  <2>5. Arrives(h) < MAX_TIME
    BY <1>2, <1>4, <2>4 DEF MAX_TIME, Time
  <2> QED
    BY <1>3, <2>5 DEF Preferred, Earlier, h
<1> QED
  BY <1>5, <1>6

\* The packet at index i is selected, or the one before stays selected.
LEMMA SelectedNext ==
    ASSUME IInv, NEW d \in Router, NEW i \in 1 .. SearchNum(d), hq' = hq,
           \/ Preferred(d, i) /\ sel'[d] = Candidate(d, i)
           \/ Selected(d) /\ sel'[d] = sel[d]
    PROVE  Selected(d)'
<1>1. d \in Device
  BY DEF Router
<1>2. CASE Preferred(d, i) /\ sel'[d] = Candidate(d, i)
  <2> DEFINE c == Candidate(d, i)
  <2>1. /\ c.ind \in Scanned(d)
        /\ ~Empty(hq[d][c.ind])
        /\ c.next = Hop(d, HeadHeader(hq[d][c.ind]).ReceiverID)
    BY <1>2, CandidateFacts DEF Preferred
  <2> HIDE DEF c
  <2>2. sel'[d] = c
    BY <1>2 DEF c
  <2>3. From(d)' = hq[d][c.ind]
    BY <2>2 DEF From
  <2> QED
    BY <2>1, <2>2, <2>3 DEF Selected, Hop, Scanned, QueueIndex, LocalIn, LocalOut, NeighborNum
<1>3. CASE Selected(d) /\ sel'[d] = sel[d]
  <2>1. KeepsHead(From(d), From(d)')
    BY <1>3, KeepsItself DEF From
  <2> QED
    BY <1>1, <1>3, <2>1, SelectedKept
<1> QED
  BY <1>2, <1>3

LEMMA SelectStep ==
    ASSUME IInv, NEW d \in Device, Select(d)
    PROVE  IInv'
<1>1. RestTypes /\ RouteTypes /\ LimitTypes /\ RouterInv(d)
  BY TypeSplit DEF IInv, ThreadsInv
<1> DEFINE i == index[d]
           last == i = SearchNum(d)
<1>2. /\ UNCHANGED <<shared, guest, exceeded, rtime, fptr, limits>>
      /\ rpc[d] = "select"
      /\ sel' = [sel EXCEPT ![d] = IF Preferred(d, i) THEN Candidate(d, i) ELSE sel[d]]
      /\ index' = [index EXCEPT ![d] = IF last THEN 1 ELSE i + 1]
      /\ rpc' = IF ~last THEN rpc
                ELSE [rpc EXCEPT ![d] = IF SearchNum(d) > 2 THEN "wait" ELSE "serve"]
  BY <1>1 DEF Select, RouteTypes
<1>3. d \in Router /\ i \in 1 .. SearchNum(d)
  BY <1>1, <1>2 DEF RouterInv
<1>4. SearchNum(d) \in 1 .. 9
  BY <1>3, ScanFacts
<1>5. /\ sel'[d] = IF Preferred(d, i) THEN Candidate(d, i) ELSE sel[d]
      /\ index'[d] = IF last THEN 1 ELSE i + 1
      /\ rpc'[d] = IF ~last THEN "select" ELSE IF SearchNum(d) > 2 THEN "wait" ELSE "serve"
  BY <1>1, <1>2 DEF RouteTypes
<1> HIDE DEF i, last
<1>6. Preferred(d, i) => Candidate(d, i) \in SelType
  BY <1>3, CandidateFacts DEF Preferred
<1>7. ASSUME Preferred(d, i) \/ Selected(d) PROVE RouterInv(d)'
  <2>1. Selected(d)'
    BY <1>2, <1>3, <1>5, <1>7, SelectedNext DEF shared
  <2>2. index'[d] \in 1 .. SearchNum(d) /\ (last => index'[d] = 1)
    BY <1>3, <1>4, <1>5 DEF last
  <2> QED
    BY <1>3, <1>5, <2>1, <2>2 DEF RouterInv, Router, Device, SearchNum, NeighborNum
<1>8. ASSUME ~Preferred(d, i), ~Selected(d) PROVE RouterInv(d)'
  <2>1. sel[d] = NoPacket /\ \E k \in i .. SearchNum(d) : Waiting(d, k)
    BY <1>1, <1>2, <1>8 DEF RouterInv, i
  <2>2. PICK k \in i .. SearchNum(d) : Waiting(d, k)
    BY <2>1
  <2>3. k # i
    BY <1>3, <1>8, <2>1, <2>2, FirstIsPreferred
  <2>4. ~last /\ k \in i + 1 .. SearchNum(d) /\ i + 1 \in 1 .. SearchNum(d)
    BY <1>3, <1>4, <2>2, <2>3 DEF last
  <2>5. Waiting(d, k)'
    BY <1>2, <2>2 DEF Waiting, QueueAt, NeighborNum, shared, LocalOut
  <2>6. index'[d] = i + 1 /\ rpc'[d] = "select" /\ sel'[d] = NoPacket
    BY <1>5, <1>8, <2>1, <2>4
  <2> QED
    BY <1>3, <2>4, <2>5, <2>6 DEF RouterInv, Router, Device, NoPacket, SearchNum, NeighborNum
<1>9. RouterInv(d)'
  BY <1>7, <1>8
<1>10. \A e \in Device : e # d => RouterRests(e)
  BY <1>2 DEF RouterRests
<1>11. RestTypes' /\ LimitTypes'
  BY <1>1, <1>2 DEF RestTypes, LimitTypes, shared, guest, limits
<1>12. RouteTypes'
  <2>1. sel' \in [Device -> SelType]
    BY <1>1, <1>2, <1>6 DEF RouteTypes, SelType
  <2>2. index' \in [Device -> 1 .. NODE_MAX_LINKS + 1]
    <3>1. (IF last THEN 1 ELSE i + 1) \in 1 .. NODE_MAX_LINKS + 1
      BY <1>3, <1>4 DEF last, NODE_MAX_LINKS
    <3> QED
      BY <1>1, <1>2, <3>1 DEF RouteTypes
  <2>3. rpc' \in [Device -> {"none", "cancelled", "idle", "select", "wait", "serve",
                           "header", "payload", "release", "publish", "signal"}]
    BY <1>1, <1>2 DEF RouteTypes
  <2> QED
    BY <1>1, <1>2, <2>1, <2>2, <2>3 DEF RouteTypes, SelType
<1> QED
  BY <1>2, <1>9, <1>10, <1>11, <1>12, RouterLocalStep DEF shared, guest

LEMMA WaitOthersStep ==
    ASSUME IInv, NEW d \in Device, WaitOthers(d)
    PROVE  IInv'
<1>1. RestTypes /\ RouteTypes /\ LimitTypes /\ RouterInv(d)
  BY TypeSplit DEF IInv, ThreadsInv
<1> DEFINE i == index[d]
           last == i = SearchNum(d)
           s == IF Preferred(d, i) THEN Candidate(d, i) ELSE sel[d]
           before == IF Preferred(d, i) THEN {} ELSE exceeded[d]
           reached == /\ s.from # DeviceAt(d, i)
                      /\ Threshold(s.mintime) <= localtime[DeviceAt(d, i)]
           after == IF reached THEN before \cup {i} ELSE before
<1>2. /\ UNCHANGED <<hq, conflag, guest, rtime, fptr, limits>>
      /\ rpc[d] = "wait"
      /\ sel' = [sel EXCEPT ![d] = s]
      /\ exceeded' = [exceeded EXCEPT ![d] = after]
      /\ index' = [index EXCEPT ![d] = IF last THEN 1 ELSE i + 1]
      /\ IF last THEN SyncRouter(d) ELSE UNCHANGED localtime
      /\ rpc' = IF last /\ Cardinality(after) = SearchNum(d) - 2
                THEN [rpc EXCEPT ![d] = "serve"] ELSE rpc
  BY DEF WaitOthers
<1>3. d \in Router /\ i \in 1 .. SearchNum(d) /\ Selected(d)
  BY <1>1, <1>2 DEF RouterInv
<1>4. SearchNum(d) \in 1 .. 9
  BY <1>3, ScanFacts
<1>5. s \in SelType
  <2>1. Preferred(d, i) => Candidate(d, i) \in SelType
    BY <1>3, CandidateFacts DEF Preferred
  <2> QED
    BY <1>1, <2>1 DEF RouteTypes, SelType
<1>6. after \in SUBSET (1 .. NODE_MAX_LINKS + 1)
  <2>1. i \in 1 .. NODE_MAX_LINKS + 1 /\ exceeded[d] \in SUBSET (1 .. NODE_MAX_LINKS + 1)
    BY <1>1 DEF RouteTypes
  <2> HIDE DEF i, reached
  <2> QED
    BY <2>1
<1>7. \/ Preferred(d, i) /\ s = Candidate(d, i)
      \/ Selected(d) /\ s = sel[d]
  BY <1>3
<1> HIDE DEF i, last, s, before, reached, after
<1>8. /\ sel'[d] = s
      /\ index'[d] = IF last THEN 1 ELSE i + 1
      /\ rpc'[d] = "wait" \/ (last /\ rpc'[d] = "serve")
  BY <1>1, <1>2 DEF RouteTypes
<1>9. Selected(d)'
  BY <1>2, <1>3, <1>7, <1>8, SelectedNext
<1>10. index'[d] \in 1 .. SearchNum(d) /\ (last => index'[d] = 1)
  BY <1>3, <1>4, <1>8 DEF last
<1>11. RouterInv(d)'
  BY <1>3, <1>8, <1>9, <1>10 DEF RouterInv, Router, Device, SearchNum, NeighborNum
<1>12. \A e \in Device : e # d => RouterRests(e)
  BY <1>2 DEF RouterRests
<1>13. RestTypes' /\ LimitTypes'
  <2>1. localtime' \in [Device -> Time]
    BY <1>1, <1>2, SyncRouterTime DEF RestTypes
  <2> QED
    BY <1>1, <1>2, <2>1 DEF RestTypes, LimitTypes, guest, limits
<1>14. RouteTypes'
  <2>1. sel' \in [Device -> SelType]
    BY <1>1, <1>2, <1>5 DEF RouteTypes, SelType
  <2>2. index' \in [Device -> 1 .. NODE_MAX_LINKS + 1]
    <3>1. (IF last THEN 1 ELSE i + 1) \in 1 .. NODE_MAX_LINKS + 1
      BY <1>3, <1>4 DEF last, NODE_MAX_LINKS
    <3> QED
      BY <1>1, <1>2, <3>1 DEF RouteTypes
  <2>3. rpc' \in [Device -> {"none", "cancelled", "idle", "select", "wait", "serve",
                           "header", "payload", "release", "publish", "signal"}]
    BY <1>1, <1>2 DEF RouteTypes
  <2>4. exceeded' \in [Device -> SUBSET (1 .. NODE_MAX_LINKS + 1)]
    BY <1>1, <1>2, <1>6 DEF RouteTypes
  <2> QED
    BY <1>1, <1>2, <2>1, <2>2, <2>3, <2>4 DEF RouteTypes, SelType
<1> QED
  BY <1>2, <1>11, <1>12, <1>13, <1>14, RouterLocalStep DEF guest
---------------------------------------------------------------------------
(* The routing thread serves the packet. *)

Busy == {"serve", "header", "payload", "release"}

\* Where the packet is, and where it goes.
LEMMA ServeFacts ==
    ASSUME IInv, NEW d \in Device, rpc[d] \in Busy
    PROVE  /\ d \in Router
           /\ Selected(d)
           /\ index[d] = 1
           /\ sel[d].ind \in Scanned(d)
           /\ sel[d].ind \in QueueIndex(d)
           /\ ~IsRecvQueue(d, sel[d].ind)
           /\ EvenQueue(From(d))
           /\ ~Empty(From(d))
           /\ Message(d, sel[d].ind, HeadHeader(From(d)), HeadPayload(From(d)))
           /\ CanHop(d, sel[d].next)
           /\ IsRecvQueue(Target(d)[1], Target(d)[2]) =>
                  HeadHeader(From(d)).ReceiverID = Target(d)[1]
<1>1. RouterInv(d)
  BY DEF IInv, ThreadsInv
<1>2. d \in Router /\ Selected(d) /\ index[d] = 1
  BY <1>1 DEF RouterInv, Busy
<1>3. /\ sel[d].ind \in Scanned(d) /\ ~Empty(From(d))
      /\ sel[d].next = Hop(d, HeadHeader(From(d)).ReceiverID)
  BY <1>2 DEF Selected
<1>4. sel[d].ind \in QueueIndex(d) /\ ~IsRecvQueue(d, sel[d].ind)
  BY <1>2, <1>3, RouterDrains
<1>5. EvenQueue(From(d)) /\ Message(d, sel[d].ind, HeadHeader(From(d)), HeadPayload(From(d)))
  BY <1>3, <1>4, QueueFacts DEF From
<1> DEFINE r == HeadHeader(From(d)).ReceiverID
<1>6. r \in Host /\ sel[d].next = Hop(d, r)
  BY <1>3, <1>5 DEF Message, Good
<1> HIDE DEF r
<1>7. CanHop(d, sel[d].next)
  <2>1. CASE r = d
    <3>1. DeviceType[d] = "ZC"
      BY <1>2, <1>6, <2>1, TopologyAssumption DEF Host, Router
    <3> QED
      BY <1>6, <2>1, <3>1 DEF Hop, CanHop
  <2>2. CASE r # d
    <3>1. NextHop[d][r] # d /\ \E i \in 1 .. NeighborNum(d) : Neighbors[d][i] = NextHop[d][r]
      BY <1>6, <2>2, TopologyAssumption
    <3>2. NextHop[d][r] \in NeighborSet(d)
      BY <3>1 DEF NeighborSet
    <3> QED
      BY <1>6, <2>2, <3>1, <3>2 DEF Hop, CanHop
  <2> QED
    BY <2>1, <2>2
<1>8. ASSUME IsRecvQueue(Target(d)[1], Target(d)[2]) PROVE r = Target(d)[1]
  <2>1. Target(d)[1] = sel[d].next /\ (Target(d)[1] = d <=> Target(d)[2] = LocalIn)
    BY <1>2, <1>7, RouterFeeds
  <2>2. CASE r = d
    BY <1>6, <2>1, <2>2 DEF Hop
  <2>3. CASE r # d
    <3>1. sel[d].next = NextHop[d][r] /\ NextHop[d][r] # d
      BY <1>6, <2>3, TopologyAssumption DEF Hop
    <3>2. DeviceType[NextHop[d][r]] = "ZED"
      BY <1>8, <2>1, <3>1 DEF IsRecvQueue
    <3>3. NextHop[d][r] = r
      BY <1>6, <2>3, <3>2, TopologyAssumption
    <3> QED
      BY <2>1, <3>1, <3>3
  <2> QED
    BY <2>2, <2>3
<1> QED
  BY <1>2, <1>3, <1>4, <1>5, <1>7, <1>8 DEF r

\* The packet's header is rewritten: it stays a header of the same message.
LEMMA RewriteStep ==
    ASSUME IInv, NEW d \in Device, rpc[d] = "serve", NEW h \in Header,
           h.SenderID = HeadHeader(From(d)).SenderID,
           h.ReceiverID = HeadHeader(From(d)).ReceiverID,
           h.TransTime # 0,
           Rewrite(d, h), fptr' = [fptr EXCEPT ![d] = From(d).consumer],
           rpc' = [rpc EXCEPT ![d] = "header"], rtime' \in [Device -> Time],
           UNCHANGED <<conflag, localtime, guest, index, sel, exceeded, limits>>
    PROVE  IInv'
<1>1. RestTypes /\ RouteTypes /\ LimitTypes
  BY TypeSplit DEF IInv
<1>2. /\ d \in Router /\ Selected(d) /\ index[d] = 1
      /\ sel[d].ind \in Scanned(d) /\ sel[d].ind \in QueueIndex(d)
      /\ ~IsRecvQueue(d, sel[d].ind)
      /\ EvenQueue(From(d)) /\ ~Empty(From(d))
      /\ Message(d, sel[d].ind, HeadHeader(From(d)), HeadPayload(From(d)))
      /\ CanHop(d, sel[d].next)
  BY ServeFacts DEF Busy
<1> DEFINE i == sel[d].ind
           q == From(d)
           r == [q EXCEPT !.entry[q.consumer] = h]
<1>3. hq' = [hq EXCEPT ![d][i] = r]
  BY DEF Rewrite, From
<1> HIDE DEF q
<1>4. EvenQueue(q) /\ ~Empty(q) /\ q.consumer \in Even /\ q.consumer \in Index
  BY <1>2, EvenFacts DEF q, EvenQueue
<1>5. /\ EvenQueue(r) /\ KeepsTail(q, r) /\ ~Empty(r) /\ r.consumer = q.consumer
      /\ HeadHeader(r) = h /\ HeadPayload(r) = HeadPayload(q)
  BY <1>4, RewriteFacts
<1> HIDE DEF r
<1>6. Message(d, i, HeadHeader(r), HeadPayload(r))
  BY <1>2, <1>5 DEF Message, Good, Addressed, q
<1>7. KeepsTail(hq[d][i], r)
  BY <1>5 DEF q, From
<1> HIDE DEF i
<1>8. /\ QueueTypes' /\ QueuesOK' /\ hq'[d][i] = r
      /\ \A e \in Device :
           /\ GuestRests(e) /\ ~(IsRecvQueue(d, i) /\ e = d) => GuestInv(e)'
           /\ RouterRests(e) /\ (IsRecvQueue(d, i) \/ e # d) => RouterInv(e)'
  <2>1. i \in QueueIndex(d)
    BY <1>2 DEF i
  <2>2. EvenQueue(r)
    BY <1>5
  <2> QED
    BY ONLY IInv, d \in Device, <1>3, <1>6, <1>7, <2>1, <2>2, DrainQueue
<1>9. \A e \in Device : GuestRests(e) /\ (e # d => RouterRests(e))
  BY DEF GuestRests, RouterRests, guest
<1>10. /\ rpc'[d] = "header" /\ index'[d] = 1 /\ sel'[d] = sel[d]
       /\ fptr'[d] = q.consumer
  BY <1>1, <1>2 DEF RouteTypes, q
<1>11. From(d)' = r
  BY <1>8, <1>10 DEF From, i
<1>12. Selected(d)'
  <2>1. sel[d].next = Hop(d, h.ReceiverID)
    BY <1>2 DEF Selected
  <2> QED
    BY <1>2, <1>5, <1>10, <1>11, <2>1
       DEF Selected, Hop, Scanned, QueueIndex, LocalIn, LocalOut, NeighborNum
<1>13. r.entry[q.consumer] \in Header
  BY <1>5 DEF HeadHeader
<1>14. RouterInv(d)'
  BY <1>2, <1>4, <1>10, <1>11, <1>12, <1>13
     DEF RouterInv, Router, Device, CanHop, NeighborSet, NeighborNum,
         Scanned, QueueIndex, LocalIn, LocalOut
<1>15. ThreadsInv'
  BY <1>2, <1>8, <1>9, <1>14 DEF ThreadsInv, i
<1>16. RestTypes' /\ RouteTypes' /\ LimitTypes' /\ ReceivedInv'
  <2>1. fptr' \in [Device -> Index]
    BY <1>1, <1>4 DEF RouteTypes, q
  <2>2. ReceivedInv'
    BY DEF IInv, ReceivedInv, Addressed, guest
  <2> QED
    BY <1>1, <2>1, <2>2 DEF RestTypes, RouteTypes, LimitTypes, guest, limits
<1> QED
  BY <1>8, <1>15, <1>16, TypeSplit DEF IInv

\* The header h as a delivery or a forwarding rewrites it.
IsDelivered(g, h, s) == g = [h EXCEPT !.SendTime = s]
IsForwarded(g, h, d, s, t) == g = [h EXCEPT !.ForwardID = d, !.SendTime = s, !.TransTime = t]

LEMMA HeaderUpdate ==
    ASSUME NEW h \in Header, NEW d \in Device, NEW s \in Time, NEW t \in Time,
           NEW g, \/ IsDelivered(g, h, s) /\ t = h.TransTime
                  \/ IsForwarded(g, h, d, s, t)
    PROVE  /\ g \in Header
           /\ g.SenderID = h.SenderID
           /\ g.ReceiverID = h.ReceiverID
           /\ g.TransTime = t
           /\ g.SendTime = s
BY DEF Header, IsDelivered, IsForwarded

LEMMA DeliverStep ==
    ASSUME IInv, NEW d \in Device, Deliver(d)
    PROVE  IInv'
<1> DEFINE h == HeadHeader(From(d))
           rt == Later(rtime[d], h.SendTime)
           g == [h EXCEPT !.SendTime = rt]
<1>1. /\ rpc[d] = "serve"
      /\ rtime' = [rtime EXCEPT ![d] = rt]
      /\ Rewrite(d, g)
      /\ fptr' = [fptr EXCEPT ![d] = From(d).consumer]
      /\ rpc' = [rpc EXCEPT ![d] = "header"]
      /\ UNCHANGED <<conflag, localtime, guest, index, sel, exceeded, limits>>
  BY DEF Deliver
<1>2. Good(h)
  BY <1>1, ServeFacts DEF Busy, Message
<1>3. rtime \in [Device -> Time]
  BY TypeSplit DEF IInv, RouteTypes
<1>4. rt \in Time
  BY <1>2, <1>3, HeaderTimes, TimeFacts DEF Good
<1> HIDE DEF rt
<1>5. rtime' \in [Device -> Time]
  BY <1>1, <1>3, <1>4
<1>6. h \in Header /\ h.TransTime \in Time /\ h.TransTime # 0 /\ IsDelivered(g, h, rt)
  BY <1>2, HeaderTimes DEF Good, IsDelivered
<1> HIDE DEF g, h
<1>7. g \in Header /\ g.SenderID = h.SenderID /\ g.ReceiverID = h.ReceiverID /\ g.TransTime # 0
  BY ONLY d \in Device, <1>4, <1>6, HeaderUpdate
<1> QED
  BY <1>1, <1>5, <1>7, RewriteStep DEF h

LEMMA ForwardStep ==
    ASSUME IInv, NEW d \in Device, Forward(d)
    PROVE  IInv'
<1> DEFINE h == HeadHeader(From(d))
           rt == Later(rtime[d], h.SendTime)
           own == h.SenderID = d
           s == IF own THEN rt ELSE Plus(rt, h.TransTime)
<1>1. /\ rpc[d] = "serve"
      /\ fptr' = [fptr EXCEPT ![d] = From(d).consumer]
      /\ rpc' = [rpc EXCEPT ![d] = "header"]
      /\ UNCHANGED <<conflag, localtime, guest, index, sel, exceeded, limits>>
  BY DEF Forward
<1>2. PICK t \in IF own THEN {h.TransTime} ELSE Latency :
          /\ Rewrite(d, [h EXCEPT !.ForwardID = d, !.SendTime = s, !.TransTime = t])
          /\ rtime' = [rtime EXCEPT ![d] = Plus(rt, t)]
  BY DEF Forward
<1>3. Good(h)
  BY <1>1, ServeFacts DEF Busy, Message
<1>4. rtime \in [Device -> Time]
  BY TypeSplit DEF IInv, RouteTypes
<1>5. rt \in Time /\ h.TransTime \in Time
  BY <1>3, <1>4, HeaderTimes, TimeFacts DEF Good
<1>6. t \in Time /\ t # 0
  BY <1>2, <1>3, <1>5, TimeAssumption DEF Good
<1> HIDE DEF rt
<1>7. s \in Time /\ Plus(rt, t) \in Time
  BY <1>5, <1>6, TimeFacts
<1> DEFINE g == [h EXCEPT !.ForwardID = d, !.SendTime = s, !.TransTime = t]
<1>8. rtime' \in [Device -> Time]
  BY <1>2, <1>4, <1>7
<1> HIDE DEF s
<1>9. h \in Header /\ IsForwarded(g, h, d, s, t)
  BY <1>3 DEF Good, IsForwarded
<1>10. Rewrite(d, g)
  BY <1>2
<1> HIDE DEF g, h
<1>11. g \in Header /\ g.SenderID = h.SenderID /\ g.ReceiverID = h.ReceiverID /\ g.TransTime # 0
  BY ONLY d \in Device, <1>6, <1>7, <1>9, HeaderUpdate
<1> QED
  BY <1>1, <1>8, <1>10, <1>11, RewriteStep DEF h

\* The packet is taken off its queue.
LEMMA RouterReleases ==
    ASSUME IInv, NEW d \in Device, rpc[d] \in Busy, NEW r, EvenQueue(r), Empty(r),
           KeepsTail(From(d), r), hq' = [hq EXCEPT ![d][sel[d].ind] = r],
           UNCHANGED guest,
           \A e \in Device : e # d => RouterRests(e),
           hq'[d][sel[d].ind] = r /\ Others(d, sel[d].ind) => RouterInv(d)',
           RestTypes', RouteTypes', LimitTypes'
    PROVE  IInv'
<1> DEFINE i == sel[d].ind
<1>1. i \in QueueIndex(d) /\ ~IsRecvQueue(d, i)
  BY ServeFacts
<1>2. hq' = [hq EXCEPT ![d][i] = r] /\ KeepsTail(hq[d][i], r)
  BY DEF From
<1>3. hq'[d][i] = r /\ Others(d, i) => RouterInv(d)'
  OBVIOUS
<1> HIDE DEF i
<1>4. /\ QueueTypes' /\ QueuesOK' /\ hq'[d][i] = r /\ Others(d, i)
      /\ \A e \in Device :
           /\ GuestRests(e) /\ ~(IsRecvQueue(d, i) /\ e = d) => GuestInv(e)'
           /\ RouterRests(e) /\ (IsRecvQueue(d, i) \/ e # d) => RouterInv(e)'
  BY ONLY IInv, d \in Device, EvenQueue(r), Empty(r), <1>1, <1>2, DrainQueue
<1>5. \A e \in Device : GuestRests(e)
  BY DEF GuestRests, guest
<1>6. ThreadsInv'
  BY <1>1, <1>3, <1>4, <1>5 DEF ThreadsInv
<1>7. ReceivedInv'
  <2>1. ReceivedInv /\ rcvd' = rcvd
    BY DEF IInv, guest
  <2> QED
    BY ONLY <2>1, ReceivedFrame
<1> QED
  BY <1>4, <1>6, <1>7, TypeSplit DEF IInv

LEMMA NoPacketType == NoPacket \in SelType
<1>1. MAX_TIME \in Time
  BY TimeFacts
<1>2. 0 \in 0 .. TotalDeviceNum /\ 0 \in 0 .. LocalOut
  BY TopologyAssumption DEF LocalOut, NODE_MAX_LINKS
<1> QED
  BY <1>1, <1>2 DEF NoPacket, SelType

\* A routing thread with nothing to serve.
LEMMA RouterIdles ==
    ASSUME NEW d \in Router, rpc'[d] = "idle", sel'[d] = NoPacket, index'[d] = 1
    PROVE  RouterInv(d)'
<1>1. d \in Device /\ DeviceType[d] \in {"ZC", "ZR"} /\ NeighborNum(d) \in 1 .. 8
  BY NeighborFacts, TopologyAssumption DEF Router
<1>2. 1 \in 1 .. SearchNum(d)
  BY <1>1 DEF SearchNum
<1> QED
  BY <1>2 DEF RouterInv, Router, Device, SearchNum, NeighborNum, NoPacket

LEMMA ForwardFailStep ==
    ASSUME IInv, NEW d \in Device, ForwardFail(d)
    PROVE  IInv'
<1>1. RestTypes /\ RouteTypes /\ LimitTypes
  BY TypeSplit DEF IInv
<1> DEFINE h == HeadHeader(From(d))
           rt == Later(rtime[d], h.SendTime)
           s == Plus(rt, h.TransTime)
           g == [h EXCEPT !.ForwardID = d, !.SendTime = s, !.TransTime = 0]
           q == From(d)
           u == [q EXCEPT !.entry[q.consumer] = g]
           r == Released(u)
<1>2. /\ rpc[d] = "serve"
      /\ fails < MaxFails
      /\ fails' = fails + 1
      /\ conflag' = [conflag EXCEPT ![h.SenderID] =
             [dataflag |-> 44, transtime |-> AddPointer(g.SendTime)]]
      /\ rtime' = [rtime EXCEPT ![d] = AddPointer(rt)]
      /\ rpc' = [rpc EXCEPT ![d] = "idle"]
      /\ sel' = [sel EXCEPT ![d] = NoPacket]
      /\ exceeded' = [exceeded EXCEPT ![d] = {}]
      /\ UNCHANGED <<localtime, guest, index, fptr, onehop, work, arrival>>
  BY DEF ForwardFail
<1>3. hq' = [hq EXCEPT ![d][sel[d].ind] = r]
  BY DEF ForwardFail, From
<1>4. d \in Router /\ EvenQueue(q) /\ ~Empty(q) /\ index[d] = 1 /\ Good(h)
  BY <1>2, ServeFacts DEF Busy, Message
<1>5. rt \in Time /\ h.TransTime \in Time /\ h.SenderID \in Device /\ h \in Header
  BY <1>1, <1>4, HeaderTimes, TimeFacts DEF Good, RouteTypes
<1> HIDE DEF rt, h
<1>6. s \in Time /\ 0 \in Time
  BY <1>5, TimeFacts
<1> HIDE DEF s
<1>7. g \in Header /\ g.SendTime = s
  <2>1. IsForwarded(g, h, d, s, 0)
    BY DEF IsForwarded
  <2> HIDE DEF g
  <2> QED
    BY ONLY d \in Device, <1>5, <1>6, <2>1, HeaderUpdate
<1> HIDE DEF g, q
<1>8. EvenQueue(u) /\ KeepsTail(q, u) /\ ~Empty(u)
  BY <1>4, <1>7, RewriteFacts
<1> HIDE DEF u
<1>9. EvenQueue(r) /\ KeepsTail(u, r) /\ Empty(r)
  BY <1>8, ReleasedFacts
<1> HIDE DEF r
<1>10. KeepsTail(From(d), r)
  BY <1>8, <1>9 DEF KeepsTail, q
<1>11. \A e \in Device : e # d => RouterRests(e)
  BY <1>2 DEF RouterRests
<1>12. RouterInv(d)'
  <2>1. rpc'[d] = "idle" /\ sel'[d] = NoPacket /\ index'[d] = 1
    BY <1>1, <1>2, <1>4 DEF RouteTypes
  <2> QED
    BY <1>4, <2>1, RouterIdles
<1>13. RestTypes'
  <2>1. AddPointer(g.SendTime) \in Time
    BY <1>6, <1>7, TimeFacts
  <2>2. conflag' \in [Device -> [dataflag : {0, 44, 77}, transtime : Time]]
    BY <1>1, <1>2, <1>5, <2>1 DEF RestTypes
  <2> QED
    BY <1>1, <1>2, <2>2 DEF RestTypes, guest
<1>14. RouteTypes'
  <2>1. AddPointer(rt) \in Time
    BY <1>5, TimeFacts
  <2>2. rtime' \in [Device -> Time]
    BY <1>1, <1>2, <2>1 DEF RouteTypes
  <2>3. sel' \in [Device -> SelType]
    BY <1>1, <1>2, NoPacketType DEF RouteTypes, SelType
  <2> QED
    BY <1>1, <1>2, <2>2, <2>3 DEF RouteTypes, SelType
<1>15. LimitTypes'
  <2>1. fails' \in 0 .. MaxFails
    BY <1>1, <1>2, TimeAssumption DEF LimitTypes
  <2> QED
    BY <1>1, <1>2, <2>1 DEF LimitTypes
<1>16. rpc[d] \in Busy /\ UNCHANGED guest
  BY <1>2 DEF Busy
<1> QED
  BY ONLY IInv, d \in Device, <1>3, <1>9, <1>10, <1>11, <1>12, <1>13, <1>14, <1>15, <1>16,
          RouterReleases

LEMMA RouteReleaseStep ==
    ASSUME IInv, NEW d \in Device, RouteRelease(d)
    PROVE  IInv'
<1>1. RestTypes /\ RouteTypes /\ LimitTypes /\ RouterInv(d)
  BY TypeSplit DEF IInv, ThreadsInv
<1> DEFINE q == From(d)
           r == Released(q)
<1>2. /\ rpc[d] = "release"
      /\ rpc' = [rpc EXCEPT ![d] = "publish"]
      /\ UNCHANGED <<conflag, localtime, guest, index, sel, exceeded, rtime, fptr, limits>>
  BY DEF RouteRelease
<1>3. hq' = [hq EXCEPT ![d][sel[d].ind] = r]
  BY DEF RouteRelease, From
<1>4. /\ d \in Router /\ EvenQueue(q) /\ ~Empty(q) /\ index[d] = 1
      /\ sel[d].ind \in Scanned(d) /\ CanHop(d, sel[d].next)
  BY <1>2, ServeFacts DEF Busy
<1>5. EvenQueue(r) /\ KeepsTail(q, r) /\ Empty(r) /\ r.entry = q.entry
  <2> HIDE DEF q
  <2> QED
    BY <1>4, ReleasedFacts
<1> HIDE DEF r
<1>6. \A e \in Device : e # d => RouterRests(e)
  BY <1>2 DEF RouterRests
<1>7. ASSUME hq'[d][sel[d].ind] = r, Others(d, sel[d].ind) PROVE RouterInv(d)'
  <2>1. rpc'[d] = "publish" /\ sel'[d] = sel[d] /\ index'[d] = 1 /\ fptr'[d] = fptr[d]
    BY <1>1, <1>2, <1>4 DEF RouteTypes
  <2>2. fptr[d] \in Even /\ q.entry[fptr[d]] \in Header
    BY <1>1, <1>2 DEF RouterInv
  <2>3. From(d)' = r
    BY <1>7, <2>1 DEF From
  <2>4. Target(d)' = Target(d)
    BY <2>1 DEF Target, LinkOf, NeighborNum
  <2>5. At(Target(d))' = At(Target(d))
    <3>1. /\ Target(d)[1] \in Device /\ Target(d)[2] \in QueueIndex(Target(d)[1])
          /\ (Target(d)[1] = d <=> Target(d)[2] = LocalIn)
      BY <1>4, RouterFeeds
    <3>2. Target(d)[1] # d \/ Target(d)[2] # sel[d].ind
      BY <1>4, <3>1 DEF Scanned
    <3> QED
      BY <1>7, <2>4, <3>1, <3>2 DEF At, Others
  <2>6. /\ Empty(At(Target(d)))
        /\ Message(Target(d)[1], Target(d)[2], TailHeader(At(Target(d))), TailPayload(At(Target(d))))
    BY <1>1, <1>2 DEF RouterInv
  <2>7. r.entry[fptr[d]] \in Header
    BY <1>5, <2>2
  <2> HIDE DEF q
  <2> QED
    BY <1>4, <2>1, <2>2, <2>3, <2>4, <2>5, <2>6, <2>7
       DEF RouterInv, Router, Device, CanHop, NeighborSet, NeighborNum,
           Scanned, QueueIndex, LocalIn, LocalOut
<1>8. RestTypes' /\ RouteTypes' /\ LimitTypes'
  BY <1>1, <1>2 DEF RestTypes, RouteTypes, LimitTypes, guest, limits
<1>9. rpc[d] \in Busy /\ UNCHANGED guest
  BY <1>2 DEF Busy
<1>10. KeepsTail(From(d), r)
  BY <1>5
<1>11. hq'[d][sel[d].ind] = r /\ Others(d, sel[d].ind) => RouterInv(d)'
  BY <1>7
<1> QED
  BY ONLY IInv, d \in Device, <1>3, <1>5, <1>6, <1>8, <1>9, <1>10, <1>11, RouterReleases

\* What every push of a routing thread has in common.
LEMMA RouterPush ==
    ASSUME IInv, NEW d \in Router, CanHop(d, sel[d].next), sel[d].ind \in Scanned(d), NEW r,
           hq' = [hq EXCEPT ![Target(d)[1]][Target(d)[2]] = r], EvenQueue(r),
           KeepsHead(At(Target(d)), r), KeepsHeaders(At(Target(d)), r),
           Empty(At(Target(d))) /\ ~Empty(r) =>
               Message(Target(d)[1], Target(d)[2], HeadHeader(r), HeadPayload(r)),
           UNCHANGED <<guest, index, sel, fptr>>,
           \A e \in Device : e # d => RouterRests(e),
           At(Target(d))' = r /\ From(d)' = From(d) => RouterInv(d)',
           RestTypes', RouteTypes', LimitTypes'
    PROVE  IInv'
<1> DEFINE n == Target(d)[1]
           i == Target(d)[2]
<1>1. /\ n \in Device /\ i \in QueueIndex(n) /\ ~FedByGuest(n, i) /\ Feeder(n, i) = d
      /\ (n = d <=> i = LocalIn)
  BY RouterFeeds
<1>2. Target(d)' = Target(d)
  <2>1. sel' = sel
    OBVIOUS
  <2> QED
    BY ONLY <2>1 DEF Target, LinkOf, NeighborNum
<1>3. At(Target(d)) = hq[n][i] /\ At(Target(d))' = hq'[n][i]
  BY <1>2 DEF At
<1>4. /\ hq' = [hq EXCEPT ![n][i] = r]
      /\ KeepsHead(hq[n][i], r) /\ KeepsHeaders(hq[n][i], r)
      /\ Empty(hq[n][i]) /\ ~Empty(r) => Message(n, i, HeadHeader(r), HeadPayload(r))
  BY <1>3
<1> HIDE DEF n, i
<1>5. /\ QueueTypes' /\ QueuesOK' /\ hq'[n][i] = r /\ Others(n, i)
      /\ \A e \in Device :
           /\ GuestRests(e) /\ ~(FedByGuest(n, i) /\ Feeder(n, i) = e) => GuestInv(e)'
           /\ RouterRests(e) /\ (FedByGuest(n, i) \/ Feeder(n, i) # e) => RouterInv(e)'
  BY ONLY IInv, EvenQueue(r), <1>1, <1>4, FeedQueue
<1>6. From(d)' = From(d)
  <2>1. d \in Device /\ sel[d].ind \in QueueIndex(d) /\ (d # n \/ sel[d].ind # i)
    BY <1>1, RouterDrains DEF Scanned
  <2> QED
    BY <1>5, <2>1 DEF From, Others
<1>7. RouterInv(d)'
  BY <1>3, <1>5, <1>6
<1>8. \A e \in Device : GuestRests(e)
  BY DEF GuestRests, guest
<1>9. ThreadsInv'
  BY <1>1, <1>5, <1>7, <1>8 DEF ThreadsInv
<1>10. ReceivedInv'
  <2>1. ReceivedInv /\ rcvd' = rcvd
    BY DEF IInv, guest
  <2> QED
    BY ONLY <2>1, ReceivedFrame
<1> QED
  BY <1>5, <1>9, <1>10, TypeSplit DEF IInv

LEMMA TargetFacts ==
    ASSUME IInv, NEW d \in Router, CanHop(d, sel[d].next)
    PROVE  /\ EvenQueue(At(Target(d)))
           /\ \A q : Set(Target(d), q) => hq' = [hq EXCEPT ![Target(d)[1]][Target(d)[2]] = q]
<1>1. Target(d)[1] \in Device /\ Target(d)[2] \in QueueIndex(Target(d)[1])
  BY RouterFeeds
<1>2. EvenQueue(At(Target(d)))
  BY <1>1, QueueFacts DEF At
<1> QED
  BY <1>2 DEF Set

LEMMA RouteHeaderStep ==
    ASSUME IInv, NEW d \in Device, RouteHeader(d)
    PROVE  IInv'
<1>1. RestTypes /\ RouteTypes /\ LimitTypes /\ RouterInv(d)
  BY TypeSplit DEF IInv, ThreadsInv
<1> DEFINE q == At(Target(d))
           h == HeadHeader(From(d))
           r == PutHeader(q, h)
<1>2. /\ rpc[d] = "header"
      /\ rpc' = [rpc EXCEPT ![d] = "payload"]
      /\ UNCHANGED <<conflag, localtime, guest, index, sel, exceeded, rtime, fptr, limits>>
  BY DEF RouteHeader
<1>3. /\ d \in Router /\ Selected(d) /\ index[d] = 1 /\ sel[d].ind \in Scanned(d)
      /\ CanHop(d, sel[d].next) /\ h \in Header
  BY <1>2, ServeFacts DEF Busy, Message, Good
<1>4. EvenQueue(q) /\ hq' = [hq EXCEPT ![Target(d)[1]][Target(d)[2]] = r]
  BY <1>3, TargetFacts DEF RouteHeader
<1>5. fptr[d] \in Even /\ From(d).entry[fptr[d]] \in Header
  BY <1>1, <1>2 DEF RouterInv
<1> HIDE DEF q, h
<1>6. EvenQueue(r) /\ KeepsHead(q, r) /\ KeepsHeaders(q, r) /\ TailHeader(r) = h
      /\ (Empty(r) <=> Empty(q))
  BY <1>3, <1>4, PutHeaderFacts
<1> HIDE DEF r
<1>7. \A e \in Device : e # d => RouterRests(e)
  BY <1>2 DEF RouterRests
<1>8. ASSUME At(Target(d))' = r, From(d)' = From(d) PROVE RouterInv(d)'
  <2>1. rpc'[d] = "payload" /\ sel'[d] = sel[d] /\ index'[d] = 1 /\ fptr'[d] = fptr[d]
    BY <1>1, <1>2, <1>3 DEF RouteTypes
  <2>2. Target(d)' = Target(d)
    BY <2>1 DEF Target, LinkOf, NeighborNum
  <2>3. Selected(d)' /\ HeadHeader(From(d))' = h
    <3>1. KeepsHead(From(d), From(d)')
      BY <1>8, KeepsItself
    <3> QED
      BY <1>3, <2>1, <3>1, SelectedKept DEF h
  <2>4. From(d)'.entry[fptr'[d]] \in Header
    BY <1>5, <1>8, <2>1
  <2> QED
    BY <1>3, <1>5, <1>6, <1>8, <2>1, <2>2, <2>3, <2>4
       DEF RouterInv, Router, Device, CanHop, NeighborSet, NeighborNum,
           Scanned, QueueIndex, LocalIn, LocalOut
<1>9. RestTypes' /\ RouteTypes' /\ LimitTypes'
  BY <1>1, <1>2 DEF RestTypes, RouteTypes, LimitTypes, guest, limits
<1>10. UNCHANGED <<guest, index, sel, fptr>>
  BY <1>2
<1>11. KeepsHead(At(Target(d)), r) /\ KeepsHeaders(At(Target(d)), r)
       /\ (Empty(r) <=> Empty(At(Target(d))))
  BY <1>6 DEF q
<1>12. At(Target(d))' = r /\ From(d)' = From(d) => RouterInv(d)'
  BY <1>8
<1> QED
  BY ONLY IInv, <1>3, <1>4, <1>6, <1>7, <1>9, <1>10, <1>11, <1>12, RouterPush

LEMMA RoutePayloadStep ==
    ASSUME IInv, NEW d \in Device, RoutePayload(d)
    PROVE  IInv'
<1>1. RestTypes /\ RouteTypes /\ LimitTypes /\ RouterInv(d)
  BY TypeSplit DEF IInv, ThreadsInv
<1> DEFINE q == At(Target(d))
           h == HeadHeader(From(d))
           p == HeadPayload(From(d))
           r == PutPayload(q, p)
<1>2. /\ rpc[d] = "payload"
      /\ ~NoPayloadEntry(q)
      /\ rpc' = [rpc EXCEPT ![d] = "release"]
      /\ UNCHANGED <<conflag, localtime, guest, index, sel, exceeded, rtime, fptr, limits>>
  BY DEF RoutePayload
<1>3. /\ d \in Router /\ Selected(d) /\ index[d] = 1 /\ sel[d].ind \in Scanned(d)
      /\ CanHop(d, sel[d].next)
      /\ Good(h) /\ Addressed(p, h.SenderID, h.ReceiverID) /\ p \in PayloadSet
      /\ IsRecvQueue(Target(d)[1], Target(d)[2]) => h.ReceiverID = Target(d)[1]
  BY <1>2, ServeFacts DEF Busy, Message, Addressed
<1>4. EvenQueue(q) /\ hq' = [hq EXCEPT ![Target(d)[1]][Target(d)[2]] = r]
  BY <1>3, TargetFacts DEF RoutePayload
<1>5. fptr[d] \in Even /\ From(d).entry[fptr[d]] \in Header /\ TailHeader(q) = h
  BY <1>1, <1>2 DEF RouterInv
<1>6. Message(Target(d)[1], Target(d)[2], h, p)
  BY <1>3 DEF Message
<1> HIDE DEF q, h, p
<1>7. EvenQueue(r) /\ KeepsHead(q, r) /\ KeepsHeaders(q, r) /\ TailHeader(r) = h
      /\ TailPayload(r) = p /\ Empty(r)
  BY <1>2, <1>3, <1>4, <1>5, PutPayloadFacts
<1> HIDE DEF r
<1>8. \A e \in Device : e # d => RouterRests(e)
  BY <1>2 DEF RouterRests
<1>9. ASSUME At(Target(d))' = r, From(d)' = From(d) PROVE RouterInv(d)'
  <2>1. rpc'[d] = "release" /\ sel'[d] = sel[d] /\ index'[d] = 1 /\ fptr'[d] = fptr[d]
    BY <1>1, <1>2, <1>3 DEF RouteTypes
  <2>2. Target(d)' = Target(d)
    BY <2>1 DEF Target, LinkOf, NeighborNum
  <2>3. Selected(d)'
    <3>1. KeepsHead(From(d), From(d)')
      BY <1>9, KeepsItself
    <3> QED
      BY <1>3, <2>1, <3>1, SelectedKept
  <2>4. From(d)'.entry[fptr'[d]] \in Header
    BY <1>5, <1>9, <2>1
  <2>5. Message(Target(d)[1], Target(d)[2], TailHeader(r), TailPayload(r))
    BY <1>6, <1>7
  <2> QED
    BY <1>3, <1>5, <1>7, <1>9, <2>1, <2>2, <2>3, <2>4, <2>5
       DEF RouterInv, Router, Device, CanHop, NeighborSet, NeighborNum,
           Scanned, QueueIndex, LocalIn, LocalOut
<1>10. RestTypes' /\ RouteTypes' /\ LimitTypes'
  BY <1>1, <1>2 DEF RestTypes, RouteTypes, LimitTypes, guest, limits
<1>11. UNCHANGED <<guest, index, sel, fptr>>
  BY <1>2
<1>12. KeepsHead(At(Target(d)), r) /\ KeepsHeaders(At(Target(d)), r)
  BY <1>7 DEF q
<1>13. At(Target(d))' = r /\ From(d)' = From(d) => RouterInv(d)'
  BY <1>9
<1> QED
  BY ONLY IInv, <1>3, <1>4, <1>7, <1>8, <1>10, <1>11, <1>12, <1>13, RouterPush

LEMMA RoutePublishStep ==
    ASSUME IInv, NEW d \in Device, RoutePublish(d)
    PROVE  IInv'
<1>1. RestTypes /\ RouteTypes /\ LimitTypes /\ RouterInv(d)
  BY TypeSplit DEF IInv, ThreadsInv
<1> DEFINE q == At(Target(d))
           h == q.entry[q.producer]
           r == Published(q)
<1>2. /\ rpc[d] = "publish"
      /\ rpc' = [rpc EXCEPT ![d] = "signal"]
      /\ arrival' = IF h.ReceiverID = sel[d].next
                    THEN [arrival EXCEPT ![h.SenderID] = Arrives(h)] ELSE arrival
      /\ UNCHANGED <<conflag, localtime, guest, index, sel, exceeded, rtime, fptr,
                     onehop, work, fails>>
  BY DEF RoutePublish
<1>3. /\ d \in Router /\ index[d] = 1 /\ sel[d].ind \in Scanned(d)
      /\ CanHop(d, sel[d].next) /\ Empty(q)
      /\ fptr[d] \in Even /\ From(d).entry[fptr[d]] \in Header
      /\ Message(Target(d)[1], Target(d)[2], TailHeader(q), TailPayload(q))
  BY <1>1, <1>2 DEF RouterInv
<1>4. EvenQueue(q) /\ hq' = [hq EXCEPT ![Target(d)[1]][Target(d)[2]] = r]
  BY <1>3, TargetFacts DEF RoutePublish
<1>5. h \in Header
  BY <1>3 DEF Message, Good, TailHeader
<1> HIDE DEF q
<1>6. /\ EvenQueue(r) /\ KeepsHead(q, r) /\ KeepsHeaders(q, r)
      /\ HeadHeader(r) = TailHeader(q) /\ HeadPayload(r) = TailPayload(q)
  BY <1>3, <1>4, PublishedFacts
<1> HIDE DEF r, h
<1>7. \A e \in Device : e # d => RouterRests(e)
  BY <1>2 DEF RouterRests
<1>8. ASSUME From(d)' = From(d) PROVE RouterInv(d)'
  <2>1. rpc'[d] = "signal" /\ sel'[d] = sel[d] /\ index'[d] = 1 /\ fptr'[d] = fptr[d]
    BY <1>1, <1>2, <1>3 DEF RouteTypes
  <2>2. From(d)'.entry[fptr'[d]] \in Header
    BY <1>3, <1>8, <2>1
  <2> QED
    BY <1>3, <2>1, <2>2
       DEF RouterInv, Router, Device, CanHop, NeighborSet, NeighborNum,
           Scanned, QueueIndex, LocalIn, LocalOut
<1>9. RestTypes' /\ RouteTypes'
  BY <1>1, <1>2 DEF RestTypes, RouteTypes, guest
<1>10. LimitTypes'
  <2>1. Arrives(h) \in Time
    BY <1>5, HeaderTimes
  <2>2. arrival' \in [Device -> Time]
    BY <1>1, <1>2, <2>1 DEF LimitTypes
  <2> QED
    BY <1>1, <1>2, <2>2 DEF LimitTypes
<1>11. UNCHANGED <<guest, index, sel, fptr>>
  BY <1>2
<1>12. KeepsHead(At(Target(d)), r) /\ KeepsHeaders(At(Target(d)), r)
  BY <1>6 DEF q
<1>13. At(Target(d))' = r /\ From(d)' = From(d) => RouterInv(d)'
  BY <1>8
<1>14. Message(Target(d)[1], Target(d)[2], HeadHeader(r), HeadPayload(r))
  BY <1>3, <1>6
<1> QED
  BY ONLY IInv, <1>3, <1>4, <1>6, <1>7, <1>9, <1>10, <1>11, <1>12, <1>13, <1>14, RouterPush

LEMMA RouteSignalStep ==
    ASSUME IInv, NEW d \in Device, RouteSignal(d)
    PROVE  IInv'
<1>1. RestTypes /\ RouteTypes /\ LimitTypes /\ RouterInv(d)
  BY TypeSplit DEF IInv, ThreadsInv
<1> DEFINE h == From(d).entry[fptr[d]]
           mine == sel[d].next = d
           last == h.ReceiverID = sel[d].next /\ DeviceType[sel[d].next] = "ZED"
           rt == IF mine THEN Plus(rtime[d], h.TransTime) ELSE rtime[d]
<1>2. /\ rpc[d] = "signal"
      /\ rtime' = [rtime EXCEPT ![d] = rt]
      /\ conflag' = IF mine \/ last
                    THEN [conflag EXCEPT ![h.SenderID] = [dataflag |-> 0, transtime |-> rt]]
                    ELSE conflag
      /\ rpc' = [rpc EXCEPT ![d] = "idle"]
      /\ sel' = [sel EXCEPT ![d] = NoPacket]
      /\ exceeded' = [exceeded EXCEPT ![d] = {}]
      /\ fptr' = [fptr EXCEPT ![d] = 0]
      /\ UNCHANGED <<hq, localtime, guest, index, limits>>
  BY DEF RouteSignal
<1>3. d \in Router /\ index[d] = 1 /\ h \in Header
  BY <1>1, <1>2 DEF RouterInv
<1>4. rt \in Time /\ rtime[d] \in Time
  BY <1>1, <1>3, HeaderTimes, TimeFacts DEF RouteTypes
<1> HIDE DEF h, mine, last, rt
<1>5. RouterInv(d)'
  <2>1. rpc'[d] = "idle" /\ sel'[d] = NoPacket /\ index'[d] = 1
    BY <1>1, <1>2, <1>3 DEF RouteTypes
  <2> QED
    BY <1>3, <2>1, RouterIdles
<1>6. \A e \in Device : e # d => RouterRests(e)
  BY <1>2 DEF RouterRests
<1>7. RestTypes' /\ LimitTypes'
  <2>1. conflag' \in [Device -> [dataflag : {0, 44, 77}, transtime : Time]]
    BY <1>1, <1>2, <1>4 DEF RestTypes
  <2> QED
    BY <1>1, <1>2, <2>1 DEF RestTypes, LimitTypes, guest, limits
<1>8. RouteTypes'
  <2>1. sel' \in [Device -> SelType]
    BY <1>1, <1>2, NoPacketType DEF RouteTypes, SelType
  <2>2. 0 \in Index
    BY DEF Index, HEADER_QUEUE_ENTRY_NUM
  <2> QED
    BY <1>1, <1>2, <1>4, <2>1, <2>2 DEF RouteTypes, SelType
<1> QED
  BY <1>2, <1>5, <1>6, <1>7, <1>8, RouterLocalStep DEF guest
---------------------------------------------------------------------------
(* The invariant holds at first, and every step keeps it. *)

LEMMA InitIInv == Init => IInv
<1> SUFFICES ASSUME Init PROVE IInv
  OBVIOUS
<1> DEFINE q == ResetQueue([j \in Index |-> Blank])
<1>1. q = [producer |-> 0, consumer |-> 0, entry |-> [j \in Index |-> Blank]]
  BY DEF ResetQueue
<1>2. 0 \in Index /\ 0 \in Even /\ Blank \in Entry
  BY DEF Index, HEADER_QUEUE_ENTRY_NUM, Even, Entry
<1> HIDE DEF q
<1>3. EvenQueue(q) /\ Empty(q)
  BY <1>1, <1>2 DEF EvenQueue, Queue, Empty
<1>4. hq = [d \in Device |-> [i \in QueueIndex(d) |-> q]]
  BY DEF Init, q
<1>5. QueueTypes
  BY <1>3, <1>4 DEF QueueTypes, EvenQueue
<1>6. \A d \in Device : \A i \in QueueIndex(d) : hq[d][i] = q
  BY <1>4
<1>7. QueuesOK
  BY <1>3, <1>6 DEF QueuesOK, QueueOK, EvenQueue
<1>8. RestTypes
  BY <1>2, TimeFacts DEF Init, RestTypes
<1>9. RouteTypes
  BY <1>2, TimeFacts, NoPacketType DEF Init, RouteTypes, SelType, NODE_MAX_LINKS
<1>10. LimitTypes
  BY TimeFacts, TimeAssumption DEF Init, LimitTypes
<1>11. ReceivedInv
  BY DEF Init, ReceivedInv
<1>12. ASSUME NEW d \in Device PROVE GuestInv(d) /\ RouterInv(d)
  <2>1. apc[d] = "run"
    BY DEF Init
  <2>2. rpc[d] = (IF d \in Router THEN "idle" ELSE "none") /\ sel[d] = NoPacket /\ index[d] = 1
    BY DEF Init
  <2>3. d \in Router => 1 \in 1 .. SearchNum(d)
    BY NeighborFacts DEF SearchNum
  <2> QED
    BY <2>1, <2>2, <2>3 DEF GuestInv, RouterInv
<1> QED
  BY <1>5, <1>7, <1>8, <1>9, <1>10, <1>11, <1>12, TypeSplit DEF IInv, ThreadsInv

LEMMA NextIInv == IInv /\ [Next]_vars => IInv'
<1> SUFFICES ASSUME IInv, [Next]_vars PROVE IInv'
  OBVIOUS
<1>1. CASE UNCHANGED vars
  <2>1. TypeOK'
    BY <1>1 DEF IInv, TypeOK, vars, shared, guest, routing, limits
  <2>2. RestTypes' /\ RouteTypes' /\ LimitTypes'
    BY <2>1, TypeSplit
  <2>3. 1 \in Device
    BY TopologyAssumption DEF Device
  <2>4. UNCHANGED <<hq, rcvd, apc, ip, hdr, hptr>>
    BY <1>1 DEF vars, shared, guest
  <2>5. \A e \in Device : RouterRests(e)
    BY <1>1 DEF RouterRests, vars, routing
  <2>6. RouterInv(1)'
    BY <2>3, <2>4, <2>5, NoQueueFrame DEF IInv
  <2> QED
    BY <2>2, <2>3, <2>4, <2>5, <2>6, RouterLocalStep
<1>2. ASSUME NEW d \in Device, Execute(d) \/ Guest(d) PROVE IInv'
  BY <1>2, ExecuteStep, SendNothingStep, PostStep, PostFailStep, CopyHeaderStep,
     CopyPayloadStep, PublishStep, SendReturnsStep, RecvBeginsStep, GetMessageStep,
     RecvReturnsStep, ExitStep DEF Guest
<1>3. ASSUME NEW d \in Device, Routing(d) PROVE IInv'
  BY <1>3, IdleStep, WakeStep, SelectStep, WaitOthersStep, DeliverStep, ForwardStep,
     ForwardFailStep, RouteHeaderStep, RoutePayloadStep, RouteReleaseStep,
     RoutePublishStep, RouteSignalStep DEF Routing
<1> QED
  BY <1>1, <1>2, <1>3 DEF Next
---------------------------------------------------------------------------
(* The theorems. *)

\* The inductive invariant: packets stay whole and on their way in every queue
\* and in every thread of send_recv.c and route_processor.c.
THEOREM Invariant == Spec => []IInv
BY InitIInv, NextIInv, PTL DEF Spec

\* For every topology, program and latency each variable of the network keeps
\* its type: the entry that m2m_get_local_msg reads again after it has released
\* it (send_recv.c:471 and 516-519) and the one whose SenderID a routing thread
\* signals (route_processor.c:494 and 607) hold headers whatever was written
\* there since, and every next hop and queue index a thread uses exists.
THEOREM TypeCorrect == Spec => []TypeOK
<1>1. IInv => TypeOK
  BY DEF IInv
<1> QED
  BY <1>1, Invariant, PTL

\* For every topology whose routes end at their receivers, a guest receives
\* nothing but whole payloads of Network_Send calls to it (send_recv.c:447-466),
\* over any number of hops.
THEOREM PayloadsAreOwn == Spec => []ReceivesOwnPayloads
<1>1. IInv => ReceivesOwnPayloads
  BY DEF IInv, ReceivedInv, Addressed, ReceivesOwnPayloads, Host
<1> QED
  BY <1>1, Invariant, PTL
---------------------------------------------------------------------------
(* The ways of the packets. *)

LEMMA RouteStarts ==
    ASSUME NEW s \in Device, NEW r
    PROVE  s \in OnRoute(s, r)
BY DEF OnRoute

LEMMA RouteGoesOn ==
    ASSUME NEW s \in Host, NEW r \in Host, NEW d \in OnRoute(s, r), d # r
    PROVE  NextHop[d][r] \in OnRoute(s, r)
<1>1. d \in Device /\ r \in Device
  BY DEF OnRoute, Host
<1>2. NextHop[d][r] \in Device
  BY <1>1, TopologyAssumption
<1> SUFFICES ASSUME NEW D \in SUBSET Device, s \in D, \A e \in D \ {r} : NextHop[e][r] \in D
             PROVE  NextHop[d][r] \in D
  BY <1>2 DEF OnRoute
<1>3. d \in D
  BY DEF OnRoute
<1> QED
  BY <1>3
---------------------------------------------------------------------------
(* The places of the packets on their way. *)

\* What the guest s sends.
Receiver(s) == Program[s][ip[s]].to
Posted(s) == /\ s \in Host
             /\ ip[s] \in 1 .. Len(Program[s])
             /\ Program[s][ip[s]].op = "send"
             /\ Receiver(s) \in Host
             /\ Receiver(s) # s

Waits(s) == apc[s] = "signal" /\ conflag[s].dataflag = 77

\* The routing thread of d brings its packet to a guest.
Final(d) == sel[d].next = d \/ DeviceType[sel[d].next] = "ZED"

\* The routing thread of d has released the entries of a packet that it has yet to
\* publish, or whose sender it has yet to signal.
Held(d) == rpc[d] = "publish" \/ (rpc[d] = "signal" /\ Final(d))
HeldHeader(d) == From(d).entry[fptr[d]]

\* The places: the routing thread of n, and the queues that it scans.
Slot == 0 .. 10
PacketAt(n, i) == IF i = 0 THEN Held(n) ELSE i \in Scanned(n) /\ ~Empty(hq[n][i])
HeaderAt(n, i) == IF i = 0 THEN HeldHeader(n) ELSE HeadHeader(hq[n][i])
SenderAt(n, i) == HeaderAt(n, i).SenderID
\* The queue it came through.
LinkAt(n, i) == IF i = 0 THEN sel[n].ind ELSE i

\* A packet from s to r may come through queue i of n.
Linked(n, i, s, r) ==
    /\ n \in OnRoute(s, r)
    /\ FedByGuest(n, i) => Feeder(n, i) = s
    /\ ~FedByGuest(n, i) => s \in LinkUsers(Feeder(n, i), n)

Traveller(n, i) ==
    LET s == SenderAt(n, i) IN
    /\ s \in Host
    /\ Waits(s)
    /\ HeaderAt(n, i).ReceiverID = Receiver(s)
    /\ Linked(n, LinkAt(n, i), s, Receiver(s))
    /\ i # 0 => HeadPayload(hq[n][i]) = Payload(s, ip[s])

\* Every packet is of a sender that waits for it,
TravelInv == \A n \in Router, i \in Slot : PacketAt(n, i) => Traveller(n, i)

\* no two are of the same sender,
UniqueInv == \A n, m \in Router, i, j \in Slot :
    PacketAt(n, i) /\ PacketAt(m, j) /\ SenderAt(n, i) = SenderAt(m, j) => n = m /\ i = j

\* and every sender that waits has one.
ServedInv == \A s \in Host : Waits(s) =>
    \E n \in Router, i \in Slot : PacketAt(n, i) /\ SenderAt(n, i) = s

\* What the guest s has copied.
SenderInv(s) ==
    /\ apc[s] \in {"header", "payload", "publish", "signal"} => Posted(s)
    /\ apc[s] \in {"header", "payload"} =>
           hdr[s].SenderID = s /\ hdr[s].ReceiverID = Receiver(s)
    /\ apc[s] = "publish" =>
           LET q == At(SendQueue(s)) IN
           /\ conflag[s].dataflag = 77
           /\ TailHeader(q).SenderID = s
           /\ TailHeader(q).ReceiverID = Receiver(s)
           /\ TailPayload(q) = Payload(s, ip[s])

\* What the routing thread of d has copied, and that the header in the entry it
\* has released is still the one of its packet.
CarrierInv(d) ==
    /\ rpc[d] \in {"header", "payload", "release"} => fptr[d] = From(d).consumer
    /\ rpc[d] = "release" =>
           /\ TailHeader(At(Target(d))) = HeadHeader(From(d))
           /\ TailPayload(At(Target(d))) = HeadPayload(From(d))
    /\ Held(d) => From(d).consumer # fptr[d] /\ sel[d].next = Hop(d, HeldHeader(d).ReceiverID)
    /\ rpc[d] = "publish" =>
           LET s == HeldHeader(d).SenderID IN
           /\ TailHeader(At(Target(d))) = HeldHeader(d)
           /\ TailPayload(At(Target(d))) = Payload(s, ip[s])

\* The payload p has reached r.
InInbox(r, p) == \/ \E k \in 1 .. Len(rcvd[r]) : rcvd[r][k] = p
                 \/ ~Empty(At(RecvQueue(r))) /\ HeadPayload(At(RecvQueue(r))) = p

\* The payload that s sends has reached its receiver.
Delivered(s) == /\ apc[s] = "signal"
                /\ \/ conflag[s].dataflag = 0
                   \/ \E d \in Router : /\ rpc[d] = "signal" /\ Final(d)
                                        /\ HeldHeader(d).SenderID = s

\* What has arrived: no payload of a later call, and that of the current call
\* if and only if it is delivered.
InboxInv ==
    /\ \A r, s \in Host : \A k \in Nat :
           InInbox(r, Payload(s, k)) => k <= ip[s] /\ (k = ip[s] => Delivered(s))
    /\ \A s \in Host : Delivered(s) => InInbox(Receiver(s), Payload(s, ip[s]))

ServiceInv == /\ TravelInv
              /\ UniqueInv
              /\ ServedInv
              /\ \A s \in Device : SenderInv(s)
              /\ \A d \in Router : CarrierInv(d)
              /\ InboxInv
---------------------------------------------------------------------------
(* How the places change in a step. *)

\* The packet at place i of n, if any, is there before and after the step.
Stays(n, i) ==
    /\ PacketAt(n, i)' <=> PacketAt(n, i)
    /\ PacketAt(n, i) => /\ SenderAt(n, i)' = SenderAt(n, i)
                         /\ (HeaderAt(n, i).ReceiverID)' = HeaderAt(n, i).ReceiverID
                         /\ LinkAt(n, i)' = LinkAt(n, i)
                         /\ i # 0 => HeadPayload(hq'[n][i]) = HeadPayload(hq[n][i])

\* The sender s waits, or does not wait, for the same call.
WaitsOn(s) == (Waits(s)' <=> Waits(s)) /\ (Waits(s) => ip'[s] = ip[s])

LEMMA TravellerStays ==
    ASSUME NEW n \in Router, NEW i \in Slot, PacketAt(n, i), Traveller(n, i), Stays(n, i),
           WaitsOn(SenderAt(n, i))
    PROVE  Traveller(n, i)'
<1> DEFINE s == SenderAt(n, i)
<1>1. SenderAt(n, i)' = s /\ Waits(s)' /\ Receiver(s)' = Receiver(s)
  BY DEF Stays, WaitsOn, Traveller, Receiver
<1>2. Payload(s, ip[s])' = Payload(s, ip[s])
  BY <1>1 DEF WaitsOn, Traveller, Payload, Stays
<1>3. Linked(n, LinkAt(n, i), s, Receiver(s))' <=> Linked(n, LinkAt(n, i), s, Receiver(s))
  <2>1. s' = s /\ LinkAt(n, i)' = LinkAt(n, i) /\ Receiver(s)' = Receiver(s)
    BY <1>1 DEF Stays, Receiver
  <2>2. \A x, j, y, z : Linked(x, j, y, z)' <=> Linked(x, j, y, z)
    BY DEF Linked, FedByGuest, Feeder, OnRoute, LinkUsers, SendsTo, Host
  <2> QED
    BY ONLY <2>1, <2>2
<1> HIDE DEF s
<1> QED
  BY <1>1, <1>2, <1>3 DEF Traveller, Stays, s

LEMMA PlacesStay ==
    ASSUME TravelInv, UniqueInv, ServedInv,
           \A n \in Router, i \in Slot : Stays(n, i), \A s \in Host : WaitsOn(s)
    PROVE  TravelInv' /\ UniqueInv' /\ ServedInv'
<1>1. TravelInv'
  <2> SUFFICES ASSUME NEW n \in Router, NEW i \in Slot, PacketAt(n, i)'
               PROVE  Traveller(n, i)'
    BY DEF TravelInv, Router, Slot
  <2>1. PacketAt(n, i) /\ Traveller(n, i) /\ SenderAt(n, i) \in Host
    BY DEF TravelInv, Stays, Traveller
  <2> QED
    BY <2>1, TravellerStays
<1>2. UniqueInv'
  BY DEF UniqueInv, Stays, Router, Slot
<1>3. ServedInv'
  BY DEF ServedInv, Stays, WaitsOn, Host, Router, Slot
<1> QED
  BY <1>1, <1>2, <1>3

OthersStay(n, i) == \A m \in Router, j \in Slot : m # n \/ j # i => Stays(m, j)

LEMMA PacketEnds ==
    ASSUME TravelInv, UniqueInv, ServedInv, NEW n \in Router, NEW i \in Slot,
           PacketAt(n, i), ~PacketAt(n, i)', OthersStay(n, i),
           \A s \in Host : IF s = SenderAt(n, i) THEN ~Waits(s)' ELSE WaitsOn(s)
    PROVE  TravelInv' /\ UniqueInv' /\ ServedInv'
<1>1. \A m \in Router, j \in Slot : PacketAt(m, j)' =>
        /\ PacketAt(m, j) /\ Traveller(m, j) /\ Stays(m, j)
        /\ SenderAt(m, j) # SenderAt(n, i) /\ SenderAt(m, j) \in Host
        /\ SenderAt(m, j)' = SenderAt(m, j)
  BY DEF TravelInv, UniqueInv, Traveller, Stays, OthersStay
<1>2. TravelInv'
  BY <1>1, TravellerStays DEF TravelInv, Router, Slot
<1>3. UniqueInv'
  BY <1>1 DEF UniqueInv, Router, Slot
<1>4. ServedInv'
  <2> SUFFICES ASSUME NEW s \in Host, Waits(s)'
               PROVE  \E m \in Router, j \in Slot : PacketAt(m, j)' /\ SenderAt(m, j)' = s
    BY DEF ServedInv, Host, Router, Slot
  <2>1. s # SenderAt(n, i) /\ Waits(s)
    BY DEF WaitsOn
  <2>2. PICK m \in Router, j \in Slot : PacketAt(m, j) /\ SenderAt(m, j) = s
    BY <2>1 DEF ServedInv
  <2>3. m # n \/ j # i
    BY <2>1, <2>2
  <2> QED
    BY <2>2, <2>3 DEF OthersStay, Stays
<1> QED
  BY <1>2, <1>3, <1>4

LEMMA PacketStarts ==
    ASSUME TravelInv, UniqueInv, ServedInv, NEW n \in Router, NEW i \in Slot,
           ~PacketAt(n, i), PacketAt(n, i)', Traveller(n, i)', OthersStay(n, i),
           ~Waits(SenderAt(n, i)'),
           \A s \in Host : s # SenderAt(n, i)' => WaitsOn(s)
    PROVE  TravelInv' /\ UniqueInv' /\ ServedInv'
<1>1. \A m \in Router, j \in Slot : (m # n \/ j # i) /\ PacketAt(m, j)' =>
        /\ PacketAt(m, j) /\ Traveller(m, j) /\ Stays(m, j)
        /\ SenderAt(m, j) # SenderAt(n, i)' /\ SenderAt(m, j) \in Host
        /\ SenderAt(m, j)' = SenderAt(m, j)
  BY DEF TravelInv, Traveller, Stays, OthersStay
<1>2. TravelInv'
  BY <1>1, TravellerStays DEF TravelInv, Router, Slot
<1>3. UniqueInv'
  BY <1>1 DEF UniqueInv, Router, Slot
<1>4. ServedInv'
  <2> SUFFICES ASSUME NEW s \in Host, Waits(s)'
               PROVE  \E m \in Router, j \in Slot : PacketAt(m, j)' /\ SenderAt(m, j)' = s
    BY DEF ServedInv, Host, Router, Slot
  <2>1. CASE s = SenderAt(n, i)'
    BY <2>1
  <2>2. CASE s # SenderAt(n, i)'
    <3>1. PICK m \in Router, j \in Slot : PacketAt(m, j) /\ SenderAt(m, j) = s
      BY <2>2 DEF ServedInv, WaitsOn
    <3> QED
      BY <3>1 DEF OthersStay, Stays
  <2> QED
    BY <2>1, <2>2
<1> QED
  BY <1>2, <1>3, <1>4

LEMMA PacketMoves ==
    ASSUME TravelInv, UniqueInv, ServedInv, NEW n \in Router, NEW i \in Slot,
           NEW m \in Router, NEW j \in Slot,
           PacketAt(n, i), ~PacketAt(n, i)', ~PacketAt(m, j), PacketAt(m, j)', Traveller(m, j)',
           SenderAt(m, j)' = SenderAt(n, i),
           \A o \in Router, k \in Slot : (o # n \/ k # i) /\ (o # m \/ k # j) => Stays(o, k),
           \A s \in Host : WaitsOn(s)
    PROVE  TravelInv' /\ UniqueInv' /\ ServedInv'
<1>1. \A o \in Router, k \in Slot : (o # m \/ k # j) /\ PacketAt(o, k)' =>
        /\ PacketAt(o, k) /\ Traveller(o, k) /\ Stays(o, k)
        /\ SenderAt(o, k) # SenderAt(n, i) /\ SenderAt(o, k) \in Host
        /\ SenderAt(o, k)' = SenderAt(o, k)
  BY DEF TravelInv, UniqueInv, Traveller, Stays
<1>2. TravelInv'
  BY <1>1, TravellerStays DEF TravelInv, Router, Slot
<1>3. UniqueInv'
  BY <1>1 DEF UniqueInv, Router, Slot
<1>4. ServedInv'
  <2> SUFFICES ASSUME NEW s \in Host, Waits(s)'
               PROVE  \E o \in Router, k \in Slot : PacketAt(o, k)' /\ SenderAt(o, k)' = s
    BY DEF ServedInv, Host, Router, Slot
  <2>1. CASE s = SenderAt(n, i)
    BY <2>1
  <2>2. CASE s # SenderAt(n, i)
    <3>1. PICK o \in Router, k \in Slot : PacketAt(o, k) /\ SenderAt(o, k) = s
      BY DEF ServedInv, WaitsOn
    <3>2. (o # n \/ k # i) /\ (o # m \/ k # j)
      BY <2>2, <3>1
    <3> QED
      BY <3>1, <3>2 DEF Stays
  <2> QED
    BY <2>1, <2>2
<1> QED
  BY <1>2, <1>3, <1>4

\* A queue that does not change, or that is fed and not published.
LEMMA QueueStays ==
    ASSUME NEW n \in Router, NEW i \in Slot, i # 0,
           i \in Scanned(n) => \/ hq'[n][i] = hq[n][i]
                               \/ /\ KeepsHead(hq[n][i], hq'[n][i])
                                  /\ Empty(hq'[n][i]) <=> Empty(hq[n][i])
    PROVE  Stays(n, i)
<1>1. i \in Scanned(n)' <=> i \in Scanned(n)
  BY DEF Scanned, QueueIndex, NeighborNum
<1>2. PacketAt(n, i)' <=> PacketAt(n, i)
  BY <1>1 DEF PacketAt
<1>3. ASSUME PacketAt(n, i)
      PROVE  /\ HeadHeader(hq[n][i])' = HeadHeader(hq[n][i])
             /\ HeadPayload(hq[n][i])' = HeadPayload(hq[n][i])
  BY <1>3 DEF PacketAt, KeepsHead
<1> QED
  BY <1>2, <1>3 DEF Stays, SenderAt, HeaderAt, LinkAt

\* A routing thread that rests while nobody writes over what it holds.
LEMMA HolderStays ==
    ASSUME NEW n \in Router, RouterRests(n), Held(n) => HeldHeader(n)' = HeldHeader(n)
    PROVE  Stays(n, 0)
<1>1. Held(n)' <=> Held(n)
  BY DEF Held, Final, RouterRests
<1> QED
  BY <1>1 DEF Stays, PacketAt, SenderAt, HeaderAt, LinkAt, RouterRests

LEMMA RestingStays ==
    ASSUME NEW n \in Router, ~Held(n), ~Held(n)'
    PROVE  Stays(n, 0)
BY DEF Stays, PacketAt
---------------------------------------------------------------------------
(* What the threads that rest rely on. *)

HeadKept(n, i) == KeepsHead(hq[n][i], hq'[n][i]) /\ hq'[n][i].consumer = hq[n][i].consumer
TailKept(n, i) == KeepsTail(hq[n][i], hq'[n][i])

LEMMA SenderKept ==
    ASSUME NEW s \in Device, SenderInv(s), GuestRests(s),
           apc[s] = "publish" => conflag'[s].dataflag = conflag[s].dataflag,
           s \in Host => TailKept(SendQueue(s)[1], SendQueue(s)[2])
    PROVE  SenderInv(s)'
<1>1. /\ Receiver(s)' = Receiver(s)
      /\ Payload(s, ip[s])' = Payload(s, ip[s])
      /\ Posted(s)' <=> Posted(s)
  BY DEF GuestRests, Receiver, Payload, Posted, Host
<1>2. ASSUME s \in Host
      PROVE  /\ TailHeader(At(SendQueue(s)))' = TailHeader(At(SendQueue(s)))
             /\ TailPayload(At(SendQueue(s)))' = TailPayload(At(SendQueue(s)))
  <2>1. SendQueue(s)' = SendQueue(s)
    BY DEF SendQueue, LinkOf, NeighborNum
  <2> QED
    BY <1>2, <2>1 DEF TailKept, KeepsTail, At
<1>3. apc'[s] \in {"header", "payload", "publish", "signal"} => Posted(s)'
  BY <1>1 DEF SenderInv, GuestRests
<1>4. apc'[s] \in {"header", "payload"} =>
         hdr'[s].SenderID = s /\ hdr'[s].ReceiverID = Receiver(s)'
  BY <1>1 DEF SenderInv, GuestRests
<1>5. ASSUME apc'[s] = "publish"
      PROVE  /\ conflag'[s].dataflag = 77
             /\ TailHeader(At(SendQueue(s)))'.SenderID = s
             /\ TailHeader(At(SendQueue(s)))'.ReceiverID = Receiver(s)'
             /\ TailPayload(At(SendQueue(s)))' = Payload(s, ip[s])'
  <2>1. apc[s] = "publish" /\ s \in Host
    BY <1>5 DEF GuestRests, SenderInv, Posted
  <2> QED
    BY <1>1, <1>2, <2>1 DEF SenderInv
<1> QED
  BY <1>3, <1>4, <1>5 DEF SenderInv

LEMMA CarrierKept ==
    ASSUME NEW d \in Router, RouterInv(d), CarrierInv(d), RouterRests(d),
           sel[d].ind \in Scanned(d) => HeadKept(d, sel[d].ind),
           CanHop(d, sel[d].next) => TailKept(Target(d)[1], Target(d)[2]),
           Held(d) => HeldHeader(d)' = HeldHeader(d),
           rpc[d] = "publish" =>
               ip'[HeldHeader(d).SenderID] = ip[HeldHeader(d).SenderID]
    PROVE  CarrierInv(d)'
<1>1. /\ rpc'[d] = rpc[d] /\ sel'[d] = sel[d] /\ fptr'[d] = fptr[d]
      /\ Target(d)' = Target(d)
      /\ Held(d)' <=> Held(d)
  BY DEF RouterRests, Target, LinkOf, NeighborNum, Held, Final
<1>2. ASSUME rpc[d] \in {"header", "payload", "release", "publish", "signal"}
      PROVE  /\ CanHop(d, sel[d].next) /\ sel[d].ind \in Scanned(d)
             /\ From(d)'.consumer = From(d).consumer
             /\ KeepsHead(From(d), From(d)')
             /\ TailHeader(At(Target(d)))' = TailHeader(At(Target(d)))
             /\ TailPayload(At(Target(d)))' = TailPayload(At(Target(d)))
  <2>1. CanHop(d, sel[d].next) /\ sel[d].ind \in Scanned(d)
    BY <1>2 DEF RouterInv
  <2>2. From(d)' = hq'[d][sel[d].ind] /\ From(d) = hq[d][sel[d].ind]
    BY <1>1 DEF From
  <2>3. At(Target(d))' = hq'[Target(d)[1]][Target(d)[2]]
    BY <1>1 DEF At
  <2> QED
    BY <2>1, <2>2, <2>3 DEF HeadKept, TailKept, KeepsTail, At
<1>3. rpc[d] \in {"header", "payload", "release"} => fptr'[d] = From(d)'.consumer
  BY <1>1, <1>2 DEF CarrierInv
<1>4. ASSUME rpc[d] = "release"
      PROVE  /\ TailHeader(At(Target(d)))' = HeadHeader(From(d))'
             /\ TailPayload(At(Target(d)))' = HeadPayload(From(d))'
  <2>1. ~Empty(From(d))
    BY <1>4 DEF RouterInv, Selected
  <2> QED
    BY <1>2, <1>4, <2>1 DEF CarrierInv, KeepsHead
<1>5. ASSUME Held(d)
      PROVE  From(d)'.consumer # fptr'[d] /\ sel'[d].next = Hop(d, HeldHeader(d).ReceiverID)'
  <2>1. rpc[d] \in {"publish", "signal"}
    BY <1>5 DEF Held
  <2>2. Hop(d, HeldHeader(d).ReceiverID)' = Hop(d, HeldHeader(d).ReceiverID)
    BY <1>5 DEF Hop
  <2> QED
    BY <1>1, <1>2, <1>5, <2>1, <2>2 DEF CarrierInv
<1>6. ASSUME rpc[d] = "publish"
      PROVE  LET s == HeldHeader(d)'.SenderID IN
             /\ TailHeader(At(Target(d)))' = HeldHeader(d)'
             /\ TailPayload(At(Target(d)))' = Payload(s, ip'[s])
  BY <1>2, <1>6 DEF CarrierInv, Held
<1>7. Payload(HeldHeader(d)'.SenderID, ip'[HeldHeader(d)'.SenderID]) =
         Payload(HeldHeader(d).SenderID, ip[HeldHeader(d).SenderID])'
  BY DEF Payload
<1> QED
  BY <1>1, <1>3, <1>4, <1>5, <1>6, <1>7 DEF CarrierInv

\* Whom a step leaves alone: a guest, a routing thread with what it holds.
SenderRests(s) ==
    GuestRests(s) /\ (apc[s] = "publish" => conflag'[s].dataflag = conflag[s].dataflag)
CarrierRests(d) ==
    /\ RouterRests(d)
    /\ Held(d) => HeldHeader(d)' = HeldHeader(d)
    /\ rpc[d] = "publish" => ip'[HeldHeader(d).SenderID] = ip[HeldHeader(d).SenderID]

LEMMA FeedServices ==
    ASSUME IInv, ServiceInv, NEW n \in Device, NEW i \in QueueIndex(n), Others(n, i),
           HeadKept(n, i)
    PROVE  /\ \A s \in Device : SenderRests(s) /\ ~(FedByGuest(n, i) /\ Feeder(n, i) = s) =>
                                   SenderInv(s)'
           /\ \A d \in Router : CarrierRests(d) /\ (FedByGuest(n, i) \/ Feeder(n, i) # d) =>
                                   CarrierInv(d)'
<1>1. \A m \in Device : \A j \in QueueIndex(m) :
         HeadKept(m, j) /\ (m # n \/ j # i => TailKept(m, j))
  BY KeepsItself DEF Others, HeadKept, TailKept
<1>2. ASSUME NEW s \in Device, SenderRests(s), ~(FedByGuest(n, i) /\ Feeder(n, i) = s)
      PROVE  SenderInv(s)'
  <2>1. ASSUME s \in Host PROVE TailKept(SendQueue(s)[1], SendQueue(s)[2])
    <3> DEFINE m == SendQueue(s)[1]
               j == SendQueue(s)[2]
    <3>1. m \in Device /\ j \in QueueIndex(m) /\ FedByGuest(m, j) /\ Feeder(m, j) = s
      BY <2>1, GuestFeeds
    <3> HIDE DEF m, j
    <3>2. m # n \/ j # i
      BY <1>2, <3>1
    <3>3. TailKept(m, j)
      BY <1>1, <3>1, <3>2
    <3> QED
      BY <3>3 DEF m, j
  <2> QED
    BY <1>2, <2>1, SenderKept DEF ServiceInv, SenderRests
<1>3. ASSUME NEW d \in Router, CarrierRests(d), FedByGuest(n, i) \/ Feeder(n, i) # d
      PROVE  CarrierInv(d)'
  <2>1. ASSUME CanHop(d, sel[d].next) PROVE TailKept(Target(d)[1], Target(d)[2])
    <3> DEFINE m == Target(d)[1]
               j == Target(d)[2]
    <3>1. m \in Device /\ j \in QueueIndex(m) /\ ~FedByGuest(m, j) /\ Feeder(m, j) = d
      BY <2>1, RouterFeeds
    <3> HIDE DEF m, j
    <3>2. m # n \/ j # i
      BY <1>3, <3>1
    <3>3. TailKept(m, j)
      BY <1>1, <3>1, <3>2
    <3> QED
      BY <3>3 DEF m, j
  <2>2. sel[d].ind \in Scanned(d) => HeadKept(d, sel[d].ind)
    BY <1>1, RouterDrains
  <2>3. RouterInv(d) /\ CarrierInv(d)
    BY DEF IInv, ThreadsInv, ServiceInv, Router
  <2> QED
    BY <1>3, <2>1, <2>2, <2>3, CarrierKept DEF CarrierRests
<1> QED
  BY <1>2, <1>3

LEMMA DrainServices ==
    ASSUME IInv, ServiceInv, NEW n \in Device, NEW i \in QueueIndex(n), Others(n, i),
           TailKept(n, i)
    PROVE  /\ \A s \in Device : SenderRests(s) => SenderInv(s)'
           /\ \A d \in Router : CarrierRests(d) /\ (IsRecvQueue(n, i) \/ d # n) => CarrierInv(d)'
<1>1. \A m \in Device : \A j \in QueueIndex(m) :
         TailKept(m, j) /\ (m # n \/ j # i => HeadKept(m, j))
  BY KeepsItself DEF Others, HeadKept, TailKept
<1>2. ASSUME NEW s \in Device, SenderRests(s)
      PROVE  SenderInv(s)'
  <2>1. s \in Host => TailKept(SendQueue(s)[1], SendQueue(s)[2])
    BY <1>1, GuestFeeds
  <2> QED
    BY <1>2, <2>1, SenderKept DEF ServiceInv, SenderRests
<1>3. ASSUME NEW d \in Router, CarrierRests(d), IsRecvQueue(n, i) \/ d # n
      PROVE  CarrierInv(d)'
  <2>1. CanHop(d, sel[d].next) => TailKept(Target(d)[1], Target(d)[2])
    BY <1>1, RouterFeeds
  <2>2. ASSUME sel[d].ind \in Scanned(d) PROVE HeadKept(d, sel[d].ind)
    <3>1. d \in Device /\ sel[d].ind \in QueueIndex(d) /\ ~IsRecvQueue(d, sel[d].ind)
      BY <2>2, RouterDrains
    <3>2. d # n \/ sel[d].ind # i
      BY <1>3, <3>1
    <3> QED
      BY <1>1, <3>1, <3>2
  <2>3. RouterInv(d) /\ CarrierInv(d)
    BY DEF IInv, ThreadsInv, ServiceInv, Router
  <2> QED
    BY <1>3, <2>1, <2>2, <2>3, CarrierKept DEF CarrierRests
<1> QED
  BY <1>2, <1>3

\* No queue changes.
LEMMA StillServices ==
    ASSUME IInv, ServiceInv, hq' = hq
    PROVE  /\ \A s \in Device : SenderRests(s) => SenderInv(s)'
           /\ \A d \in Router : CarrierRests(d) => CarrierInv(d)'
<1>1. \A m, j : HeadKept(m, j) /\ TailKept(m, j)
  BY KeepsItself DEF HeadKept, TailKept
<1>2. ASSUME NEW s \in Device, SenderRests(s)
      PROVE  SenderInv(s)'
  BY <1>1, <1>2, SenderKept DEF ServiceInv, SenderRests
<1>3. ASSUME NEW d \in Router, CarrierRests(d)
      PROVE  CarrierInv(d)'
  <2>1. RouterInv(d) /\ CarrierInv(d)
    BY DEF IInv, ThreadsInv, ServiceInv, Router
  <2> QED
    BY <1>1, <1>3, <2>1, CarrierKept DEF CarrierRests
<1> QED
  BY <1>2, <1>3
---------------------------------------------------------------------------
(* What has arrived. *)

LEMMA InboxFrame ==
    ASSUME NEW r \in Host, rcvd'[r] = rcvd[r],
           LET q == At(RecvQueue(r))
               u == At(RecvQueue(r))'
           IN  u = q \/ (KeepsHead(q, u) /\ (Empty(u) <=> Empty(q)))
    PROVE  \A p : InInbox(r, p)' <=> InInbox(r, p)
<1>1. /\ Empty(At(RecvQueue(r)))' <=> Empty(At(RecvQueue(r)))
      /\ ~Empty(At(RecvQueue(r))) => HeadPayload(At(RecvQueue(r)))' = HeadPayload(At(RecvQueue(r)))
  BY DEF KeepsHead
<1> QED
  BY <1>1 DEF InInbox

LEMMA DeliveredFrame ==
    ASSUME NEW s, apc'[s] = apc[s], conflag'[s].dataflag = conflag[s].dataflag,
           \A d \in Router : Stays(d, 0) /\ (Held(d) => rpc'[d] = rpc[d])
    PROVE  Delivered(s)' <=> Delivered(s)
<1>1. \A d \in Router : /\ Held(d)' <=> Held(d)
                        /\ Held(d) => /\ rpc'[d] = rpc[d]
                                      /\ (HeldHeader(d).SenderID)' = HeldHeader(d).SenderID
  BY DEF Stays, PacketAt, SenderAt, HeaderAt
<1>2. \A d \in Router : /\ rpc[d] = "signal" /\ Final(d) <=> Held(d) /\ rpc[d] = "signal"
                        /\ (rpc[d] = "signal" /\ Final(d))' <=> Held(d)' /\ rpc'[d] = "signal"
  BY DEF Held
<1> QED
  BY <1>1, <1>2 DEF Delivered, Router

LEMMA InboxKept ==
    ASSUME InboxInv, \A s \in Device : SenderInv(s), ip \in [Device -> Nat \ {0}],
           \A r \in Host : \A p : InInbox(r, p)' <=> InInbox(r, p),
           \A s \in Host : \/ ip'[s] = ip[s] /\ (Delivered(s)' <=> Delivered(s))
                           \/ ip'[s] = ip[s] + 1 /\ ~Delivered(s)'
    PROVE  InboxInv'
<1>1. ASSUME NEW r \in Host, NEW s \in Host, NEW k \in Nat, InInbox(r, Payload(s, k))'
      PROVE  k <= ip'[s] /\ (k = ip'[s] => Delivered(s)')
  <2>1. Payload(s, k)' = Payload(s, k)
    BY DEF Payload
  <2>2. InInbox(r, Payload(s, k))
    BY <1>1, <2>1
  <2>3. k <= ip[s] /\ (k = ip[s] => Delivered(s)) /\ ip[s] \in Nat
    BY <2>2 DEF InboxInv, Host
  <2> QED
    BY <2>3
<1>2. ASSUME NEW s \in Host, Delivered(s)'
      PROVE  InInbox(Receiver(s), Payload(s, ip[s]))'
  <2>1. ip'[s] = ip[s] /\ Delivered(s)
    BY <1>2
  <2>2. Receiver(s)' = Receiver(s) /\ Payload(s, ip[s])' = Payload(s, ip[s])
    BY <2>1 DEF Receiver, Payload
  <2>3. Receiver(s) \in Host
    BY <2>1 DEF Delivered, SenderInv, Posted, Host
  <2> QED
    BY <1>2, <2>1, <2>2, <2>3 DEF InboxInv
<1> QED
  BY <1>1, <1>2 DEF InboxInv, Host
---------------------------------------------------------------------------
(* The steps of a guest that change no queue. *)

LEMMA HeldWaits ==
    ASSUME ServiceInv, NEW d \in Router, Held(d)
    PROVE  /\ HeldHeader(d).SenderID \in Host
           /\ Waits(HeldHeader(d).SenderID)
           /\ HeldHeader(d).ReceiverID = Receiver(HeldHeader(d).SenderID)
<1>1. 0 \in Slot /\ PacketAt(d, 0)
  BY DEF Slot, PacketAt
<1>2. Traveller(d, 0)
  BY <1>1 DEF ServiceInv, TravelInv
<1> QED
  BY <1>2 DEF Traveller, SenderAt, HeaderAt

LEMMA SlotFacts ==
    ASSUME NEW d \in Router
    PROVE  /\ 0 \in Slot
           /\ Scanned(d) \subseteq Slot
           /\ \A i \in Scanned(d) : i # 0 /\ i \in QueueIndex(d)
<1>1. d \in Device
  BY DEF Router
<1> QED
  BY <1>1, QueueIndexFacts DEF Scanned, Slot

LEMMA StillPlaces ==
    ASSUME UNCHANGED <<hq, rpc, sel, fptr, index>>
    PROVE  /\ \A n \in Router, i \in Slot : Stays(n, i)
           /\ \A d \in Router : RouterRests(d) /\ HeldHeader(d)' = HeldHeader(d)
<1>1. \A d \in Router : RouterRests(d) /\ HeldHeader(d)' = HeldHeader(d)
  BY DEF RouterRests, HeldHeader, From
<1>2. ASSUME NEW n \in Router, NEW i \in Slot PROVE Stays(n, i)
  <2>1. CASE i = 0
    BY <1>1, <2>1, HolderStays
  <2>2. CASE i # 0
    BY <2>2, QueueStays
  <2> QED
    BY <2>1, <2>2
<1> QED
  BY <1>1, <1>2

LEMMA StillInbox ==
    ASSUME UNCHANGED <<hq, rcvd>>
    PROVE  \A r \in Host : \A p : InInbox(r, p)' <=> InInbox(r, p)
<1> SUFFICES ASSUME NEW r \in Host
             PROVE  \A p : InInbox(r, p)' <=> InInbox(r, p)
  OBVIOUS
<1>1. At(RecvQueue(r))' = At(RecvQueue(r))
  BY DEF At, RecvQueue
<1> QED
  BY <1>1, InboxFrame

LEMMA GuestServes ==
    ASSUME IInv, ServiceInv, NEW d \in Device,
           UNCHANGED <<hq, conflag, rcvd, rpc, index, sel, fptr>>,
           \A e \in Device : e # d => GuestRests(e),
           ~Waits(d), apc'[d] # "signal", SenderInv(d)',
           \/ ip'[d] = ip[d] /\ ~Delivered(d)
           \/ ip'[d] = ip[d] + 1
    PROVE  ServiceInv'
<1>1. \A n \in Router, i \in Slot : Stays(n, i)
  BY StillPlaces
<1>2. \A s \in Host : WaitsOn(s)
  BY DEF WaitsOn, Waits, GuestRests, Host
<1>3. TravelInv' /\ UniqueInv' /\ ServedInv'
  BY <1>1, <1>2, PlacesStay DEF ServiceInv
<1>4. \A s \in Device : SenderInv(s)'
  BY StillServices DEF SenderRests
<1>5. \A e \in Router : CarrierInv(e)'
  <2> SUFFICES ASSUME NEW e \in Router PROVE CarrierRests(e)
    BY StillServices
  <2>1. RouterRests(e) /\ HeldHeader(e)' = HeldHeader(e)
    BY StillPlaces
  <2>2. ASSUME rpc[e] = "publish"
        PROVE  ip'[HeldHeader(e).SenderID] = ip[HeldHeader(e).SenderID]
    <3>1. HeldHeader(e).SenderID \in Host /\ Waits(HeldHeader(e).SenderID)
      BY <2>2, HeldWaits DEF Held
    <3> QED
      BY <1>2, <3>1 DEF WaitsOn
  <2> QED
    BY <2>1, <2>2 DEF CarrierRests
<1>6. InboxInv'
  <2>1. \A r \in Host : \A p : InInbox(r, p)' <=> InInbox(r, p)
    BY StillInbox
  <2>2. \A s \in Host : \/ ip'[s] = ip[s] /\ (Delivered(s)' <=> Delivered(s))
                        \/ ip'[s] = ip[s] + 1 /\ ~Delivered(s)'
    <3> SUFFICES ASSUME NEW s \in Host
                 PROVE  \/ ip'[s] = ip[s] /\ (Delivered(s)' <=> Delivered(s))
                        \/ ip'[s] = ip[s] + 1 /\ ~Delivered(s)'
      OBVIOUS
    <3>1. CASE s = d
      BY <3>1 DEF Delivered
    <3>2. CASE s # d
      <4>1. apc'[s] = apc[s] /\ ip'[s] = ip[s]
        BY <3>2 DEF GuestRests, Host
      <4>2. 0 \in Slot
        BY DEF Slot
      <4> QED
        BY <1>1, <4>1, <4>2, DeliveredFrame
    <3> QED
      BY <3>1, <3>2
  <2>3. ip \in [Device -> Nat \ {0}]
    BY DEF IInv, TypeOK
  <2> QED
    BY <2>1, <2>2, <2>3, InboxKept DEF ServiceInv
<1> QED
  BY <1>3, <1>4, <1>5, <1>6 DEF ServiceInv

\* A guest that sends nothing.
LEMMA SenderRuns ==
    ASSUME NEW d, apc'[d] \in {"run", "poll", "late", "exited"}
    PROVE  SenderInv(d)'
BY DEF SenderInv

LEMMA NotDelivered ==
    ASSUME NEW d, apc[d] # "signal"
    PROVE  ~Delivered(d) /\ ~Waits(d)
BY DEF Delivered, Waits

LEMMA ExecuteServes ==
    ASSUME IInv, ServiceInv, NEW d \in Device, Execute(d)
    PROVE  ServiceInv'
<1>1. UNCHANGED <<hq, conflag, rcvd, rpc, index, sel, fptr, apc, ip>> /\ apc[d] = "run"
  BY DEF Execute, routing
<1>2. \A e \in Device : GuestRests(e)
  BY DEF Execute, GuestRests
<1>3. SenderInv(d)'
  BY <1>1, SenderRuns
<1> QED
  BY <1>1, <1>2, <1>3, NotDelivered, GuestServes

LEMMA SendNothingServes ==
    ASSUME IInv, ServiceInv, NEW d \in Device, SendNothing(d)
    PROVE  ServiceInv'
<1>1. /\ UNCHANGED <<hq, conflag, rcvd, rpc, index, sel, fptr, apc, hdr, hptr>>
      /\ ip' = [ip EXCEPT ![d] = @ + 1] /\ apc[d] = "run"
  BY DEF SendNothing, Calls, shared, routing
<1>2. ip \in [Device -> Nat \ {0}]
  BY DEF IInv, TypeOK
<1>3. ip'[d] = ip[d] + 1 /\ \A e \in Device : e # d => GuestRests(e)
  BY <1>1, <1>2 DEF GuestRests
<1>4. SenderInv(d)'
  BY <1>1, SenderRuns
<1> QED
  BY <1>1, <1>3, <1>4, NotDelivered, GuestServes

LEMMA PostFailServes ==
    ASSUME IInv, ServiceInv, NEW d \in Device, PostFail(d)
    PROVE  ServiceInv'
<1>1. UNCHANGED <<hq, conflag, rcvd, rpc, index, sel, fptr, apc, ip, hdr, hptr>> /\ apc[d] = "run"
  BY DEF PostFail, Calls, routing
<1>2. \A e \in Device : GuestRests(e)
  BY <1>1 DEF GuestRests
<1>3. SenderInv(d)'
  BY <1>1, SenderRuns
<1> QED
  BY <1>1, <1>2, <1>3, NotDelivered, GuestServes

LEMMA PostServes ==
    ASSUME IInv, ServiceInv, NEW d \in Device, Post(d)
    PROVE  ServiceInv'
<1>1. /\ UNCHANGED <<hq, conflag, rcvd, rpc, index, sel, fptr, ip, hptr>>
      /\ apc' = [apc EXCEPT ![d] = "header"] /\ apc[d] = "run"
      /\ Calls(d, "send") /\ Accepted(d, Program[d][ip[d]].to)
  BY DEF Post, Calls, routing
<1>2. RestTypes
  BY TypeSplit DEF IInv
<1>3. PICK t : hdr' = [hdr EXCEPT ![d] =
                 [kind |-> "header", SenderID |-> d, ReceiverID |-> Program[d][ip[d]].to,
                  ForwardID |-> d, SendTime |-> clock[d], TransTime |-> t]]
  BY DEF Post
<1>4. apc'[d] = "header" /\ hdr'[d].SenderID = d /\ hdr'[d].ReceiverID = Program[d][ip[d]].to
  BY <1>1, <1>2, <1>3 DEF RestTypes
<1>5. \A e \in Device : e # d => GuestRests(e)
  BY <1>1, <1>3 DEF GuestRests
<1>6. Posted(d)
  BY <1>1, <1>2, CallFacts DEF Posted, Calls, Accepted, Receiver
<1>7. SenderInv(d)'
  <2>1. Posted(d)' /\ Receiver(d)' = Program[d][ip[d]].to
    BY <1>1, <1>6 DEF Posted, Receiver, Host
  <2> QED
    BY <1>4, <2>1 DEF SenderInv
<1> QED
  BY <1>1, <1>4, <1>5, <1>7, NotDelivered, GuestServes

LEMMA SendReturnsServes ==
    ASSUME IInv, ServiceInv, NEW d \in Device, SendReturns(d)
    PROVE  ServiceInv'
<1>1. /\ UNCHANGED <<hq, conflag, rcvd, rpc, index, sel, fptr, hptr>>
      /\ ip' = IF conflag[d].dataflag = 44 THEN ip ELSE [ip EXCEPT ![d] = @ + 1]
      /\ hdr' = [hdr EXCEPT ![d] = NoHeader]
      /\ apc' = [apc EXCEPT ![d] = "run"] /\ conflag[d].dataflag # 77
  BY DEF SendReturns, routing
<1>2. RestTypes
  BY TypeSplit DEF IInv
<1>3. /\ apc'[d] = "run"
      /\ \/ ip'[d] = ip[d] /\ conflag[d].dataflag = 44
         \/ ip'[d] = ip[d] + 1
      /\ \A e \in Device : e # d => GuestRests(e)
  BY <1>1, <1>2 DEF RestTypes, GuestRests
<1>4. ~Waits(d)
  BY <1>1 DEF Waits
<1>5. conflag[d].dataflag = 44 => ~Delivered(d)
  <2>1. \A e \in Router : rpc[e] = "signal" /\ Final(e) => HeldHeader(e).SenderID # d
    BY <1>4, HeldWaits DEF Held
  <2> QED
    BY <2>1 DEF Delivered
<1>6. SenderInv(d)'
  BY <1>3, SenderRuns
<1> QED
  BY <1>1, <1>3, <1>4, <1>5, <1>6, GuestServes

LEMMA RecvBeginsServes ==
    ASSUME IInv, ServiceInv, NEW d \in Device, RecvBegins(d)
    PROVE  ServiceInv'
<1>1. /\ UNCHANGED <<hq, conflag, rcvd, rpc, index, sel, fptr, ip, hdr, hptr>>
      /\ apc' = [apc EXCEPT ![d] = "poll"] /\ apc[d] = "run"
  BY DEF RecvBegins, Calls, routing
<1>2. apc'[d] = "poll" /\ \A e \in Device : e # d => GuestRests(e)
  BY <1>1, TypeSplit DEF IInv, RestTypes, GuestRests
<1>3. SenderInv(d)'
  BY <1>2, SenderRuns
<1> QED
  BY <1>1, <1>2, <1>3, NotDelivered, GuestServes

LEMMA RecvReturnsServes ==
    ASSUME IInv, ServiceInv, NEW d \in Device, RecvReturns(d)
    PROVE  ServiceInv'
<1>1. /\ UNCHANGED <<hq, conflag, rcvd, rpc, index, sel, fptr>>
      /\ ip' = [ip EXCEPT ![d] = @ + 1]
      /\ hdr' = [hdr EXCEPT ![d] = NoHeader]
      /\ hptr' = [hptr EXCEPT ![d] = 0]
      /\ apc' = [apc EXCEPT ![d] = "run"] /\ apc[d] = "late"
  BY DEF RecvReturns, routing
<1>2. /\ apc'[d] = "run" /\ ip'[d] = ip[d] + 1
      /\ \A e \in Device : e # d => GuestRests(e)
  BY <1>1, TypeSplit DEF IInv, RestTypes, GuestRests
<1>3. SenderInv(d)'
  BY <1>2, SenderRuns
<1> QED
  BY <1>1, <1>2, <1>3, NotDelivered, GuestServes

LEMMA ExitServes ==
    ASSUME RoutersStay, IInv, ServiceInv, NEW d \in Device, Exit(d)
    PROVE  ServiceInv'
<1>1. RestTypes
  BY TypeSplit DEF IInv
<1>2. d \notin Router
  BY <1>1 DEF Exit, Calls, RestTypes, RoutersStay
<1>3. /\ UNCHANGED <<hq, conflag, rcvd, rpc, index, sel, fptr, hdr, hptr>>
      /\ ip' = [ip EXCEPT ![d] = @ + 1]
      /\ apc' = [apc EXCEPT ![d] = "exited"] /\ apc[d] = "run"
  BY <1>2 DEF Exit, Calls
<1>4. /\ apc'[d] = "exited" /\ ip'[d] = ip[d] + 1
      /\ \A e \in Device : e # d => GuestRests(e)
  BY <1>1, <1>3 DEF RestTypes, GuestRests
<1>5. SenderInv(d)'
  BY <1>4, SenderRuns
<1> QED
  BY <1>3, <1>4, <1>5, NotDelivered, GuestServes
---------------------------------------------------------------------------
(* The steps of a routing thread that change no queue. *)

Scanning == {"idle", "select", "wait", "serve"}

LEMMA ScansHoldNothing ==
    ASSUME NEW d
    PROVE  /\ rpc[d] \in Scanning => ~Held(d)
           /\ rpc'[d] \in Scanning => ~Held(d)' /\ CarrierInv(d)'
<1>1. rpc[d] \in Scanning => ~Held(d)
  BY DEF Scanning, Held
<1>2. rpc'[d] \in Scanning => ~Held(d)'
  BY DEF Scanning, Held
<1>3. rpc'[d] \in Scanning => CarrierInv(d)'
  BY <1>2 DEF Scanning, CarrierInv
<1> QED
  BY <1>1, <1>2, <1>3

LEMMA OtherHolders ==
    ASSUME NEW d, hq' = hq, \A e \in Device : e # d => RouterRests(e)
    PROVE  \A e \in Router : e # d => /\ Stays(e, 0)
                                      /\ RouterRests(e)
                                      /\ HeldHeader(e)' = HeldHeader(e)
<1> SUFFICES ASSUME NEW e \in Router, e # d
             PROVE  Stays(e, 0) /\ RouterRests(e) /\ HeldHeader(e)' = HeldHeader(e)
  OBVIOUS
<1>1. RouterRests(e)
  BY DEF Router
<1>2. HeldHeader(e)' = HeldHeader(e)
  BY <1>1 DEF HeldHeader, From, RouterRests
<1> QED
  BY <1>1, <1>2, HolderStays

LEMMA RouterServes ==
    ASSUME IInv, ServiceInv, NEW d \in Device,
           UNCHANGED <<hq, conflag, apc, ip, hdr, hptr, rcvd>>,
           \A e \in Device : e # d => RouterRests(e),
           rpc[d] \in Scanning, rpc'[d] \in Scanning
    PROVE  ServiceInv'
<1>1. \A n \in Router, i \in Slot : Stays(n, i)
  <2> SUFFICES ASSUME NEW n \in Router, NEW i \in Slot PROVE Stays(n, i)
    OBVIOUS
  <2>1. CASE i # 0
    BY <2>1, QueueStays
  <2>2. CASE i = 0 /\ n # d
    BY <2>2, OtherHolders
  <2>3. CASE i = 0 /\ n = d
    BY <2>3, ScansHoldNothing, RestingStays
  <2> QED
    BY <2>1, <2>2, <2>3
<1>2. \A s \in Host : WaitsOn(s)
  BY DEF WaitsOn, Waits
<1>3. TravelInv' /\ UniqueInv' /\ ServedInv'
  BY <1>1, <1>2, PlacesStay DEF ServiceInv
<1>4. \A s \in Device : SenderInv(s)'
  BY StillServices DEF SenderRests, GuestRests
<1>5. \A e \in Router : CarrierInv(e)'
  <2>1. \A e \in Router : e # d => CarrierRests(e)
    BY OtherHolders DEF CarrierRests
  <2> QED
    BY <2>1, StillServices, ScansHoldNothing
<1>6. InboxInv'
  <2>1. \A s \in Host : Delivered(s)' <=> Delivered(s)
    <3>1. \A e \in Router : Stays(e, 0) /\ (Held(e) => rpc'[e] = rpc[e])
      <4>1. \A e \in Router : e # d => rpc'[e] = rpc[e]
        BY OtherHolders DEF RouterRests
      <4>2. ~Held(d) /\ 0 \in Slot
        BY ScansHoldNothing DEF Slot
      <4> QED
        BY <1>1, <4>1, <4>2
    <3> QED
      BY <3>1, DeliveredFrame
  <2>2. ip \in [Device -> Nat \ {0}]
    BY DEF IInv, TypeOK
  <2> QED
    BY <2>1, <2>2, StillInbox, InboxKept DEF ServiceInv
<1> QED
  BY <1>3, <1>4, <1>5, <1>6 DEF ServiceInv

LEMMA IdleServes ==
    ASSUME IInv, ServiceInv, NEW d \in Device, Idle(d)
    PROVE  ServiceInv'
<1>1. UNCHANGED <<hq, conflag, apc, ip, hdr, hptr, rcvd, rpc, index, sel, fptr>> /\ rpc[d] = "idle"
  BY DEF Idle, guest, routing
<1> QED
  BY <1>1, RouterServes DEF RouterRests, Scanning

LEMMA WakeServes ==
    ASSUME IInv, ServiceInv, NEW d \in Device, Wake(d)
    PROVE  ServiceInv'
<1>1. /\ UNCHANGED <<hq, conflag, apc, ip, hdr, hptr, rcvd, index, sel, fptr>>
      /\ rpc' = [rpc EXCEPT ![d] = "select"] /\ rpc[d] = "idle"
  BY DEF Wake, guest
<1>2. rpc'[d] = "select" /\ \A e \in Device : e # d => RouterRests(e)
  BY <1>1, TypeSplit DEF IInv, RouteTypes, RouterRests
<1> QED
  BY <1>1, <1>2, RouterServes DEF Scanning

LEMMA SelectServes ==
    ASSUME IInv, ServiceInv, NEW d \in Device, Select(d)
    PROVE  ServiceInv'
<1>1. /\ UNCHANGED <<hq, conflag, apc, ip, hdr, hptr, rcvd, fptr>> /\ rpc[d] = "select"
      /\ \E s, i, p : /\ sel' = [sel EXCEPT ![d] = s]
                      /\ index' = [index EXCEPT ![d] = i]
                      /\ rpc' = rpc \/ (rpc' = [rpc EXCEPT ![d] = p] /\ p \in {"wait", "serve"})
  BY DEF Select, guest, shared
<1>2. rpc'[d] \in {"select", "wait", "serve"} /\ \A e \in Device : e # d => RouterRests(e)
  BY <1>1, TypeSplit DEF IInv, RouteTypes, RouterRests
<1> QED
  BY <1>1, <1>2, RouterServes DEF Scanning

LEMMA WaitOthersServes ==
    ASSUME IInv, ServiceInv, NEW d \in Device, WaitOthers(d)
    PROVE  ServiceInv'
<1>1. /\ UNCHANGED <<hq, conflag, apc, ip, hdr, hptr, rcvd, fptr>> /\ rpc[d] = "wait"
      /\ \E s, i : /\ sel' = [sel EXCEPT ![d] = s]
                   /\ index' = [index EXCEPT ![d] = i]
                   /\ rpc' = rpc \/ rpc' = [rpc EXCEPT ![d] = "serve"]
  BY DEF WaitOthers, guest
<1>2. rpc'[d] \in {"wait", "serve"} /\ \A e \in Device : e # d => RouterRests(e)
  BY <1>1, TypeSplit DEF IInv, RouteTypes, RouterRests
<1> QED
  BY <1>1, <1>2, RouterServes DEF Scanning
---------------------------------------------------------------------------
(* A queue is fed: what the entry at its producer index holds changes. *)

\* The routing thread e is not about to signal from an entry that changes.
HolderRests(e) == \/ RouterRests(e) /\ (Held(e) => HeldHeader(e)' = HeldHeader(e))
                  \/ ~Held(e) /\ ~Held(e)'

LEMMA HolderRestsStays ==
    ASSUME NEW e \in Router, HolderRests(e)
    PROVE  Stays(e, 0) /\ (Held(e) => rpc'[e] = rpc[e])
<1>1. CASE RouterRests(e) /\ (Held(e) => HeldHeader(e)' = HeldHeader(e))
  BY <1>1, HolderStays DEF RouterRests
<1>2. CASE ~Held(e) /\ ~Held(e)'
  BY <1>2, RestingStays
<1> QED
  BY <1>1, <1>2 DEF HolderRests

\* A queue with the same packet at its head.
HeadStays(n, i) == /\ KeepsHead(hq[n][i], hq'[n][i])
                   /\ Empty(hq'[n][i]) <=> Empty(hq[n][i])

LEMMA FeedPlaces ==
    ASSUME NEW n \in Device, NEW i \in QueueIndex(n), Others(n, i), HeadStays(n, i),
           \A e \in Router : HolderRests(e)
    PROVE  \A m \in Router, j \in Slot : Stays(m, j)
<1> SUFFICES ASSUME NEW m \in Router, NEW j \in Slot PROVE Stays(m, j)
  OBVIOUS
<1>1. CASE j = 0
  BY <1>1, HolderRestsStays
<1>2. CASE j # 0
  <2>1. j \in Scanned(m) => j \in QueueIndex(m) /\ m \in Device
    BY RouterDrains
  <2> QED
    BY <1>2, <2>1, QueueStays DEF Others, HeadStays
<1> QED
  BY <1>1, <1>2

LEMMA FeedInbox ==
    ASSUME NEW n \in Device, NEW i \in QueueIndex(n), Others(n, i),
           HeadStays(n, i) \/ ~IsRecvQueue(n, i), rcvd' = rcvd
    PROVE  \A r \in Host : \A p : InInbox(r, p)' <=> InInbox(r, p)
<1> SUFFICES ASSUME NEW r \in Host
             PROVE  \A p : InInbox(r, p)' <=> InInbox(r, p)
  OBVIOUS
<1> DEFINE j == RecvQueue(r)[2]
<1>1. /\ r \in Device /\ j \in QueueIndex(r) /\ IsRecvQueue(r, j)
      /\ At(RecvQueue(r)) = hq[r][j]
  BY GuestDrains DEF At
<1>2. At(RecvQueue(r))' = hq'[r][j]
  <2>1. RecvQueue(r)' = RecvQueue(r)
    BY DEF RecvQueue
  <2> QED
    BY <2>1, GuestDrains DEF At
<1> HIDE DEF j
<1>3. hq'[r][j] = hq[r][j] \/ (r = n /\ j = i /\ HeadStays(n, i))
  BY <1>1 DEF Others
<1> QED
  BY <1>1, <1>2, <1>3, InboxFrame DEF HeadStays

\* A sender that does not wait for a signal, or one that is left alone.
SignalRests(s) == \/ apc'[s] = apc[s] /\ conflag'[s].dataflag = conflag[s].dataflag
                  \/ apc[s] # "signal" /\ apc'[s] # "signal"

LEMMA SignalRestsWaits ==
    ASSUME NEW s, SignalRests(s), ip'[s] = ip[s],
           \A e \in Router : Stays(e, 0) /\ (Held(e) => rpc'[e] = rpc[e])
    PROVE  WaitsOn(s) /\ (Delivered(s)' <=> Delivered(s))
<1>1. CASE apc'[s] = apc[s] /\ conflag'[s].dataflag = conflag[s].dataflag
  BY <1>1, DeliveredFrame DEF WaitsOn, Waits
<1>2. CASE apc[s] # "signal" /\ apc'[s] # "signal"
  BY <1>2 DEF WaitsOn, Waits, Delivered
<1> QED
  BY <1>1, <1>2 DEF SignalRests

LEMMA FeedServes ==
    ASSUME IInv, ServiceInv, NEW n \in Device, NEW i \in QueueIndex(n), Others(n, i),
           HeadKept(n, i), Empty(hq'[n][i]) <=> Empty(hq[n][i]), UNCHANGED <<rcvd, ip>>,
           \A s \in Host : SignalRests(s), \A e \in Router : HolderRests(e),
           \A s \in Device : \/ SenderInv(s)'
                             \/ SenderRests(s) /\ ~(FedByGuest(n, i) /\ Feeder(n, i) = s),
           \A e \in Router : \/ CarrierInv(e)'
                             \/ RouterRests(e) /\ (FedByGuest(n, i) \/ Feeder(n, i) # e)
    PROVE  ServiceInv'
<1>1. HeadStays(n, i)
  BY DEF HeadStays, HeadKept
<1>2. \A m \in Router, j \in Slot : Stays(m, j)
  BY <1>1, FeedPlaces
<1>3. \A e \in Router : Stays(e, 0) /\ (Held(e) => rpc'[e] = rpc[e])
  BY HolderRestsStays
<1>4. \A s \in Host : WaitsOn(s) /\ ip'[s] = ip[s] /\ (Delivered(s)' <=> Delivered(s))
  BY <1>3, SignalRestsWaits
<1>5. TravelInv' /\ UniqueInv' /\ ServedInv'
  BY <1>2, <1>4, PlacesStay DEF ServiceInv
<1>6. \A s \in Device : SenderInv(s)'
  BY FeedServices
<1>7. \A e \in Router : CarrierInv(e)'
  <2>1. ASSUME NEW e \in Router, RouterRests(e) PROVE CarrierRests(e)
    <3>1. Held(e)' <=> Held(e)
      BY <2>1 DEF Held, Final, RouterRests
    <3> QED
      BY <2>1, <3>1 DEF CarrierRests, HolderRests
  <2> QED
    BY <2>1, FeedServices
<1>8. InboxInv'
  <2>1. \A r \in Host : \A p : InInbox(r, p)' <=> InInbox(r, p)
    BY <1>1, FeedInbox
  <2>2. ip \in [Device -> Nat \ {0}]
    BY DEF IInv, TypeOK
  <2> QED
    BY <1>4, <2>1, <2>2, InboxKept DEF ServiceInv
<1> QED
  BY <1>5, <1>6, <1>7, <1>8 DEF ServiceInv

LEMMA HeldFacts ==
    ASSUME IInv, NEW e \in Router, Held(e)
    PROVE  /\ e \in Device /\ sel[e].ind \in Scanned(e) /\ sel[e].ind \in QueueIndex(e)
           /\ CanHop(e, sel[e].next) /\ fptr[e] \in Even /\ fptr[e] \in Index
           /\ HeldHeader(e) \in Header
<1>1. rpc[e] \in {"publish", "signal"} /\ e \in Device
  BY DEF Held, Router
<1>2. RouterInv(e)
  BY <1>1 DEF IInv, ThreadsInv
<1> QED
  BY <1>1, <1>2, RouterDrains, EvenFacts DEF RouterInv, HeldHeader

\* Another thread's step leaves what e holds alone unless it writes there.
LEMMA HeldElsewhere ==
    ASSUME IInv, NEW e \in Router, RouterRests(e), NEW n, NEW i, Others(n, i),
           Held(e) => \/ e # n
                      \/ sel[e].ind # i
                      \/ hq'[n][i].entry[fptr[e]] = hq[n][i].entry[fptr[e]]
    PROVE  HolderRests(e)
<1>1. ASSUME Held(e) PROVE HeldHeader(e)' = HeldHeader(e)
  <2>1. e \in Device /\ sel[e].ind \in QueueIndex(e)
    BY <1>1, HeldFacts
  <2>2. HeldHeader(e)' = hq'[e][sel[e].ind].entry[fptr[e]]
    BY DEF HeldHeader, From, RouterRests
  <2> QED
    BY <1>1, <2>1, <2>2 DEF HeldHeader, From, Others
<1> QED
  BY <1>1 DEF HolderRests

\* The queue of a guest that does not wait holds nothing a routing thread is to signal from.
LEMMA GuestQueueFree ==
    ASSUME IInv, ServiceInv, NEW d \in Host, ~Waits(d), NEW e \in Router, Held(e)
    PROVE  e # SendQueue(d)[1] \/ sel[e].ind # SendQueue(d)[2]
<1> DEFINE n == SendQueue(d)[1]
           i == SendQueue(d)[2]
<1>1. FedByGuest(n, i) /\ Feeder(n, i) = d
  BY GuestFeeds
<1> HIDE DEF n, i
<1> SUFFICES ASSUME e = n, sel[e].ind = i PROVE FALSE
  BY DEF n, i
<1>2. 0 \in Slot /\ PacketAt(e, 0)
  BY DEF Slot, PacketAt
<1>3. Traveller(e, 0)
  BY <1>2 DEF ServiceInv, TravelInv
<1>4. LinkAt(e, 0) = i
  BY DEF LinkAt
<1>5. SenderAt(e, 0) = d
  BY <1>1, <1>3, <1>4 DEF Traveller, Linked
<1> QED
  BY <1>3, <1>5 DEF Traveller

\* A guest pushes.
LEMMA GuestCopies ==
    ASSUME IInv, ServiceInv, NEW d \in Host, NEW u,
           hq' = [hq EXCEPT ![SendQueue(d)[1]][SendQueue(d)[2]] = u], EvenQueue(u),
           KeepsHead(At(SendQueue(d)), u), u.consumer = At(SendQueue(d)).consumer
    PROVE  /\ SendQueue(d)[1] \in Device
           /\ SendQueue(d)[2] \in QueueIndex(SendQueue(d)[1])
           /\ ~IsRecvQueue(SendQueue(d)[1], SendQueue(d)[2])
           /\ Others(SendQueue(d)[1], SendQueue(d)[2])
           /\ HeadKept(SendQueue(d)[1], SendQueue(d)[2])
           /\ At(SendQueue(d)) = hq[SendQueue(d)[1]][SendQueue(d)[2]]
           /\ At(SendQueue(d))' = u
           /\ hq'[SendQueue(d)[1]][SendQueue(d)[2]] = u
           /\ ~Waits(d) => \A e \in Router : RouterRests(e) => HolderRests(e)
<1> DEFINE n == SendQueue(d)[1]
           i == SendQueue(d)[2]
<1>1. n \in Device /\ i \in QueueIndex(n) /\ ~IsRecvQueue(n, i)
  BY GuestFeeds
<1>2. At(SendQueue(d)) = hq[n][i] /\ At(SendQueue(d))' = hq'[n][i]
  BY DEF At, SendQueue, LinkOf, NeighborNum
<1>3. hq' = [hq EXCEPT ![n][i] = u]
  OBVIOUS
<1> HIDE DEF n, i
<1>4. QueueTypes
  BY TypeSplit DEF IInv
<1>5. hq'[n][i] = u /\ Others(n, i)
  BY ONLY EvenQueue(u), <1>1, <1>3, <1>4, OneQueue
<1>6. HeadKept(n, i)
  BY <1>2, <1>5 DEF HeadKept
<1>7. ASSUME ~Waits(d), NEW e \in Router, RouterRests(e) PROVE HolderRests(e)
  <2>1. Held(e) => e # n \/ sel[e].ind # i
    BY <1>7, GuestQueueFree DEF n, i
  <2> QED
    BY <1>5, <1>7, <2>1, HeldElsewhere
<1> QED
  BY <1>1, <1>2, <1>5, <1>6, <1>7 DEF n, i

LEMMA CopyHeaderServes ==
    ASSUME IInv, ServiceInv, NEW d \in Device, CopyHeader(d)
    PROVE  ServiceInv'
<1>1. RestTypes /\ GuestInv(d) /\ SenderInv(d)
  BY TypeSplit DEF IInv, ThreadsInv, ServiceInv
<1>2. /\ UNCHANGED <<conflag, ip, hdr, hptr, rcvd, rpc, index, sel, fptr>>
      /\ apc[d] = "header"
      /\ apc' = [apc EXCEPT ![d] = "payload"]
  BY DEF CopyHeader, routing
<1>3. d \in Host /\ hdr[d] \in Header
  BY <1>1, <1>2 DEF GuestInv, Sends, Good
<1> DEFINE q == At(SendQueue(d))
           u == PutHeader(q, hdr[d])
           n == SendQueue(d)[1]
           i == SendQueue(d)[2]
<1>4. EvenQueue(q) /\ hq' = [hq EXCEPT ![n][i] = u]
  BY <1>3, SendQueueFacts DEF CopyHeader
<1>5. EvenQueue(u) /\ KeepsHead(q, u) /\ (Empty(u) <=> Empty(q)) /\ u.consumer = q.consumer
  <2>1. q.producer \in Index /\ hdr[d] \in Entry
    BY <1>3, <1>4, EvenFacts DEF EvenQueue, Entry
  <2> HIDE DEF q
  <2>2. EvenQueue(u) /\ KeepsHead(q, u) /\ (Empty(u) <=> Empty(q))
    BY <1>3, <1>4, PutHeaderFacts
  <2>3. u.consumer = q.consumer
    BY <1>4, <2>1, QueueUpdate DEF PutHeader
  <2> QED
    BY <2>2, <2>3
<1> HIDE DEF u
<1>6. ~Waits(d)
  BY <1>2 DEF Waits
<1>7. \A e \in Router : RouterRests(e)
  BY <1>2 DEF RouterRests
<1>8. /\ n \in Device /\ i \in QueueIndex(n) /\ Others(n, i) /\ HeadKept(n, i)
      /\ q = hq[n][i] /\ u = hq'[n][i]
      /\ \A e \in Router : HolderRests(e)
  BY ONLY IInv, ServiceInv, <1>3, <1>4, <1>5, <1>6, <1>7, GuestCopies
<1>9. apc'[d] = "payload" /\ \A s \in Device : s # d => SenderRests(s)
  BY <1>1, <1>2 DEF RestTypes, SenderRests, GuestRests
<1>10. \A s \in Host : SignalRests(s)
  BY <1>1, <1>2 DEF SignalRests, RestTypes
<1>11. SenderInv(d)'
  <2>1. Posted(d)' /\ Receiver(d)' = Receiver(d) /\ hdr'[d] = hdr[d]
    BY <1>1, <1>2 DEF SenderInv, Posted, Receiver, Host
  <2> QED
    BY <1>1, <1>2, <1>9, <2>1 DEF SenderInv
<1>12. FedByGuest(n, i) /\ Feeder(n, i) = d
  BY <1>3, GuestFeeds
<1>13. Empty(hq'[n][i]) <=> Empty(hq[n][i])
  BY <1>5, <1>8
<1> HIDE DEF q, n, i
<1>14. \A s \in Device : \/ SenderInv(s)'
                         \/ SenderRests(s) /\ ~(FedByGuest(n, i) /\ Feeder(n, i) = s)
  BY <1>9, <1>11, <1>12
<1>15. UNCHANGED <<rcvd, ip>>
  BY <1>2
<1> QED
  BY ONLY IInv, ServiceInv, <1>7, <1>8, <1>10, <1>12, <1>13, <1>14, <1>15, FeedServes

LEMMA CopyPayloadServes ==
    ASSUME IInv, ServiceInv, NEW d \in Device, CopyPayload(d)
    PROVE  ServiceInv'
<1>1. RestTypes /\ GuestInv(d) /\ SenderInv(d)
  BY TypeSplit DEF IInv, ThreadsInv, ServiceInv
<1>2. /\ UNCHANGED <<ip, hdr, hptr, rcvd, rpc, index, sel, fptr>>
      /\ apc[d] = "payload"
      /\ apc' = [apc EXCEPT ![d] = "publish"]
      /\ conflag' = [conflag EXCEPT ![d] = [dataflag |-> 77, transtime |-> 0]]
  BY DEF CopyPayload, routing
<1>3. d \in Host /\ Payload(d, ip[d]) \in PayloadSet
  BY <1>1, <1>2 DEF GuestInv, Sends, Addressed
<1> DEFINE q == At(SendQueue(d))
           p == Payload(d, ip[d])
           u == PutPayload(q, p)
           n == SendQueue(d)[1]
           i == SendQueue(d)[2]
<1>4. /\ EvenQueue(q) /\ ~NoPayloadEntry(q) /\ TailHeader(q) = hdr[d]
      /\ hq' = [hq EXCEPT ![n][i] = u]
  BY <1>1, <1>2, <1>3, SendQueueFacts DEF CopyPayload, GuestInv
<1> HIDE DEF p
<1>5. /\ EvenQueue(u) /\ KeepsHead(q, u) /\ (Empty(u) <=> Empty(q)) /\ u.consumer = q.consumer
      /\ TailHeader(u) = hdr[d] /\ TailPayload(u) = p
  <2>1. PayloadOf(q.producer) \in Index /\ p \in Entry /\ p \in PayloadSet
    BY <1>3, <1>4, EvenFacts DEF EvenQueue, Entry, p
  <2> HIDE DEF q
  <2>2. /\ EvenQueue(u) /\ KeepsHead(q, u) /\ Empty(u) /\ Empty(q)
        /\ TailHeader(u) = hdr[d] /\ TailPayload(u) = p
    BY <1>4, <2>1, PutPayloadFacts
  <2>3. u.consumer = q.consumer
    BY <1>4, <2>1, QueueUpdate DEF PutPayload
  <2> QED
    BY <2>2, <2>3
<1> HIDE DEF u
<1>6. ~Waits(d)
  BY <1>2 DEF Waits
<1>7. \A e \in Router : RouterRests(e)
  BY <1>2 DEF RouterRests
<1>8. /\ n \in Device /\ i \in QueueIndex(n) /\ Others(n, i) /\ HeadKept(n, i)
      /\ q = hq[n][i] /\ u = hq'[n][i] /\ At(SendQueue(d))' = u
      /\ \A e \in Router : HolderRests(e)
  BY ONLY IInv, ServiceInv, <1>3, <1>4, <1>5, <1>6, <1>7, GuestCopies
<1>9. apc'[d] = "publish" /\ conflag'[d].dataflag = 77
  BY <1>1, <1>2 DEF RestTypes
<1>10. \A s \in Device : s # d => SenderRests(s)
  BY <1>1, <1>2 DEF RestTypes, SenderRests, GuestRests
<1>11. \A s \in Host : SignalRests(s)
  BY <1>1, <1>2 DEF SignalRests, RestTypes, Host
<1>12. SenderInv(d)'
  <2>1. Posted(d)' /\ Receiver(d)' = Receiver(d)
    BY <1>1, <1>2 DEF SenderInv, Posted, Receiver, Host
  <2>2. Payload(d, ip[d])' = p
    BY <1>2 DEF p, Payload
  <2>3. hdr[d].SenderID = d /\ hdr[d].ReceiverID = Receiver(d)
    BY <1>1, <1>2 DEF SenderInv
  <2> QED
    BY <1>5, <1>8, <1>9, <2>1, <2>2, <2>3 DEF SenderInv
<1>13. FedByGuest(n, i) /\ Feeder(n, i) = d
  BY <1>3, GuestFeeds
<1>14. Empty(hq'[n][i]) <=> Empty(hq[n][i])
  BY <1>5, <1>8
<1> HIDE DEF q, n, i
<1>15. \A s \in Device : \/ SenderInv(s)'
                         \/ SenderRests(s) /\ ~(FedByGuest(n, i) /\ Feeder(n, i) = s)
  BY <1>10, <1>12, <1>13
<1>16. UNCHANGED <<rcvd, ip>>
  BY <1>2
<1> QED
  BY ONLY IInv, ServiceInv, <1>7, <1>8, <1>11, <1>13, <1>14, <1>15, <1>16, FeedServes

\* The first queue on the way of what d sends.
LEMMA FirstHop ==
    ASSUME NEW d \in Host, NEW r \in Host, r # d
    PROVE  /\ SendQueue(d)[1] \in Router
           /\ SendQueue(d)[2] \in Scanned(SendQueue(d)[1])
           /\ SendQueue(d)[2] \in Slot /\ SendQueue(d)[2] # 0
           /\ Linked(SendQueue(d)[1], SendQueue(d)[2], d, r)
<1> DEFINE n == SendQueue(d)[1]
           i == SendQueue(d)[2]
<1>1. n \in Device /\ i \in QueueIndex(n) /\ ~IsRecvQueue(n, i) /\ FedByGuest(n, i) /\ Feeder(n, i) = d
  BY GuestFeeds
<1>2. n \in Router /\ i \in Scanned(n)
  BY <1>1 DEF IsRecvQueue, Router, Scanned
<1>3. i \in Slot /\ i # 0
  BY <1>2, SlotFacts
<1>4. d \in Device /\ r \in Device /\ DeviceType[d] \in {"ZC", "ZR", "ZED"} /\ DeviceType[d] # "ZR"
  BY TopologyAssumption DEF Host
<1>5. n \in OnRoute(d, r)
  <2>1. d \in OnRoute(d, r)
    BY <1>4, RouteStarts
  <2>2. CASE DeviceType[d] = "ZC"
    BY <2>1, <2>2 DEF SendQueue
  <2>3. CASE DeviceType[d] = "ZED"
    <3>1. NextHop[d][r] \in OnRoute(d, r)
      BY <2>1, RouteGoesOn
    <3>2. NeighborNum(d) = 1 /\ \E k \in 1 .. NeighborNum(d) : Neighbors[d][k] = NextHop[d][r]
      BY <1>4, <2>3, TopologyAssumption
    <3>3. NextHop[d][r] = Neighbors[d][1]
      BY <3>2
    <3> QED
      BY <2>3, <3>1, <3>3 DEF SendQueue
  <2> QED
    BY <1>4, <2>2, <2>3
<1> HIDE DEF n, i
<1> QED
  BY <1>1, <1>2, <1>3, <1>5 DEF Linked, n, i

LEMMA LinkedFrame ==
    \A n, i, s, r : Linked(n, i, s, r)' <=> Linked(n, i, s, r)
BY DEF Linked, FedByGuest, Feeder, OnRoute, LinkUsers, SendsTo, Host

LEMMA PublishServes ==
    ASSUME IInv, ServiceInv, NEW d \in Device, Publish(d)
    PROVE  ServiceInv'
<1>1. RestTypes /\ GuestInv(d) /\ SenderInv(d)
  BY TypeSplit DEF IInv, ThreadsInv, ServiceInv
<1>2. /\ UNCHANGED <<conflag, ip, hdr, hptr, rcvd, rpc, index, sel, fptr>>
      /\ apc[d] = "publish"
      /\ apc' = [apc EXCEPT ![d] = "signal"]
  BY DEF Publish, routing
<1> DEFINE q == At(SendQueue(d))
           u == Published(q)
           n == SendQueue(d)[1]
           i == SendQueue(d)[2]
           r == Receiver(d)
<1>3. d \in Host /\ Empty(q) /\ Posted(d) /\ r \in Host /\ r # d
  BY <1>1, <1>2 DEF GuestInv, SenderInv, Posted
<1>4. EvenQueue(q) /\ hq' = [hq EXCEPT ![n][i] = u]
  BY <1>3, SendQueueFacts DEF Publish
<1>5. /\ EvenQueue(u) /\ KeepsHead(q, u) /\ ~Empty(u) /\ u.consumer = q.consumer
      /\ HeadHeader(u) = TailHeader(q) /\ HeadPayload(u) = TailPayload(q)
  <2>1. Advance(q.producer) \in Even
    BY <1>4, EvenFacts DEF EvenQueue
  <2> HIDE DEF q
  <2>2. /\ EvenQueue(u) /\ KeepsHead(q, u) /\ ~Empty(u)
        /\ HeadHeader(u) = TailHeader(q) /\ HeadPayload(u) = TailPayload(q)
    BY <1>3, <1>4, PublishedFacts
  <2>3. u.consumer = q.consumer
    BY <1>4, <2>1, QueueUpdate DEF Published
  <2> QED
    BY <2>2, <2>3
<1> HIDE DEF u
<1>6. ~Waits(d)
  BY <1>2 DEF Waits
<1>7. \A e \in Router : RouterRests(e)
  BY <1>2 DEF RouterRests
<1>8. /\ n \in Device /\ i \in QueueIndex(n) /\ Others(n, i) /\ HeadKept(n, i)
      /\ ~IsRecvQueue(n, i)
      /\ q = hq[n][i] /\ u = hq'[n][i]
      /\ \A e \in Router : HolderRests(e)
  BY ONLY IInv, ServiceInv, <1>3, <1>4, <1>5, <1>6, <1>7, GuestCopies
<1>9. /\ n \in Router /\ i \in Scanned(n) /\ i \in Slot /\ i # 0 /\ Linked(n, i, d, r)
      /\ FedByGuest(n, i) /\ Feeder(n, i) = d
  BY <1>3, FirstHop, GuestFeeds
<1>10. /\ HeadHeader(u).SenderID = d /\ HeadHeader(u).ReceiverID = r
       /\ HeadPayload(u) = Payload(d, ip[d]) /\ conflag[d].dataflag = 77
  BY <1>1, <1>2, <1>5 DEF SenderInv
<1>11. apc'[d] = "signal" /\ \A s \in Device : s # d => apc'[s] = apc[s]
  BY <1>1, <1>2 DEF RestTypes
<1>20. n' = n /\ i' = i /\ r' = r
  BY <1>2 DEF SendQueue, LinkOf, NeighborNum, Receiver
<1> HIDE DEF q, n, i, r
<1>12. ~PacketAt(n, i) /\ PacketAt(n, i)' /\ SenderAt(n, i)' = d
  <2>1. i \in Scanned(n)'
    BY <1>9 DEF Scanned, QueueIndex, NeighborNum
  <2> QED
    BY <1>3, <1>5, <1>8, <1>9, <1>10, <2>1 DEF PacketAt, SenderAt, HeaderAt
<1>13. Traveller(n, i)'
  <2>1. Waits(d)' /\ Receiver(d)' = r /\ ip'[d] = ip[d]
    BY <1>2, <1>10, <1>11 DEF Waits, Receiver, r
  <2>2. HeaderAt(n, i)'.ReceiverID = r /\ LinkAt(n, i)' = i
        /\ HeadPayload(hq'[n][i]) = Payload(d, ip'[d])
    BY <1>8, <1>9, <1>10, <2>1 DEF HeaderAt, LinkAt
  <2>3. Linked(n, i, d, r)'
    BY <1>9, <1>20, LinkedFrame
  <2>4. d \in Host' /\ Payload(d, ip[d])' = Payload(d, ip'[d])
    BY <1>3 DEF Host, Payload
  <2> QED
    BY <1>12, <1>20, <2>1, <2>2, <2>3, <2>4 DEF Traveller
<1>14. OthersStay(n, i)
  <2> SUFFICES ASSUME NEW m \in Router, NEW j \in Slot, m # n \/ j # i PROVE Stays(m, j)
    BY DEF OthersStay
  <2>1. CASE j = 0
    BY <1>8, <2>1, HolderRestsStays
  <2>2. CASE j # 0
    <3>1. j \in Scanned(m) => j \in QueueIndex(m) /\ m \in Device
      BY RouterDrains
    <3> QED
      BY <1>8, <2>2, <3>1, QueueStays DEF Others
  <2> QED
    BY <2>1, <2>2
<1>15. \A s \in Host : s # d => WaitsOn(s)
  BY <1>2, <1>11 DEF WaitsOn, Waits, Host
<1>16. TravelInv' /\ UniqueInv' /\ ServedInv'
  <2>1. TravelInv /\ UniqueInv /\ ServedInv
    BY DEF ServiceInv
  <2>2. ~Waits(SenderAt(n, i)')
    BY <1>6, <1>12
  <2>3. \A s \in Host : s # SenderAt(n, i)' => WaitsOn(s)
    BY <1>12, <1>15
  <2> QED
    BY ONLY <1>9, <1>12, <1>13, <1>14, <2>1, <2>2, <2>3, PacketStarts
<1>17. \A s \in Device : SenderInv(s)'
  <2>1. SenderInv(d)'
    <3>1. Posted(d)'
      BY <1>2, <1>3 DEF Posted, Receiver, Host
    <3> QED
      BY <1>11, <3>1 DEF SenderInv
  <2>2. \A s \in Device : s # d => SenderRests(s)
    BY <1>2, <1>11 DEF SenderRests, GuestRests
  <2> QED
    BY <1>8, <1>9, <2>1, <2>2, FeedServices
<1>18. \A e \in Router : CarrierInv(e)'
  <2>1. \A e \in Router : CarrierRests(e)
    <3> SUFFICES ASSUME NEW e \in Router PROVE CarrierRests(e)
      OBVIOUS
    <3>1. Held(e)' <=> Held(e)
      BY <1>7 DEF Held, Final, RouterRests
    <3> QED
      BY <1>2, <1>7, <1>8, <3>1 DEF CarrierRests, HolderRests
  <2> QED
    BY <1>8, <1>9, <2>1, FeedServices
<1>19. InboxInv'
  <2>1. \A x \in Host : \A p : InInbox(x, p)' <=> InInbox(x, p)
    BY <1>2, <1>8, FeedInbox
  <2>2. \A e \in Router : Stays(e, 0) /\ (Held(e) => rpc'[e] = rpc[e])
    BY <1>8, HolderRestsStays
  <2>3. ~Delivered(d) /\ ~Delivered(d)'
    <3>1. \A e \in Router : Held(e)' => HeldHeader(e)'.SenderID # d
      <4> SUFFICES ASSUME NEW e \in Router, Held(e)' PROVE HeldHeader(e)'.SenderID # d
        OBVIOUS
      <4>1. Held(e) /\ HeldHeader(e)' = HeldHeader(e)
        <5>1. Held(e)' <=> Held(e)
          BY <1>7 DEF Held, Final, RouterRests
        <5> QED
          BY <1>8, <5>1 DEF HolderRests
      <4> QED
        BY <1>6, <4>1, HeldWaits
    <3> QED
      BY <1>2, <1>10, <3>1 DEF Delivered, Held, Router
  <2>4. \A s \in Host : ip'[s] = ip[s] /\ (Delivered(s)' <=> Delivered(s))
    <3> SUFFICES ASSUME NEW s \in Host, s # d PROVE Delivered(s)' <=> Delivered(s)
      BY <1>2, <2>3
    <3>1. apc'[s] = apc[s] /\ conflag'[s].dataflag = conflag[s].dataflag
      BY <1>2, <1>11 DEF Host
    <3> QED
      BY <2>2, <3>1, DeliveredFrame
  <2>5. ip \in [Device -> Nat \ {0}]
    BY DEF IInv, TypeOK
  <2> QED
    BY <2>1, <2>4, <2>5, InboxKept DEF ServiceInv
<1> QED
  BY <1>16, <1>17, <1>18, <1>19 DEF ServiceInv

\* A step at a queue that no routing thread scans.
LEMMA RecvPlaces ==
    ASSUME IInv, NEW n \in Device, NEW i \in QueueIndex(n), IsRecvQueue(n, i), Others(n, i),
           \A e \in Router : RouterRests(e) \/ (~Held(e) /\ ~Held(e)')
    PROVE  /\ \A e \in Router : HolderRests(e)
           /\ \A m \in Router, j \in Slot : j # 0 => Stays(m, j)
<1>1. ASSUME NEW e \in Router PROVE HolderRests(e)
  <2>1. Held(e) => e # n \/ sel[e].ind # i
    BY HeldFacts, RouterDrains
  <2> QED
    BY <2>1, HeldElsewhere DEF HolderRests
<1>2. ASSUME NEW m \in Router, NEW j \in Slot, j # 0 PROVE Stays(m, j)
  <2>1. j \in Scanned(m) => j \in QueueIndex(m) /\ m \in Device /\ (m # n \/ j # i)
    BY RouterDrains
  <2> QED
    BY <1>2, <2>1, QueueStays DEF Others
<1> QED
  BY <1>1, <1>2

LEMMA CarrierRestsToo ==
    ASSUME NEW e \in Router, RouterRests(e), HolderRests(e), ip' = ip
    PROVE  CarrierRests(e)
<1>1. Held(e)' <=> Held(e)
  BY DEF Held, Final, RouterRests
<1> QED
  BY <1>1 DEF CarrierRests, HolderRests

LEMMA GetMessageServes ==
    ASSUME IInv, ServiceInv, NEW d \in Device, GetMessage(d)
    PROVE  ServiceInv'
<1>1. RestTypes /\ GuestInv(d) /\ QueueTypes
  BY TypeSplit DEF IInv, ThreadsInv
<1> DEFINE i == RecvQueue(d)[2]
           q == hq[d][i]
           u == Released(q)
<1>2. apc[d] = "poll" /\ d \in Host
  BY <1>1 DEF GetMessage, GuestInv
<1>3. RecvQueue(d)[1] = d /\ i \in QueueIndex(d) /\ IsRecvQueue(d, i)
  BY <1>2, GuestDrains
<1>4. At(RecvQueue(d)) = q /\ At(RecvQueue(d))' = hq'[d][i]
  BY <1>3 DEF At, RecvQueue
<1>5. /\ ~Empty(q)
      /\ rcvd' = [rcvd EXCEPT ![d] = Append(@, HeadPayload(q))]
      /\ hdr' = [hdr EXCEPT ![d] = HeadHeader(q)]
      /\ hptr' = [hptr EXCEPT ![d] = q.consumer]
      /\ apc' = [apc EXCEPT ![d] = "late"]
      /\ UNCHANGED <<conflag, ip, rpc, index, sel, fptr>>
  BY <1>4 DEF GetMessage, routing
<1>6. hq' = [hq EXCEPT ![d][i] = u]
  BY <1>3, <1>4 DEF GetMessage, Set
<1>7. EvenQueue(q) /\ Message(d, i, HeadHeader(q), HeadPayload(q))
  BY <1>3, <1>5, QueueFacts
<1>8. EvenQueue(u) /\ KeepsTail(q, u) /\ Empty(u)
  <2> HIDE DEF q
  <2> QED
    BY <1>5, <1>7, ReleasedFacts
<1> HIDE DEF u, i
<1>9. hq'[d][i] = u /\ Others(d, i) /\ TailKept(d, i)
  <2>1. hq'[d][i] = u /\ Others(d, i)
    BY ONLY d \in Device, <1>1, <1>3, <1>6, <1>8, OneQueue
  <2> QED
    BY <1>8, <2>1 DEF TailKept
<1> HIDE DEF q
<1>10. \A e \in Router : RouterRests(e)
  BY <1>5 DEF RouterRests
<1>11. /\ \A e \in Router : HolderRests(e)
       /\ \A m \in Router, j \in Slot : j # 0 => Stays(m, j)
  BY <1>3, <1>9, <1>10, RecvPlaces
<1>12. \A e \in Router : Stays(e, 0) /\ (Held(e) => rpc'[e] = rpc[e])
  BY <1>11, HolderRestsStays
<1>13. \A s \in Host : SignalRests(s) /\ ip'[s] = ip[s]
  BY <1>1, <1>2, <1>5 DEF SignalRests, RestTypes, Host
<1>14. \A s \in Host : WaitsOn(s) /\ ip'[s] = ip[s] /\ (Delivered(s)' <=> Delivered(s))
  BY <1>12, <1>13, SignalRestsWaits
<1>15. TravelInv' /\ UniqueInv' /\ ServedInv'
  BY <1>11, <1>12, <1>14, PlacesStay DEF ServiceInv
<1>16. \A s \in Device : SenderInv(s)'
  <2>1. SenderInv(d)'
    BY <1>1, <1>5, SenderRuns DEF RestTypes
  <2>2. \A s \in Device : s # d => SenderRests(s)
    BY <1>1, <1>5 DEF SenderRests, GuestRests, RestTypes
  <2> QED
    BY <1>3, <1>9, <2>1, <2>2, DrainServices
<1>17. \A e \in Router : CarrierInv(e)'
  <2>1. \A e \in Router : CarrierRests(e)
    BY <1>5, <1>10, <1>11, CarrierRestsToo
  <2> QED
    BY <1>3, <1>9, <2>1, DrainServices
<1>18. InboxInv'
  <2>1. ASSUME NEW r \in Host, NEW p PROVE InInbox(r, p)' <=> InInbox(r, p)
    <3>1. CASE r = d
      <4> DEFINE x == HeadPayload(q)
      <4>1. rcvd[d] \in Seq(PayloadSet) /\ rcvd'[d] = Append(rcvd[d], x) /\ x \in PayloadSet
        BY <1>1, <1>5, <1>7 DEF RestTypes, Message, Addressed
      <4> HIDE DEF x
      <4>2. /\ Len(rcvd'[d]) = Len(rcvd[d]) + 1 /\ Len(rcvd[d]) \in Nat
            /\ rcvd'[d][Len(rcvd[d]) + 1] = x
            /\ \A k \in 1 .. Len(rcvd[d]) : rcvd'[d][k] = rcvd[d][k]
        BY <4>1
      <4>3. (\E k \in 1 .. Len(rcvd'[d]) : rcvd'[d][k] = p) <=>
               (\E k \in 1 .. Len(rcvd[d]) : rcvd[d][k] = p) \/ x = p
        <5>1. 1 .. Len(rcvd'[d]) = (1 .. Len(rcvd[d])) \cup {Len(rcvd[d]) + 1}
          BY ONLY <4>2
        <5> QED
          BY ONLY <4>2, <5>1
      <4>4. Empty(At(RecvQueue(d)))' /\ ~Empty(At(RecvQueue(d)))
            /\ HeadPayload(At(RecvQueue(d))) = x
        BY <1>4, <1>5, <1>8, <1>9 DEF x
      <4>5. InInbox(d, p)' <=> InInbox(d, p)
        BY ONLY <4>3, <4>4 DEF InInbox
      <4> QED
        BY <3>1, <4>5
    <3>2. CASE r # d
      <4>1. rcvd'[r] = rcvd[r]
        BY <1>1, <1>5, <3>2 DEF RestTypes, Host
      <4>2. At(RecvQueue(r))' = At(RecvQueue(r))
        <5>1. r \in Device /\ RecvQueue(r)[1] = r /\ RecvQueue(r)[2] \in QueueIndex(r)
          BY GuestDrains
        <5>2. RecvQueue(r)' = RecvQueue(r)
          BY DEF RecvQueue
        <5> QED
          BY <1>9, <3>2, <5>1, <5>2 DEF At, Others
      <4> QED
        BY <4>1, <4>2, InboxFrame
    <3> QED
      BY <3>1, <3>2
  <2>2. ip \in [Device -> Nat \ {0}]
    BY <1>1 DEF RestTypes
  <2> QED
    BY <1>14, <2>1, <2>2, InboxKept DEF ServiceInv
<1> QED
  BY <1>15, <1>16, <1>17, <1>18 DEF ServiceInv
---------------------------------------------------------------------------
(* A routing thread serves a packet. *)

\* It changes the queue i that it scans: the other places.
LEMMA DrainPlaces ==
    ASSUME IInv, NEW d \in Router, NEW i, Others(d, i),
           \A e \in Device : e # d => RouterRests(e)
    PROVE  /\ \A e \in Router : e # d => HolderRests(e) /\ RouterRests(e)
           /\ \A e \in Router : e # d => Stays(e, 0) /\ (Held(e) => rpc'[e] = rpc[e])
           /\ \A m \in Router, j \in Slot : m # d \/ (j # i /\ j # 0) => Stays(m, j)
<1>1. ASSUME NEW e \in Router, e # d PROVE HolderRests(e) /\ RouterRests(e)
  BY <1>1, HeldElsewhere DEF Router
<1>2. \A e \in Router : e # d => Stays(e, 0) /\ (Held(e) => rpc'[e] = rpc[e])
  BY <1>1, HolderRestsStays
<1>3. ASSUME NEW m \in Router, NEW j \in Slot, m # d \/ (j # i /\ j # 0) PROVE Stays(m, j)
  <2>1. CASE j = 0
    BY <1>2, <1>3, <2>1
  <2>2. CASE j # 0
    <3>1. j \in Scanned(m) => j \in QueueIndex(m) /\ m \in Device
      BY RouterDrains
    <3> QED
      BY <1>3, <2>2, <3>1, QueueStays DEF Others
  <2> QED
    BY <2>1, <2>2
<1> QED
  BY <1>1, <1>2, <1>3

LEMMA RewriteServes ==
    ASSUME IInv, ServiceInv, NEW d \in Device, rpc[d] = "serve", NEW h \in Header,
           h.SenderID = HeadHeader(From(d)).SenderID,
           h.ReceiverID = HeadHeader(From(d)).ReceiverID,
           Rewrite(d, h), fptr' = [fptr EXCEPT ![d] = From(d).consumer],
           rpc' = [rpc EXCEPT ![d] = "header"],
           UNCHANGED <<conflag, apc, ip, hdr, hptr, rcvd, index, sel>>
    PROVE  ServiceInv'
<1>1. RestTypes /\ RouteTypes /\ QueueTypes
  BY TypeSplit DEF IInv
<1> DEFINE i == sel[d].ind
           q == From(d)
           u == [q EXCEPT !.entry[q.consumer] = h]
<1>2. /\ d \in Router /\ i \in Scanned(d) /\ i \in QueueIndex(d) /\ ~IsRecvQueue(d, i)
      /\ EvenQueue(q) /\ ~Empty(q)
  BY ServeFacts DEF Busy
<1>3. hq' = [hq EXCEPT ![d][i] = u] /\ q = hq[d][i]
  BY DEF Rewrite, From
<1> HIDE DEF q
<1>4. /\ EvenQueue(u) /\ KeepsTail(q, u) /\ ~Empty(u) /\ u.consumer = q.consumer
      /\ HeadHeader(u) = h /\ HeadPayload(u) = HeadPayload(q)
  BY <1>2, RewriteFacts
<1> HIDE DEF u, i
<1>5. hq'[d][i] = u /\ Others(d, i)
  BY ONLY d \in Device, <1>1, <1>2, <1>3, <1>4, OneQueue
<1>6. TailKept(d, i)
  BY <1>3, <1>4, <1>5 DEF TailKept
<1>7. rpc'[d] = "header" /\ sel'[d] = sel[d] /\ fptr'[d] = q.consumer
      /\ \A e \in Device : e # d => RouterRests(e)
  BY <1>1 DEF RouteTypes, RouterRests, q
<1>8. /\ \A e \in Router : e # d => HolderRests(e) /\ RouterRests(e)
      /\ \A e \in Router : e # d => Stays(e, 0) /\ (Held(e) => rpc'[e] = rpc[e])
      /\ \A m \in Router, j \in Slot : m # d \/ (j # i /\ j # 0) => Stays(m, j)
  BY ONLY IInv, <1>2, <1>5, <1>7, DrainPlaces
<1>9. ~Held(d) /\ ~Held(d)'
  BY <1>7 DEF Held
<1>10. Stays(d, i)
  <2>1. i # 0 /\ i \in Scanned(d) /\ i' = i
    BY <1>2, <1>7, SlotFacts DEF i
  <2>2. PacketAt(d, i) /\ PacketAt(d, i)'
    BY <1>2, <1>3, <1>4, <1>5, <2>1 DEF PacketAt, Scanned, QueueIndex, NeighborNum
  <2>3. HeaderAt(d, i) = HeadHeader(q) /\ HeaderAt(d, i)' = h
    BY <1>3, <1>4, <1>5, <2>1 DEF HeaderAt
  <2>4. h.SenderID = HeadHeader(q).SenderID /\ h.ReceiverID = HeadHeader(q).ReceiverID
    BY DEF q
  <2>5. LinkAt(d, i)' = LinkAt(d, i)
    BY <1>7 DEF LinkAt, i
  <2>6. HeadPayload(hq'[d][i]) = HeadPayload(hq[d][i])
    BY <1>3, <1>4, <1>5
  <2>7. SenderAt(d, i)' = SenderAt(d, i) /\ (HeaderAt(d, i).ReceiverID)' = HeaderAt(d, i).ReceiverID
    BY <2>3, <2>4 DEF SenderAt
  <2> QED
    BY ONLY <2>2, <2>5, <2>6, <2>7 DEF Stays
<1>11. \A m \in Router, j \in Slot : Stays(m, j)
  BY <1>8, <1>9, <1>10, RestingStays
<1>12. \A e \in Router : Stays(e, 0) /\ (Held(e) => rpc'[e] = rpc[e])
  BY <1>8, <1>9, RestingStays
<1>13. \A s \in Host : SignalRests(s) /\ ip'[s] = ip[s]
  BY DEF SignalRests
<1>14. \A s \in Host : WaitsOn(s) /\ ip'[s] = ip[s] /\ (Delivered(s)' <=> Delivered(s))
  BY <1>12, <1>13, SignalRestsWaits
<1>15. TravelInv' /\ UniqueInv' /\ ServedInv'
  BY <1>11, <1>14, PlacesStay DEF ServiceInv
<1>16. \A s \in Device : SenderInv(s)'
  <2>1. \A s \in Device : SenderRests(s)
    BY DEF SenderRests, GuestRests
  <2> QED
    BY <1>2, <1>5, <1>6, <2>1, DrainServices
<1>17. \A e \in Router : CarrierInv(e)'
  <2>1. \A e \in Router : e # d => CarrierRests(e)
    BY <1>8, CarrierRestsToo
  <2>2. CarrierInv(d)'
    <3>1. From(d)'.consumer = fptr'[d]
      BY <1>4, <1>5, <1>7 DEF From, i
    <3> QED
      BY <1>7, <1>9, <3>1 DEF CarrierInv
  <2> QED
    BY <1>2, <1>5, <1>6, <2>1, <2>2, DrainServices
<1>18. InboxInv'
  <2>1. \A r \in Host : \A p : InInbox(r, p)' <=> InInbox(r, p)
    BY <1>2, <1>5, FeedInbox
  <2>2. ip \in [Device -> Nat \ {0}]
    BY <1>1 DEF RestTypes
  <2> QED
    BY <1>14, <2>1, <2>2, InboxKept DEF ServiceInv
<1> QED
  BY <1>15, <1>16, <1>17, <1>18 DEF ServiceInv

LEMMA DeliverServes ==
    ASSUME IInv, ServiceInv, NEW d \in Device, Deliver(d)
    PROVE  ServiceInv'
<1> DEFINE h == HeadHeader(From(d))
           rt == Later(rtime[d], h.SendTime)
           g == [h EXCEPT !.SendTime = rt]
<1>1. /\ rpc[d] = "serve"
      /\ Rewrite(d, g)
      /\ fptr' = [fptr EXCEPT ![d] = From(d).consumer]
      /\ rpc' = [rpc EXCEPT ![d] = "header"]
      /\ UNCHANGED <<conflag, apc, ip, hdr, hptr, rcvd, index, sel>>
  BY DEF Deliver, guest
<1>2. Good(h)
  BY <1>1, ServeFacts DEF Busy, Message
<1>3. rtime \in [Device -> Time]
  BY TypeSplit DEF IInv, RouteTypes
<1>4. rt \in Time
  BY <1>2, <1>3, HeaderTimes, TimeFacts DEF Good
<1> HIDE DEF rt
<1>5. h \in Header /\ h.TransTime \in Time /\ IsDelivered(g, h, rt)
  BY <1>2, HeaderTimes DEF Good, IsDelivered
<1> HIDE DEF g, h
<1>6. g \in Header /\ g.SenderID = h.SenderID /\ g.ReceiverID = h.ReceiverID
  BY ONLY d \in Device, <1>4, <1>5, HeaderUpdate
<1> QED
  BY <1>1, <1>6, RewriteServes DEF h

LEMMA ForwardServes ==
    ASSUME IInv, ServiceInv, NEW d \in Device, Forward(d)
    PROVE  ServiceInv'
<1> DEFINE h == HeadHeader(From(d))
           rt == Later(rtime[d], h.SendTime)
           own == h.SenderID = d
           s == IF own THEN rt ELSE Plus(rt, h.TransTime)
<1>1. /\ rpc[d] = "serve"
      /\ fptr' = [fptr EXCEPT ![d] = From(d).consumer]
      /\ rpc' = [rpc EXCEPT ![d] = "header"]
      /\ UNCHANGED <<conflag, apc, ip, hdr, hptr, rcvd, index, sel>>
  BY DEF Forward, guest
<1>2. PICK t \in IF own THEN {h.TransTime} ELSE Latency :
          Rewrite(d, [h EXCEPT !.ForwardID = d, !.SendTime = s, !.TransTime = t])
  BY DEF Forward
<1>3. Good(h)
  BY <1>1, ServeFacts DEF Busy, Message
<1>4. rtime \in [Device -> Time]
  BY TypeSplit DEF IInv, RouteTypes
<1>5. rt \in Time /\ h.TransTime \in Time
  BY <1>3, <1>4, HeaderTimes, TimeFacts DEF Good
<1>6. t \in Time
  BY <1>2, <1>3, <1>5, TimeAssumption DEF Good
<1> HIDE DEF rt
<1>7. s \in Time
  BY <1>5, <1>6, TimeFacts
<1> DEFINE g == [h EXCEPT !.ForwardID = d, !.SendTime = s, !.TransTime = t]
<1> HIDE DEF s
<1>8. h \in Header /\ IsForwarded(g, h, d, s, t)
  BY <1>3 DEF Good, IsForwarded
<1>9. Rewrite(d, g)
  BY <1>2
<1> HIDE DEF g, h
<1>10. g \in Header /\ g.SenderID = h.SenderID /\ g.ReceiverID = h.ReceiverID
  BY ONLY d \in Device, <1>6, <1>7, <1>8, HeaderUpdate
<1> QED
  BY <1>1, <1>9, <1>10, RewriteServes DEF h

\* The packet that d serves, as a place.
LEMMA ServedPlace ==
    ASSUME IInv, ServiceInv, NEW d \in Device, rpc[d] \in Busy
    PROVE  /\ d \in Router
           /\ sel[d].ind \in Slot /\ sel[d].ind # 0
           /\ PacketAt(d, sel[d].ind)
           /\ Traveller(d, sel[d].ind)
           /\ HeaderAt(d, sel[d].ind) = HeadHeader(From(d))
           /\ LinkAt(d, sel[d].ind) = sel[d].ind
           /\ hq[d][sel[d].ind] = From(d)
<1>1. d \in Router /\ sel[d].ind \in Scanned(d) /\ ~Empty(From(d))
  BY ServeFacts
<1>2. sel[d].ind \in Slot /\ sel[d].ind # 0
  BY <1>1, SlotFacts
<1>3. PacketAt(d, sel[d].ind)
  BY <1>1, <1>2 DEF PacketAt, From
<1> QED
  BY <1>1, <1>2, <1>3 DEF ServiceInv, TravelInv, HeaderAt, LinkAt, From

LEMMA ForwardFailServes ==
    ASSUME IInv, ServiceInv, NEW d \in Device, ForwardFail(d)
    PROVE  ServiceInv'
<1>1. RestTypes /\ RouteTypes /\ QueueTypes
  BY TypeSplit DEF IInv
<1> DEFINE i == sel[d].ind
           h == HeadHeader(From(d))
           rt == Later(rtime[d], h.SendTime)
           s == Plus(rt, h.TransTime)
           g == [h EXCEPT !.ForwardID = d, !.SendTime = s, !.TransTime = 0]
           q == From(d)
           v == [q EXCEPT !.entry[q.consumer] = g]
           u == Released(v)
           c == h.SenderID
<1>2. /\ rpc[d] = "serve"
      /\ conflag' = [conflag EXCEPT ![c] = [dataflag |-> 44, transtime |-> AddPointer(g.SendTime)]]
      /\ rpc' = [rpc EXCEPT ![d] = "idle"]
      /\ sel' = [sel EXCEPT ![d] = NoPacket]
      /\ UNCHANGED <<apc, ip, hdr, hptr, rcvd, index, fptr>>
  BY DEF ForwardFail, guest
<1>3. hq' = [hq EXCEPT ![d][i] = u] /\ q = hq[d][i]
  BY DEF ForwardFail, From
<1>4. /\ d \in Router /\ i \in Scanned(d) /\ i \in QueueIndex(d) /\ ~IsRecvQueue(d, i)
      /\ EvenQueue(q) /\ ~Empty(q) /\ Good(h)
  BY <1>2, ServeFacts DEF Busy, Message
<1>5. rt \in Time /\ h.TransTime \in Time /\ h.SenderID \in Device /\ h \in Header
  BY <1>1, <1>4, HeaderTimes, TimeFacts DEF Good, RouteTypes
<1>6. /\ i \in Slot /\ i # 0 /\ PacketAt(d, i) /\ Traveller(d, i)
      /\ SenderAt(d, i) = c
  BY <1>2, ServedPlace DEF Busy, SenderAt
<1>7. c \in Host /\ Waits(c)
  BY <1>6 DEF Traveller
<1> HIDE DEF rt, h
<1>8. s \in Time /\ 0 \in Time
  BY <1>5, TimeFacts
<1> HIDE DEF s
<1>9. g \in Header
  <2>1. IsForwarded(g, h, d, s, 0)
    BY DEF IsForwarded
  <2> HIDE DEF g
  <2> QED
    BY ONLY d \in Device, <1>5, <1>8, <2>1, HeaderUpdate
<1> HIDE DEF g, q
<1>10. EvenQueue(v) /\ KeepsTail(q, v) /\ ~Empty(v)
  BY <1>4, <1>9, RewriteFacts
<1> HIDE DEF v
<1>11. EvenQueue(u) /\ KeepsTail(v, u) /\ Empty(u)
  BY <1>10, ReleasedFacts
<1> HIDE DEF u
<1>12. KeepsTail(q, u)
  BY <1>10, <1>11 DEF KeepsTail
<1> HIDE DEF i, c
<1>13. hq'[d][i] = u /\ Others(d, i)
  BY ONLY d \in Device, <1>1, <1>4, <1>3, <1>11, OneQueue
<1>14. TailKept(d, i)
  BY <1>3, <1>12, <1>13 DEF TailKept
<1>15. rpc'[d] = "idle" /\ \A e \in Device : e # d => RouterRests(e)
  BY <1>1, <1>2 DEF RouteTypes, RouterRests
<1>16. /\ \A e \in Router : e # d => HolderRests(e) /\ RouterRests(e)
       /\ \A e \in Router : e # d => Stays(e, 0) /\ (Held(e) => rpc'[e] = rpc[e])
       /\ \A m \in Router, j \in Slot : m # d \/ (j # i /\ j # 0) => Stays(m, j)
  BY ONLY IInv, <1>4, <1>13, <1>15, DrainPlaces
<1>17. ~Held(d) /\ ~Held(d)' /\ Stays(d, 0)
  BY <1>2, <1>4, <1>15, RestingStays DEF Held
<1>18. conflag'[c].dataflag = 44 /\ \A x \in Device : x # c => conflag'[x] = conflag[x]
  BY <1>1, <1>2, <1>7 DEF RestTypes, Host
<1>19. TravelInv' /\ UniqueInv' /\ ServedInv'
  <2>1. TravelInv /\ UniqueInv /\ ServedInv
    BY DEF ServiceInv
  <2>2. OthersStay(d, i)
    BY <1>16, <1>17 DEF OthersStay
  <2>3. \A y \in Slot : (y = i /\ y # 0) => ~PacketAt(d, y)'
    BY <1>11, <1>13 DEF PacketAt
  <2>4. \A x \in Host : IF x = c THEN ~Waits(x)' ELSE WaitsOn(x)
    BY <1>2, <1>18 DEF Waits, WaitsOn, Host
  <2>5. PICK y \in Slot : y = i
    BY <1>6
  <2>6. PacketAt(d, y) /\ ~PacketAt(d, y)' /\ OthersStay(d, y)
        /\ \A x \in Host : IF x = SenderAt(d, y) THEN ~Waits(x)' ELSE WaitsOn(x)
    BY <1>6, <2>2, <2>3, <2>4, <2>5
  <2> QED
    BY ONLY <1>4, <2>1, <2>6, PacketEnds
<1>20. \A x \in Device : SenderInv(x)'
  <2>1. \A x \in Device : SenderRests(x)
    <3>1. apc[c] # "publish"
      BY <1>7 DEF Waits
    <3> QED
      BY <1>2, <1>18, <3>1 DEF SenderRests, GuestRests
  <2> QED
    BY <1>4, <1>13, <1>14, <2>1, DrainServices
<1>21. \A e \in Router : CarrierInv(e)'
  <2>1. \A e \in Router : e # d => CarrierRests(e)
    BY <1>2, <1>16, CarrierRestsToo
  <2>2. CarrierInv(d)'
    BY <1>15, ScansHoldNothing DEF Scanning
  <2> QED
    BY <1>4, <1>13, <1>14, <2>1, <2>2, DrainServices
<1>22. InboxInv'
  <2>1. \A r \in Host : \A p : InInbox(r, p)' <=> InInbox(r, p)
    BY <1>2, <1>4, <1>13, FeedInbox
  <2>2. ip \in [Device -> Nat \ {0}]
    BY <1>1 DEF RestTypes
  <2>3. ASSUME NEW x \in Host PROVE ip'[x] = ip[x] /\ (Delivered(x)' <=> Delivered(x))
    <3>1. \A e \in Router : Stays(e, 0) /\ (Held(e) => rpc'[e] = rpc[e])
      BY <1>16, <1>17
    <3>2. CASE x # c
      BY <1>2, <1>18, <3>1, <3>2, DeliveredFrame DEF Host
    <3>3. CASE x = c
      <4>1. \A e \in Router : Held(e) => SenderAt(e, 0) # c
        <5>1. \A e \in Router : Held(e) => PacketAt(e, 0) /\ 0 \in Slot
          BY DEF PacketAt, Slot
        <5> QED
          BY <1>4, <1>6, <5>1 DEF ServiceInv, UniqueInv
      <4>2. \A e \in Router : Held(e)' => (SenderAt(e, 0))' # c
        BY <3>1, <4>1 DEF Stays, PacketAt
      <4>3. ~Delivered(x)
        BY <1>7, <3>3, <4>1 DEF Delivered, Waits, Held, SenderAt, HeaderAt
      <4>4. ~Delivered(x)'
        BY <1>18, <3>3, <4>2 DEF Delivered, Held, SenderAt, HeaderAt, Router
      <4> QED
        BY <1>2, <4>3, <4>4
    <3> QED
      BY <3>2, <3>3
  <2> QED
    BY <2>1, <2>2, <2>3, InboxKept DEF ServiceInv
<1> QED
  BY <1>19, <1>20, <1>21, <1>22 DEF ServiceInv

\* A packet at d that goes on to n crosses the link between them.
LEMMA CrossesLink ==
    ASSUME ServiceInv, NEW d \in Router, NEW i \in Slot, PacketAt(d, i),
           NEW n, n # d, n = Hop(d, HeaderAt(d, i).ReceiverID)
    PROVE  LET s == SenderAt(d, i) IN s \in LinkUsers(d, n) /\ n \in OnRoute(s, Receiver(s))
<1> DEFINE s == SenderAt(d, i)
           r == Receiver(s)
<1>1. s \in Host /\ Waits(s) /\ HeaderAt(d, i).ReceiverID = r /\ d \in OnRoute(s, r)
  BY DEF ServiceInv, TravelInv, Traveller, Linked
<1>2. Posted(s)
  BY <1>1 DEF ServiceInv, SenderInv, Waits, Host
<1>3. r \in SendsTo(s) /\ r \in Host
  BY <1>1, <1>2 DEF Posted, SendsTo, Receiver
<1>4. d # r /\ n = NextHop[d][r]
  BY <1>1 DEF Hop
<1> HIDE DEF s, r
<1>5. s \in LinkUsers(d, n)
  BY <1>1, <1>3, <1>4 DEF LinkUsers
<1>6. n \in OnRoute(s, r)
  BY <1>1, <1>3, <1>4, RouteGoesOn
<1> QED
  BY <1>5, <1>6 DEF s, r

\* The ring of a link has room for the packets of its two senders: the thread
\* behind it is not about to signal from the entry that is written next.
LEMMA LinkFree ==
    ASSUME TwoPerLink, IInv, ServiceInv, NEW d \in Device, rpc[d] = "header",
           NEW n \in Router, Held(n), n = Target(d)[1], sel[n].ind = Target(d)[2]
    PROVE  fptr[n] # At(Target(d)).producer
<1> DEFINE i == Target(d)[2]
           j == sel[d].ind
<1>1. /\ d \in Router /\ j \in Slot /\ j # 0 /\ PacketAt(d, j)
      /\ HeaderAt(d, j) = HeadHeader(From(d))
  BY ServedPlace DEF Busy
<1>2. CanHop(d, sel[d].next) /\ sel[d].next = Hop(d, HeadHeader(From(d)).ReceiverID)
  BY ServeFacts DEF Busy, Selected
<1>3. n = sel[d].next /\ (n = d <=> i = LocalIn) /\ ~FedByGuest(n, i) /\ Feeder(n, i) = d
  BY <1>1, <1>2, RouterFeeds
<1>4. i \in Scanned(n) /\ i \in QueueIndex(n) /\ i \in Slot /\ i # 0 /\ From(n) = hq[n][i]
      /\ At(Target(d)) = hq[n][i]
  BY HeldFacts, SlotFacts DEF From, At
<1>5. n # d
  BY <1>3, <1>4 DEF Scanned
<1> HIDE DEF i, j
<1> SUFFICES ASSUME fptr[n] = hq[n][i].producer PROVE FALSE
  BY <1>4
<1>6. From(n).consumer # fptr[n]
  BY DEF ServiceInv, CarrierInv
<1>7. PacketAt(n, i) /\ PacketAt(n, 0) /\ 0 \in Slot
  BY <1>4, <1>6 DEF PacketAt, Empty, Slot
<1>8. LinkAt(n, i) = i /\ LinkAt(n, 0) = i
  BY <1>4 DEF LinkAt, i
<1>9. SenderAt(n, i) \in LinkUsers(d, n) /\ SenderAt(n, 0) \in LinkUsers(d, n)
  <2>1. Traveller(n, i) /\ Traveller(n, 0)
    BY <1>4, <1>7 DEF ServiceInv, TravelInv
  <2> QED
    BY <1>3, <1>8, <2>1 DEF Traveller, Linked
<1>10. SenderAt(d, j) \in LinkUsers(d, n)
  BY <1>1, <1>2, <1>3, <1>5, CrossesLink
<1>11. /\ SenderAt(n, i) # SenderAt(n, 0)
       /\ SenderAt(n, i) # SenderAt(d, j)
       /\ SenderAt(n, 0) # SenderAt(d, j)
  BY <1>1, <1>4, <1>5, <1>7 DEF ServiceInv, UniqueInv
<1> QED
  BY <1>1, <1>9, <1>10, <1>11 DEF TwoPerLink

\* A routing thread pushes.
LEMMA RouterCopies ==
    ASSUME IInv, NEW d \in Router, CanHop(d, sel[d].next), sel[d].ind \in Scanned(d), NEW u,
           hq' = [hq EXCEPT ![Target(d)[1]][Target(d)[2]] = u], EvenQueue(u),
           KeepsHead(At(Target(d)), u), u.consumer = At(Target(d)).consumer, sel' = sel,
           \A e \in Device : e # d => RouterRests(e)
    PROVE  /\ Target(d)[1] \in Device
           /\ Target(d)[2] \in QueueIndex(Target(d)[1])
           /\ ~FedByGuest(Target(d)[1], Target(d)[2])
           /\ Feeder(Target(d)[1], Target(d)[2]) = d
           /\ Others(Target(d)[1], Target(d)[2])
           /\ HeadKept(Target(d)[1], Target(d)[2])
           /\ At(Target(d)) = hq[Target(d)[1]][Target(d)[2]]
           /\ At(Target(d))' = u
           /\ Target(d)' = Target(d)
           /\ hq'[Target(d)[1]][Target(d)[2]] = u
           /\ From(d)' = From(d)
           /\ \A e \in Router : e # d => RouterRests(e)
           /\ \A e \in Router :
                 /\ e # d
                 /\ Held(e) /\ e = Target(d)[1] /\ sel[e].ind = Target(d)[2] =>
                        u.entry[fptr[e]] = At(Target(d)).entry[fptr[e]]
                 => HolderRests(e)
<1> DEFINE n == Target(d)[1]
           i == Target(d)[2]
<1>1. /\ n \in Device /\ i \in QueueIndex(n) /\ ~FedByGuest(n, i) /\ Feeder(n, i) = d
      /\ (n = d <=> i = LocalIn)
  BY RouterFeeds
<1>2. Target(d)' = Target(d)
  <2>1. sel' = sel
    OBVIOUS
  <2> QED
    BY ONLY <2>1 DEF Target, LinkOf, NeighborNum
<1>3. At(Target(d)) = hq[n][i] /\ At(Target(d))' = hq'[n][i]
  BY <1>2 DEF At
<1>4. hq' = [hq EXCEPT ![n][i] = u]
  OBVIOUS
<1> HIDE DEF n, i
<1>5. QueueTypes
  BY TypeSplit DEF IInv
<1>6. hq'[n][i] = u /\ Others(n, i)
  BY ONLY EvenQueue(u), <1>1, <1>4, <1>5, OneQueue
<1>7. HeadKept(n, i)
  BY <1>3, <1>6 DEF HeadKept
<1>8. From(d)' = From(d)
  <2>1. d \in Device /\ sel[d].ind \in QueueIndex(d) /\ (d # n \/ sel[d].ind # i)
    BY <1>1, RouterDrains DEF Scanned
  <2> QED
    BY <1>6, <2>1 DEF From, Others
<1>9. \A e \in Router : e # d => RouterRests(e)
  BY DEF Router
<1>10. ASSUME NEW e \in Router, e # d,
              Held(e) /\ e = n /\ sel[e].ind = i =>
                  u.entry[fptr[e]] = At(Target(d)).entry[fptr[e]]
       PROVE  HolderRests(e)
  <2>1. Held(e) => \/ e # n
                   \/ sel[e].ind # i
                   \/ hq'[n][i].entry[fptr[e]] = hq[n][i].entry[fptr[e]]
    BY <1>3, <1>6, <1>10
  <2> QED
    BY <1>6, <1>9, <1>10, <2>1, HeldElsewhere
<1> QED
  BY <1>1, <1>2, <1>3, <1>6, <1>7, <1>8, <1>9, <1>10 DEF n, i

LEMMA RouteHeaderServes ==
    ASSUME TwoPerLink, IInv, ServiceInv, NEW d \in Device, RouteHeader(d)
    PROVE  ServiceInv'
<1>1. RestTypes /\ RouteTypes
  BY TypeSplit DEF IInv
<1>2. /\ rpc[d] = "header"
      /\ rpc' = [rpc EXCEPT ![d] = "payload"]
      /\ UNCHANGED <<conflag, apc, ip, hdr, hptr, rcvd, index, sel, fptr>>
  BY DEF RouteHeader, guest
<1> DEFINE q == At(Target(d))
           h == HeadHeader(From(d))
           u == PutHeader(q, h)
           n == Target(d)[1]
           i == Target(d)[2]
<1>3. /\ d \in Router /\ CanHop(d, sel[d].next) /\ sel[d].ind \in Scanned(d) /\ h \in Header
  BY <1>2, ServeFacts DEF Busy, Message, Good
<1>4. EvenQueue(q) /\ hq' = [hq EXCEPT ![n][i] = u]
  BY <1>3, TargetFacts DEF RouteHeader
<1>5. /\ EvenQueue(u) /\ KeepsHead(q, u) /\ (Empty(u) <=> Empty(q)) /\ u.consumer = q.consumer
      /\ \A k \in Index : k # q.producer => u.entry[k] = q.entry[k]
  <2>1. q.producer \in Index /\ h \in Entry
    BY <1>3, <1>4, EvenFacts DEF EvenQueue, Entry
  <2> HIDE DEF q, h
  <2>2. EvenQueue(u) /\ KeepsHead(q, u) /\ (Empty(u) <=> Empty(q))
    BY <1>3, <1>4, PutHeaderFacts
  <2>3. u.consumer = q.consumer /\ \A k \in Index : k # q.producer => u.entry[k] = q.entry[k]
    BY <1>4, <2>1, QueueUpdate DEF PutHeader
  <2> QED
    BY <2>2, <2>3
<1> HIDE DEF u
<1>6. \A e \in Device : e # d => RouterRests(e)
  BY <1>1, <1>2 DEF RouteTypes, RouterRests
<1>7. /\ n \in Device /\ i \in QueueIndex(n) /\ ~FedByGuest(n, i) /\ Feeder(n, i) = d
      /\ Others(n, i) /\ HeadKept(n, i) /\ q = hq[n][i] /\ u = hq'[n][i]
      /\ From(d)' = From(d)
      /\ \A e \in Router : e # d => RouterRests(e)
      /\ \A e \in Router :
            /\ e # d
            /\ Held(e) /\ e = n /\ sel[e].ind = i =>
                   u.entry[fptr[e]] = q.entry[fptr[e]]
            => HolderRests(e)
  <2>1. sel' = sel
    BY <1>2
  <2> QED
    BY ONLY IInv, <1>3, <1>4, <1>5, <1>6, <2>1, RouterCopies
<1>8. \A e \in Router : Held(e) /\ e = n /\ sel[e].ind = i => u.entry[fptr[e]] = q.entry[fptr[e]]
  BY <1>2, <1>5, LinkFree, HeldFacts
<1>9. rpc'[d] = "payload" /\ ~Held(d) /\ ~Held(d)' /\ fptr'[d] = fptr[d]
  BY <1>1, <1>2 DEF RouteTypes, Held
<1>10. Empty(hq'[n][i]) <=> Empty(hq[n][i])
  BY <1>5, <1>7
<1> HIDE DEF q, n, i
<1>11. \A e \in Router : HolderRests(e)
  BY <1>7, <1>8, <1>9 DEF HolderRests
<1>12. CarrierInv(d)'
  <2>1. fptr'[d] = From(d)'.consumer
    BY <1>2, <1>3, <1>7, <1>9 DEF ServiceInv, CarrierInv
  <2> QED
    BY <1>9, <2>1 DEF CarrierInv
<1>13. \A s \in Device : SenderRests(s)
  BY <1>2 DEF SenderRests, GuestRests
<1>14. \A s \in Host : SignalRests(s)
  BY <1>2 DEF SignalRests
<1>15. UNCHANGED <<rcvd, ip>>
  BY <1>2
<1>16. \A e \in Router : CarrierInv(e)' \/ (RouterRests(e) /\ (FedByGuest(n, i) \/ Feeder(n, i) # e))
  BY <1>7, <1>12
<1> QED
  BY ONLY IInv, ServiceInv, <1>7, <1>10, <1>11, <1>13, <1>14, <1>15, <1>16, FeedServes

LEMMA RoutePayloadServes ==
    ASSUME IInv, ServiceInv, NEW d \in Device, RoutePayload(d)
    PROVE  ServiceInv'
<1>1. RestTypes /\ RouteTypes /\ RouterInv(d)
  BY TypeSplit DEF IInv, ThreadsInv
<1>2. /\ rpc[d] = "payload" /\ ~NoPayloadEntry(At(Target(d)))
      /\ rpc' = [rpc EXCEPT ![d] = "release"]
      /\ UNCHANGED <<conflag, apc, ip, hdr, hptr, rcvd, index, sel, fptr>>
  BY DEF RoutePayload, guest
<1> DEFINE q == At(Target(d))
           p == HeadPayload(From(d))
           u == PutPayload(q, p)
           n == Target(d)[1]
           i == Target(d)[2]
<1>3. /\ d \in Router /\ CanHop(d, sel[d].next) /\ sel[d].ind \in Scanned(d) /\ p \in PayloadSet
      /\ TailHeader(q) = HeadHeader(From(d))
  BY <1>1, <1>2, ServeFacts DEF Busy, Message, Addressed, RouterInv
<1>4. EvenQueue(q) /\ hq' = [hq EXCEPT ![n][i] = u]
  BY <1>3, TargetFacts DEF RoutePayload
<1>5. /\ EvenQueue(u) /\ KeepsHead(q, u) /\ (Empty(u) <=> Empty(q)) /\ u.consumer = q.consumer
      /\ TailHeader(u) = TailHeader(q) /\ TailPayload(u) = p
      /\ \A k \in Even : u.entry[k] = q.entry[k]
  <2>1. PayloadOf(q.producer) \in Index /\ PayloadOf(q.producer) \notin Even /\ p \in Entry
    BY <1>3, <1>4, EvenFacts DEF EvenQueue, Entry
  <2> HIDE DEF q, p
  <2>2. /\ EvenQueue(u) /\ KeepsHead(q, u) /\ Empty(u) /\ Empty(q)
        /\ TailHeader(u) = TailHeader(q) /\ TailPayload(u) = p
    BY <1>2, <1>3, <1>4, PutPayloadFacts DEF q
  <2>3. u.consumer = q.consumer
        /\ \A k \in Index : k # PayloadOf(q.producer) => u.entry[k] = q.entry[k]
    BY <1>4, <2>1, QueueUpdate DEF PutPayload
  <2> QED
    BY <2>1, <2>2, <2>3, EvenFacts
<1> HIDE DEF u
<1>6. \A e \in Device : e # d => RouterRests(e)
  BY <1>1, <1>2 DEF RouteTypes, RouterRests
<1>7. /\ n \in Device /\ i \in QueueIndex(n) /\ ~FedByGuest(n, i) /\ Feeder(n, i) = d
      /\ Others(n, i) /\ HeadKept(n, i) /\ q = hq[n][i] /\ u = hq'[n][i]
      /\ At(Target(d))' = u /\ From(d)' = From(d)
      /\ \A e \in Router : e # d => RouterRests(e)
      /\ \A e \in Router :
            /\ e # d
            /\ Held(e) /\ e = n /\ sel[e].ind = i =>
                   u.entry[fptr[e]] = q.entry[fptr[e]]
            => HolderRests(e)
  <2>1. sel' = sel
    BY <1>2
  <2> QED
    BY ONLY IInv, <1>3, <1>4, <1>5, <1>6, <2>1, RouterCopies
<1>8. \A e \in Router : Held(e) => u.entry[fptr[e]] = q.entry[fptr[e]]
  BY <1>5, HeldFacts
<1>9. rpc'[d] = "release" /\ ~Held(d) /\ ~Held(d)' /\ fptr'[d] = fptr[d]
  BY <1>1, <1>2 DEF RouteTypes, Held
<1>10. Empty(hq'[n][i]) <=> Empty(hq[n][i])
  BY <1>5, <1>7
<1> HIDE DEF q, n, i
<1>11. \A e \in Router : HolderRests(e)
  BY <1>7, <1>8, <1>9 DEF HolderRests
<1>12. CarrierInv(d)'
  <2>1. fptr'[d] = From(d)'.consumer
    BY <1>2, <1>3, <1>7, <1>9 DEF ServiceInv, CarrierInv
  <2>2. /\ TailHeader(At(Target(d)))' = HeadHeader(From(d))'
        /\ TailPayload(At(Target(d)))' = HeadPayload(From(d))'
    BY <1>3, <1>5, <1>7
  <2> QED
    BY <1>9, <2>1, <2>2 DEF CarrierInv
<1>13. \A s \in Device : SenderRests(s)
  BY <1>2 DEF SenderRests, GuestRests
<1>14. \A s \in Host : SignalRests(s)
  BY <1>2 DEF SignalRests
<1>15. UNCHANGED <<rcvd, ip>>
  BY <1>2
<1>16. \A e \in Router : CarrierInv(e)' \/ (RouterRests(e) /\ (FedByGuest(n, i) \/ Feeder(n, i) # e))
  BY <1>7, <1>12
<1> QED
  BY ONLY IInv, ServiceInv, <1>7, <1>10, <1>11, <1>13, <1>14, <1>15, <1>16, FeedServes

LEMMA DeliveredMoves ==
    ASSUME NEW s, apc'[s] = apc[s], conflag'[s].dataflag = conflag[s].dataflag,
           \A e \in Router : \/ Stays(e, 0) /\ (Held(e) => rpc'[e] = rpc[e])
                             \/ /\ rpc[e] # "signal" \/ ~Final(e)
                                /\ rpc'[e] # "signal" \/ ~Final(e)'
    PROVE  Delivered(s)' <=> Delivered(s)
<1>1. \A e \in Router : /\ (rpc[e] = "signal" /\ Final(e))' <=> rpc[e] = "signal" /\ Final(e)
                        /\ rpc[e] = "signal" /\ Final(e) =>
                              (HeldHeader(e).SenderID)' = HeldHeader(e).SenderID
  BY DEF Stays, PacketAt, SenderAt, HeaderAt, Held
<1> QED
  BY <1>1 DEF Delivered, Router

LEMMA RouteReleaseServes ==
    ASSUME IInv, ServiceInv, NEW d \in Device, RouteRelease(d)
    PROVE  ServiceInv'
<1>1. RestTypes /\ RouteTypes /\ QueueTypes
  BY TypeSplit DEF IInv
<1> DEFINE i == sel[d].ind
           q == From(d)
           u == Released(q)
<1>2. /\ rpc[d] = "release"
      /\ rpc' = [rpc EXCEPT ![d] = "publish"]
      /\ UNCHANGED <<conflag, apc, ip, hdr, hptr, rcvd, index, sel, fptr>>
  BY DEF RouteRelease, guest
<1>3. hq' = [hq EXCEPT ![d][i] = u] /\ q = hq[d][i]
  BY DEF RouteRelease, From
<1>4. /\ d \in Router /\ i \in Scanned(d) /\ i \in QueueIndex(d) /\ ~IsRecvQueue(d, i)
      /\ EvenQueue(q) /\ ~Empty(q) /\ CanHop(d, sel[d].next)
      /\ sel[d].next = Hop(d, HeadHeader(q).ReceiverID)
  BY <1>2, ServeFacts DEF Busy, Selected
<1>5. /\ i \in Slot /\ i # 0 /\ PacketAt(d, i) /\ Traveller(d, i)
      /\ HeaderAt(d, i) = HeadHeader(q) /\ LinkAt(d, i) = i
  BY <1>2, ServedPlace DEF Busy
<1>6. /\ fptr[d] = q.consumer
      /\ TailHeader(At(Target(d))) = HeadHeader(q) /\ TailPayload(At(Target(d))) = HeadPayload(q)
  BY <1>2, <1>4 DEF ServiceInv, CarrierInv
<1> HIDE DEF q
<1>7. EvenQueue(u) /\ KeepsTail(q, u) /\ Empty(u) /\ u.entry = q.entry /\ u.consumer # q.consumer
  <2>1. Advance(q.consumer) \in Even /\ Advance(q.consumer) # q.consumer
    BY <1>4, EvenFacts DEF EvenQueue
  <2>2. u.consumer = Advance(q.consumer)
    BY <1>4, <2>1, QueueUpdate DEF Released
  <2> QED
    BY <1>4, <2>1, <2>2, ReleasedFacts
<1> HIDE DEF u
<1>8. rpc'[d] = "publish" /\ sel'[d] = sel[d] /\ fptr'[d] = fptr[d] /\ i' = i
      /\ \A e \in Device : e # d => RouterRests(e)
  BY <1>1, <1>2 DEF RouteTypes, RouterRests
<1>9. sel[d].ind = i
  OBVIOUS
<1> HIDE DEF i
<1>10. hq'[d][i] = u /\ Others(d, i)
  BY ONLY d \in Device, <1>1, <1>3, <1>4, <1>7, OneQueue
<1>11. TailKept(d, i)
  BY <1>3, <1>7, <1>10 DEF TailKept
<1>12. /\ \A e \in Router : e # d => HolderRests(e) /\ RouterRests(e)
       /\ \A e \in Router : e # d => Stays(e, 0) /\ (Held(e) => rpc'[e] = rpc[e])
       /\ \A m \in Router, j \in Slot : m # d \/ (j # i /\ j # 0) => Stays(m, j)
  BY ONLY IInv, <1>4, <1>8, <1>10, DrainPlaces
<1>13. From(d)' = u /\ HeldHeader(d)' = HeadHeader(q) /\ Held(d)' /\ ~Held(d)
  <2>1. From(d)' = u
    BY <1>8, <1>9, <1>10 DEF From
  <2> QED
    BY <1>2, <1>6, <1>7, <1>8, <2>1 DEF HeldHeader, HeadHeader, Held
<1>14. At(Target(d))' = At(Target(d))
  <2>1. Target(d)' = Target(d)
    BY <1>8 DEF Target, LinkOf, NeighborNum
  <2>2. /\ Target(d)[1] \in Device /\ Target(d)[2] \in QueueIndex(Target(d)[1])
        /\ (Target(d)[1] = d <=> Target(d)[2] = LocalIn)
    BY <1>4, RouterFeeds
  <2>3. Target(d)[1] # d \/ Target(d)[2] # i
    BY <1>4, <2>2 DEF Scanned
  <2> QED
    BY <1>10, <2>1, <2>2, <2>3 DEF At, Others
<1>15. \A x \in Host : WaitsOn(x)
  BY <1>2 DEF WaitsOn, Waits
<1>16. PICK s \in Host :
         /\ s = HeadHeader(q).SenderID /\ s = SenderAt(d, i)
         /\ Waits(s) /\ HeadHeader(q).ReceiverID = Receiver(s)
         /\ Linked(d, i, s, Receiver(s)) /\ HeadPayload(q) = Payload(s, ip[s])
  BY <1>3, <1>5 DEF Traveller, SenderAt
<1>17. TravelInv' /\ UniqueInv' /\ ServedInv'
  <2>1. TravelInv /\ UniqueInv /\ ServedInv /\ 0 \in Slot
    BY DEF ServiceInv, Slot
  <2>2. ~PacketAt(d, 0) /\ PacketAt(d, 0)' /\ SenderAt(d, 0)' = s /\ s = SenderAt(d, i)
    BY <1>13, <1>16 DEF PacketAt, SenderAt, HeaderAt
  <2>3. Traveller(d, 0)'
    <3>1. /\ HeaderAt(d, 0)'.ReceiverID = Receiver(s) /\ LinkAt(d, 0)' = i
      BY <1>8, <1>9, <1>13, <1>16 DEF HeaderAt, LinkAt
    <3>2. Waits(s)' /\ Receiver(s)' = Receiver(s)
      BY <1>2, <1>16 DEF Waits, Receiver
    <3>3. Linked(d, i, s, Receiver(s))'
      BY <1>8, <1>16, <3>2, LinkedFrame
    <3> QED
      BY <1>8, <1>16, <2>2, <3>1, <3>2, <3>3 DEF Traveller, Host
  <2>4. \A o \in Router, k \in Slot : (o # d \/ k # i) /\ (o # d \/ k # 0) => Stays(o, k)
    BY <1>12
  <2>5. ~PacketAt(d, i)'
    BY <1>5, <1>7, <1>8, <1>10 DEF PacketAt
  <2>6. PICK y \in Slot : y = i
    BY <1>5
  <2>7. PacketAt(d, y) /\ ~PacketAt(d, y)' /\ SenderAt(d, 0)' = SenderAt(d, y)
        /\ \A o \in Router, k \in Slot : (o # d \/ k # y) /\ (o # d \/ k # 0) => Stays(o, k)
    BY <1>5, <1>8, <2>2, <2>4, <2>5, <2>6
  <2> QED
    BY ONLY <1>4, <1>15, <2>1, <2>2, <2>3, <2>7, PacketMoves
<1>18. \A x \in Device : SenderInv(x)'
  <2>1. \A x \in Device : SenderRests(x)
    BY <1>2 DEF SenderRests, GuestRests
  <2> QED
    BY <1>4, <1>10, <1>11, <2>1, DrainServices
<1>19. \A e \in Router : CarrierInv(e)'
  <2>1. \A e \in Router : e # d => CarrierRests(e)
    BY <1>2, <1>12, CarrierRestsToo
  <2>2. CarrierInv(d)'
    <3>1. From(d)'.consumer # fptr'[d]
      BY <1>6, <1>7, <1>8, <1>13
    <3>2. sel'[d].next = Hop(d, HeldHeader(d).ReceiverID)'
      BY <1>4, <1>8, <1>13 DEF Hop
    <3>3. TailHeader(At(Target(d)))' = HeldHeader(d)'
          /\ TailPayload(At(Target(d)))' = Payload(s, ip[s])
      BY <1>6, <1>13, <1>14, <1>16
    <3>4. HeldHeader(d)'.SenderID = s /\ ip' = ip
      BY <1>2, <1>13, <1>16
    <3> QED
      BY <1>8, <3>1, <3>2, <3>3, <3>4 DEF CarrierInv, Payload
  <2> QED
    BY <1>4, <1>10, <1>11, <2>1, <2>2, DrainServices
<1>20. InboxInv'
  <2>1. \A r \in Host : \A p : InInbox(r, p)' <=> InInbox(r, p)
    BY <1>2, <1>4, <1>10, FeedInbox
  <2>2. ip \in [Device -> Nat \ {0}]
    BY <1>1 DEF RestTypes
  <2>3. ASSUME NEW x \in Host PROVE ip'[x] = ip[x] /\ (Delivered(x)' <=> Delivered(x))
    BY <1>2, <1>8, <1>12, DeliveredMoves
  <2> QED
    BY <2>1, <2>2, <2>3, InboxKept DEF ServiceInv
<1> QED
  BY <1>17, <1>18, <1>19, <1>20 DEF ServiceInv

\* A payload that reaches its receiver.
LEMMA InboxGains ==
    ASSUME InboxInv, ip \in [Device -> Nat \ {0}], ip' = ip, \A x \in Device : SenderInv(x),
           NEW s \in Host, NEW n \in Host, n = Receiver(s),
           \A r \in Host : \A p : InInbox(r, p)' <=> InInbox(r, p) \/ (r = n /\ p = Payload(s, ip[s])),
           \A x \in Host : Delivered(x)' <=> Delivered(x) \/ x = s
    PROVE  InboxInv'
<1>1. ASSUME NEW r \in Host, NEW x \in Host, NEW k \in Nat, InInbox(r, Payload(x, k))'
      PROVE  k <= ip'[x] /\ (k = ip'[x] => Delivered(x)')
  <2>1. Payload(x, k)' = Payload(x, k)
    BY DEF Payload
  <2>2. CASE InInbox(r, Payload(x, k))
    BY <2>2 DEF InboxInv
  <2>3. CASE Payload(x, k) = Payload(s, ip[s])
    <3>1. x = s /\ k = ip[s]
      BY <2>3 DEF Payload
    <3> QED
      BY <3>1 DEF Host
  <2> QED
    BY <1>1, <2>1, <2>2, <2>3
<1>2. ASSUME NEW x \in Host, Delivered(x)'
      PROVE  InInbox(Receiver(x), Payload(x, ip[x]))'
  <2>1. Receiver(x)' = Receiver(x) /\ Payload(x, ip[x])' = Payload(x, ip[x])
    BY DEF Receiver, Payload
  <2>2. CASE Delivered(x)
    <3>1. Receiver(x) \in Host
      BY <2>2 DEF Delivered, SenderInv, Posted, Host
    <3> QED
      BY <2>1, <2>2, <3>1 DEF InboxInv
  <2>3. CASE x = s /\ ~Delivered(x)
    BY <2>1, <2>3
  <2> QED
    BY <1>2, <2>2, <2>3
<1> QED
  BY <1>1, <1>2 DEF InboxInv, Host

\* What the two cases of a publication have in common.
LEMMA PublishFacts ==
    ASSUME IInv, ServiceInv, NEW d \in Device, RoutePublish(d)
    PROVE  LET n == Target(d)[1]
               i == Target(d)[2]
               s == HeldHeader(d).SenderID
           IN  /\ d \in Router /\ n \in Device /\ i \in QueueIndex(n)
               /\ ~FedByGuest(n, i) /\ Feeder(n, i) = d
               /\ n = sel[d].next /\ (n = d <=> i = LocalIn)
               /\ Others(n, i) /\ HeadKept(n, i)
               /\ Empty(hq[n][i]) /\ ~Empty(hq'[n][i])
               /\ HeadHeader(hq'[n][i]) = HeldHeader(d)
               /\ HeadPayload(hq'[n][i]) = Payload(s, ip[s])
               /\ IsRecvQueue(n, i) => HeldHeader(d).ReceiverID = n
               /\ rpc'[d] = "signal" /\ rpc[d] = "publish" /\ Held(d)
               /\ UNCHANGED <<conflag, apc, ip, hdr, hptr, rcvd, index, sel, fptr>>
               /\ From(d)' = From(d)
               /\ \A e \in Router : e # d => RouterRests(e) /\ HolderRests(e)
<1>1. RestTypes /\ RouteTypes /\ RouterInv(d)
  BY TypeSplit DEF IInv, ThreadsInv
<1>2. /\ rpc[d] = "publish"
      /\ rpc' = [rpc EXCEPT ![d] = "signal"]
      /\ UNCHANGED <<conflag, apc, ip, hdr, hptr, rcvd, index, sel, fptr>>
  BY DEF RoutePublish, guest
<1> DEFINE q == At(Target(d))
           u == Published(q)
           n == Target(d)[1]
           i == Target(d)[2]
           s == HeldHeader(d).SenderID
<1>3. /\ d \in Router /\ CanHop(d, sel[d].next) /\ sel[d].ind \in Scanned(d)
      /\ Empty(q) /\ Message(n, i, TailHeader(q), TailPayload(q))
  BY <1>1, <1>2 DEF RouterInv
<1>4. EvenQueue(q) /\ hq' = [hq EXCEPT ![n][i] = u]
  BY <1>3, TargetFacts DEF RoutePublish
<1>5. Held(d) /\ TailHeader(q) = HeldHeader(d) /\ TailPayload(q) = Payload(s, ip[s])
  BY <1>2, <1>3 DEF ServiceInv, CarrierInv, Held
<1>6. /\ EvenQueue(u) /\ KeepsHead(q, u) /\ ~Empty(u) /\ u.consumer = q.consumer
      /\ u.entry = q.entry
      /\ HeadHeader(u) = TailHeader(q) /\ HeadPayload(u) = TailPayload(q)
  <2>1. Advance(q.producer) \in Even
    BY <1>4, EvenFacts DEF EvenQueue
  <2> HIDE DEF q
  <2>2. /\ EvenQueue(u) /\ KeepsHead(q, u) /\ ~Empty(u)
        /\ HeadHeader(u) = TailHeader(q) /\ HeadPayload(u) = TailPayload(q)
    BY <1>3, <1>4, PublishedFacts
  <2>3. u.consumer = q.consumer /\ u.entry = q.entry
    BY <1>4, <2>1, QueueUpdate DEF Published
  <2> QED
    BY <2>2, <2>3
<1> HIDE DEF u
<1>7. rpc'[d] = "signal" /\ \A e \in Device : e # d => RouterRests(e)
  BY <1>1, <1>2 DEF RouteTypes, RouterRests
<1>8. /\ n \in Device /\ i \in QueueIndex(n) /\ ~FedByGuest(n, i) /\ Feeder(n, i) = d
      /\ Others(n, i) /\ HeadKept(n, i) /\ q = hq[n][i] /\ u = hq'[n][i]
      /\ From(d)' = From(d)
      /\ \A e \in Router : e # d => RouterRests(e)
      /\ \A e \in Router :
            /\ e # d
            /\ Held(e) /\ e = n /\ sel[e].ind = i =>
                   u.entry[fptr[e]] = q.entry[fptr[e]]
            => HolderRests(e)
  <2>1. sel' = sel
    BY <1>2
  <2> QED
    BY ONLY IInv, <1>3, <1>4, <1>6, <1>7, <2>1, RouterCopies
<1>9. n = sel[d].next /\ (n = d <=> i = LocalIn)
  BY <1>3, RouterFeeds
<1>10. IsRecvQueue(n, i) => HeldHeader(d).ReceiverID = n
  BY <1>3, <1>5 DEF Message
<1>11. /\ Empty(hq[n][i]) /\ ~Empty(hq'[n][i])
       /\ HeadHeader(hq'[n][i]) = HeldHeader(d)
       /\ HeadPayload(hq'[n][i]) = Payload(s, ip[s])
  BY <1>3, <1>5, <1>6, <1>8
<1>12. \A e \in Router : e # d => RouterRests(e) /\ HolderRests(e)
  BY <1>6, <1>8
<1> HIDE DEF q, n, i, s
<1> QED
  BY <1>2, <1>3, <1>5, <1>7, <1>8, <1>9, <1>10, <1>11, <1>12 DEF n, i, s

\* The last hop: the packet is with its receiver.
LEMMA PublishFinal ==
    ASSUME IInv, ServiceInv, NEW d \in Device, RoutePublish(d), Final(d)
    PROVE  ServiceInv'
<1> DEFINE n == Target(d)[1]
           i == Target(d)[2]
<1>1. /\ d \in Router /\ n \in Device /\ i \in QueueIndex(n)
      /\ ~FedByGuest(n, i) /\ Feeder(n, i) = d
      /\ n = sel[d].next /\ (n = d <=> i = LocalIn)
      /\ Others(n, i) /\ HeadKept(n, i)
      /\ Empty(hq[n][i]) /\ ~Empty(hq'[n][i])
      /\ HeadPayload(hq'[n][i]) = Payload(HeldHeader(d).SenderID, ip[HeldHeader(d).SenderID])
      /\ IsRecvQueue(n, i) => HeldHeader(d).ReceiverID = n
      /\ rpc'[d] = "signal" /\ rpc[d] = "publish" /\ Held(d)
      /\ UNCHANGED <<conflag, apc, ip, hdr, hptr, rcvd, index, sel, fptr>>
      /\ From(d)' = From(d)
      /\ \A e \in Router : e # d => RouterRests(e) /\ HolderRests(e)
  BY PublishFacts
<1> HIDE DEF n, i
<1>2. PICK s \in Host : s = HeldHeader(d).SenderID /\ Waits(s) /\ HeldHeader(d).ReceiverID = Receiver(s)
  BY <1>1, HeldWaits
<1>3. IsRecvQueue(n, i) /\ n = Receiver(s)
  BY <1>1, <1>2 DEF Final, IsRecvQueue
<1>4. Held(d)' /\ HeldHeader(d)' = HeldHeader(d)
  BY <1>1 DEF Held, Final, HeldHeader
<1>5. Stays(d, 0)
  BY <1>1, <1>4 DEF Stays, PacketAt, SenderAt, HeaderAt, LinkAt
<1>6. \A m \in Router, j \in Slot : Stays(m, j)
  <2> SUFFICES ASSUME NEW m \in Router, NEW j \in Slot PROVE Stays(m, j)
    OBVIOUS
  <2>1. CASE j = 0
    BY <1>1, <1>5, <2>1, HolderRestsStays
  <2>2. CASE j # 0
    <3>1. j \in Scanned(m) => j \in QueueIndex(m) /\ m \in Device /\ (m # n \/ j # i)
      BY <1>3, RouterDrains
    <3> QED
      BY <1>1, <2>2, <3>1, QueueStays DEF Others
  <2> QED
    BY <2>1, <2>2
<1>7. \A x \in Host : WaitsOn(x)
  BY <1>1 DEF WaitsOn, Waits
<1>8. TravelInv' /\ UniqueInv' /\ ServedInv'
  BY <1>6, <1>7, PlacesStay DEF ServiceInv
<1>9. \A x \in Device : SenderInv(x)'
  <2>1. \A x \in Device : SenderRests(x)
    BY <1>1 DEF SenderRests, GuestRests
  <2> QED
    BY <1>1, <2>1, FeedServices
<1>10. \A e \in Router : CarrierInv(e)'
  <2>1. \A e \in Router : e # d => CarrierRests(e)
    BY <1>1, CarrierRestsToo
  <2>2. CarrierInv(d)'
    <3>1. From(d).consumer # fptr[d] /\ sel[d].next = Hop(d, HeldHeader(d).ReceiverID)
      BY <1>1 DEF ServiceInv, CarrierInv
    <3>2. From(d)'.consumer # fptr'[d] /\ sel'[d].next = Hop(d, HeldHeader(d).ReceiverID)'
      BY <1>1, <1>4, <3>1 DEF Hop
    <3> QED
      BY <1>1, <3>2 DEF CarrierInv
  <2> QED
    BY <1>1, <2>1, <2>2, FeedServices
<1>11. InboxInv'
  <2>1. Posted(s) /\ n \in Host
    BY <1>2, <1>3 DEF ServiceInv, SenderInv, Waits, Posted, Host
  <2>2. ASSUME NEW r \in Host, NEW p
        PROVE  InInbox(r, p)' <=> InInbox(r, p) \/ (r = n /\ p = Payload(s, ip[s]))
    <3>1. RecvQueue(r)' = RecvQueue(r) /\ rcvd'[r] = rcvd[r]
      BY <1>1 DEF RecvQueue
    <3>2. r \in Device /\ RecvQueue(r)[1] = r /\ RecvQueue(r)[2] \in QueueIndex(r)
          /\ IsRecvQueue(r, RecvQueue(r)[2])
      BY GuestDrains
    <3>3. CASE r = n
      <4>1. RecvQueue(r)[2] = i
        <5>1. CASE sel[d].next = d
          BY <1>1, <3>3, <5>1, TopologyAssumption DEF RecvQueue, Router
        <5>2. CASE sel[d].next # d
          <6>1. DeviceType[n] = "ZED" /\ i = LinkOf(n, d)
            BY <1>1, <5>2 DEF Final, Target, n, i
          <6> QED
            BY <3>3, <6>1 DEF RecvQueue, LinkOf
        <5> QED
          BY <5>1, <5>2
      <4>2. At(RecvQueue(r)) = hq[n][i] /\ At(RecvQueue(r))' = hq'[n][i]
        BY <3>1, <3>2, <3>3, <4>1 DEF At
      <4>3. Empty(At(RecvQueue(r))) /\ ~Empty(At(RecvQueue(r)))'
            /\ HeadPayload(At(RecvQueue(r)))' = Payload(s, ip[s])
        BY <1>1, <1>2, <4>2
      <4> QED
        BY ONLY <3>1, <3>3, <4>3 DEF InInbox
    <3>4. CASE r # n
      <4>1. At(RecvQueue(r))' = At(RecvQueue(r))
        BY <1>1, <3>1, <3>2, <3>4 DEF At, Others
      <4> QED
        BY <3>1, <3>4, <4>1, InboxFrame
    <3> QED
      BY <3>3, <3>4
  <2>3. ASSUME NEW x \in Host PROVE Delivered(x)' <=> Delivered(x) \/ x = s
    <3>1. \A e \in Router : e # d => Stays(e, 0) /\ (Held(e) => rpc'[e] = rpc[e])
      BY <1>1, HolderRestsStays
    <3>2. \A e \in Router : e # d =>
             /\ (rpc[e] = "signal" /\ Final(e))' <=> rpc[e] = "signal" /\ Final(e)
             /\ rpc[e] = "signal" /\ Final(e) =>
                   (HeldHeader(e).SenderID)' = HeldHeader(e).SenderID
      BY <3>1 DEF Stays, PacketAt, SenderAt, HeaderAt, Held
    <3>3. rpc'[d] = "signal" /\ Final(d)' /\ (HeldHeader(d).SenderID)' = s /\ rpc[d] # "signal"
      BY <1>1, <1>2, <1>4 DEF Final
    <3>4. apc'[x] = apc[x] /\ conflag'[x] = conflag[x] /\ apc[s] = "signal"
      BY <1>1, <1>2 DEF Waits
    <3> QED
      BY <1>1, <3>2, <3>3, <3>4 DEF Delivered, Router
  <2>4. ip \in [Device -> Nat \ {0}] /\ ip' = ip
    BY <1>1 DEF IInv, TypeOK
  <2>5. InboxInv /\ \A x \in Device : SenderInv(x)
    BY DEF ServiceInv
  <2> QED
    BY ONLY <1>3, <2>1, <2>2, <2>3, <2>4, <2>5, s \in Host, InboxGains
<1> QED
  BY <1>8, <1>9, <1>10, <1>11 DEF ServiceInv

\* Another hop: the packet moves to the next router.
LEMMA PublishOn ==
    ASSUME IInv, ServiceInv, NEW d \in Device, RoutePublish(d), ~Final(d)
    PROVE  ServiceInv'
<1>1. PICK n, i :
        /\ n = Target(d)[1] /\ i = Target(d)[2]
        /\ d \in Router /\ n \in Device /\ i \in QueueIndex(n)
        /\ ~FedByGuest(n, i) /\ Feeder(n, i) = d
        /\ n = sel[d].next /\ (n = d <=> i = LocalIn)
        /\ Others(n, i) /\ HeadKept(n, i)
        /\ Empty(hq[n][i]) /\ ~Empty(hq'[n][i])
        /\ HeadHeader(hq'[n][i]) = HeldHeader(d)
        /\ HeadPayload(hq'[n][i]) = Payload(HeldHeader(d).SenderID, ip[HeldHeader(d).SenderID])
        /\ rpc'[d] = "signal" /\ rpc[d] = "publish" /\ Held(d)
        /\ UNCHANGED <<conflag, apc, ip, hdr, hptr, rcvd, index, sel, fptr>>
        /\ From(d)' = From(d)
        /\ \A e \in Router : e # d => RouterRests(e) /\ HolderRests(e)
  BY PublishFacts
<1>2. PICK s \in Host : s = HeldHeader(d).SenderID /\ Waits(s) /\ HeldHeader(d).ReceiverID = Receiver(s)
  BY <1>1, HeldWaits
<1>3. n # d /\ i # LocalIn /\ DeviceType[n] # "ZED"
  BY <1>1 DEF Final
<1>4. n \in Router /\ i \in Scanned(n) /\ i \in Slot /\ i # 0 /\ ~IsRecvQueue(n, i)
  <2>1. n \in Router /\ i \in Scanned(n)
    BY <1>1, <1>3 DEF Router, Scanned
  <2> QED
    BY <1>3, <2>1, SlotFacts DEF IsRecvQueue
<1>5. ~Final(d)' /\ ~Held(d)' /\ 0 \in Slot /\ PacketAt(d, 0) /\ ~PacketAt(d, 0)'
  <2>1. ~Final(d)' /\ ~Held(d)'
    BY <1>1 DEF Held, Final
  <2> QED
    BY <1>1, <2>1 DEF PacketAt, Slot
<1>6. HeaderAt(d, 0) = HeldHeader(d) /\ SenderAt(d, 0) = s
  BY <1>2 DEF HeaderAt, SenderAt
<1>7. Linked(n, i, s, Receiver(s))
  <2>1. n = Hop(d, HeaderAt(d, 0).ReceiverID)
    BY <1>1, <1>6 DEF ServiceInv, CarrierInv
  <2>2. s \in LinkUsers(d, n) /\ n \in OnRoute(s, Receiver(s))
    BY <1>1, <1>3, <1>5, <1>6, <2>1, CrossesLink
  <2> QED
    BY <1>1, <2>2 DEF Linked
<1>8. ~PacketAt(n, i) /\ PacketAt(n, i)' /\ SenderAt(n, i)' = s
  <2>1. i \in Scanned(n)'
    BY <1>4 DEF Scanned, QueueIndex, NeighborNum
  <2> QED
    BY <1>1, <1>2, <1>4, <2>1 DEF PacketAt, SenderAt, HeaderAt
<1>9. Traveller(n, i)'
  <2>1. Waits(s)' /\ Receiver(s)' = Receiver(s) /\ ip'[s] = ip[s]
    BY <1>1, <1>2 DEF Waits, Receiver
  <2>2. HeaderAt(n, i)'.ReceiverID = Receiver(s) /\ LinkAt(n, i)' = i
        /\ HeadPayload(hq'[n][i]) = Payload(s, ip'[s])
    BY <1>1, <1>2, <1>4 DEF HeaderAt, LinkAt
  <2>3. Linked(n, i, s, Receiver(s))'
    BY <1>7, <2>1, LinkedFrame
  <2>4. s \in Host' /\ Payload(s, ip[s])' = Payload(s, ip'[s])
    BY DEF Host, Payload
  <2> QED
    BY <1>8, <2>1, <2>2, <2>3, <2>4 DEF Traveller
<1>10. ASSUME NEW m \in Router, NEW j \in Slot, m # d \/ j # 0, m # n \/ j # i PROVE Stays(m, j)
  <2>1. CASE j = 0
    BY <1>1, <1>10, <2>1, HolderRestsStays
  <2>2. CASE j # 0
    <3>1. j \in Scanned(m) => j \in QueueIndex(m) /\ m \in Device
      BY RouterDrains
    <3> QED
      BY <1>1, <1>10, <2>2, <3>1, QueueStays DEF Others
  <2> QED
    BY <2>1, <2>2
<1>11. \A x \in Host : WaitsOn(x)
  BY <1>1 DEF WaitsOn, Waits
<1>12. TravelInv' /\ UniqueInv' /\ ServedInv'
  <2>1. TravelInv /\ UniqueInv /\ ServedInv /\ d \in Router
    BY <1>1 DEF ServiceInv
  <2>2. SenderAt(n, i)' = SenderAt(d, 0)
    BY <1>6, <1>8
  <2>3. \A o \in Router, k \in Slot : (o # d \/ k # 0) /\ (o # n \/ k # i) => Stays(o, k)
    BY <1>10
  <2> QED
    BY ONLY <1>4, <1>5, <1>8, <1>9, <1>11, <2>1, <2>2, <2>3, PacketMoves
<1>13. \A x \in Device : SenderInv(x)'
  <2>1. \A x \in Device : SenderRests(x)
    BY <1>1 DEF SenderRests, GuestRests
  <2> QED
    BY <1>1, <2>1, FeedServices
<1>14. \A e \in Router : CarrierInv(e)'
  <2>1. \A e \in Router : e # d => CarrierRests(e)
    BY <1>1, CarrierRestsToo
  <2>2. CarrierInv(d)'
    BY <1>1, <1>5 DEF CarrierInv
  <2> QED
    BY <1>1, <2>1, <2>2, FeedServices
<1>15. InboxInv'
  <2>1. \A r \in Host : \A p : InInbox(r, p)' <=> InInbox(r, p)
    BY <1>1, <1>4, FeedInbox
  <2>2. ip \in [Device -> Nat \ {0}]
    BY DEF IInv, TypeOK
  <2>3. ASSUME NEW x \in Host PROVE ip'[x] = ip[x] /\ (Delivered(x)' <=> Delivered(x))
    <3>1. \A e \in Router : e # d => Stays(e, 0) /\ (Held(e) => rpc'[e] = rpc[e])
      BY <1>1, HolderRestsStays
    <3> QED
      BY <1>1, <1>5, <3>1, DeliveredMoves
  <2> QED
    BY <2>1, <2>2, <2>3, InboxKept DEF ServiceInv
<1> QED
  BY <1>12, <1>13, <1>14, <1>15 DEF ServiceInv

LEMMA RoutePublishServes ==
    ASSUME IInv, ServiceInv, NEW d \in Device, RoutePublish(d)
    PROVE  ServiceInv'
BY PublishFinal, PublishOn

\* A delivery is signalled to the sender that the held header names.
LEMMA FinalSignals ==
    ASSUME IInv, ServiceInv, NEW d \in Router, rpc[d] = "signal", Final(d)
    PROVE  \/ sel[d].next = d
           \/ HeldHeader(d).ReceiverID = sel[d].next /\ DeviceType[sel[d].next] = "ZED"
<1>1. Held(d)
  BY DEF Held
<1>2. sel[d].next = Hop(d, HeldHeader(d).ReceiverID)
  BY <1>1 DEF ServiceInv, CarrierInv
<1>3. HeldHeader(d).ReceiverID \in Host
  <2>1. HeldHeader(d).SenderID \in Host /\ Waits(HeldHeader(d).SenderID)
        /\ HeldHeader(d).ReceiverID = Receiver(HeldHeader(d).SenderID)
    BY <1>1, HeldWaits
  <2> QED
    BY <2>1 DEF ServiceInv, SenderInv, Waits, Posted, Host
<1> SUFFICES ASSUME sel[d].next # d
             PROVE  HeldHeader(d).ReceiverID = sel[d].next /\ DeviceType[sel[d].next] = "ZED"
  OBVIOUS
<1>4. DeviceType[sel[d].next] = "ZED"
  BY DEF Final
<1> QED
  BY <1>2, <1>3, <1>4, TopologyAssumption DEF Hop, Router

LEMMA RouteSignalServes ==
    ASSUME IInv, ServiceInv, NEW d \in Device, RouteSignal(d)
    PROVE  ServiceInv'
<1>1. RestTypes /\ RouteTypes /\ RouterInv(d)
  BY TypeSplit DEF IInv, ThreadsInv
<1> DEFINE h == HeldHeader(d)
           rt == IF sel[d].next = d THEN Plus(rtime[d], h.TransTime) ELSE rtime[d]
           told == sel[d].next = d \/ (h.ReceiverID = sel[d].next /\ DeviceType[sel[d].next] = "ZED")
<1>2. /\ rpc[d] = "signal"
      /\ conflag' = IF told
                    THEN [conflag EXCEPT ![h.SenderID] = [dataflag |-> 0, transtime |-> rt]]
                    ELSE conflag
      /\ rpc' = [rpc EXCEPT ![d] = "idle"]
      /\ sel' = [sel EXCEPT ![d] = NoPacket]
      /\ fptr' = [fptr EXCEPT ![d] = 0]
      /\ UNCHANGED <<hq, apc, ip, hdr, hptr, rcvd, index>>
  BY DEF RouteSignal, guest, HeldHeader
<1>3. d \in Router
  BY <1>1, <1>2 DEF RouterInv
<1>4. rpc'[d] = "idle" /\ \A e \in Device : e # d => RouterRests(e)
  BY <1>1, <1>2 DEF RouteTypes, RouterRests
<1>5. \A e \in Router : e # d => /\ Stays(e, 0)
                                 /\ RouterRests(e)
                                 /\ HeldHeader(e)' = HeldHeader(e)
  BY <1>2, <1>4, OtherHolders
<1>6. ~Held(d)' /\ CarrierInv(d)'
  BY <1>4, ScansHoldNothing DEF Scanning
<1>7. \A m \in Router, j \in Slot : m # d \/ j # 0 => Stays(m, j)
  BY <1>2, <1>5, QueueStays
<1> HIDE DEF rt
<1>8. \A e \in Router : CarrierInv(e)'
  <2>1. \A e \in Router : e # d => CarrierRests(e)
    BY <1>2, <1>5 DEF CarrierRests
  <2> QED
    BY <1>2, <1>6, <2>1, StillServices
<1>9. \A r \in Host : \A p : InInbox(r, p)' <=> InInbox(r, p)
  BY <1>2, StillInbox
<1>10. ip \in [Device -> Nat \ {0}] /\ ip' = ip
  BY <1>1, <1>2 DEF RestTypes
<1>11. CASE Final(d)
  <2>1. Held(d) /\ told
    BY <1>2, <1>3, <1>11, FinalSignals DEF Held
  <2>2. PICK s \in Host : s = h.SenderID /\ Waits(s)
    BY <1>3, <2>1, HeldWaits
  <2>3. conflag'[s].dataflag = 0 /\ \A x \in Device : x # s => conflag'[x] = conflag[x]
    <3>1. s \in Device /\ conflag' = [conflag EXCEPT ![s] = [dataflag |-> 0, transtime |-> rt]]
      BY <1>2, <2>1, <2>2 DEF Host
    <3> QED
      BY ONLY <1>1, <3>1 DEF RestTypes
  <2>4. TravelInv' /\ UniqueInv' /\ ServedInv'
    <3>1. TravelInv /\ UniqueInv /\ ServedInv /\ 0 \in Slot
      BY DEF ServiceInv, Slot
    <3>2. PacketAt(d, 0) /\ ~PacketAt(d, 0)' /\ SenderAt(d, 0) = s /\ OthersStay(d, 0)
      BY <1>6, <1>7, <2>1, <2>2 DEF PacketAt, SenderAt, HeaderAt, OthersStay
    <3>3. \A x \in Host : IF x = SenderAt(d, 0) THEN ~Waits(x)' ELSE WaitsOn(x)
      BY <1>2, <2>3, <3>2 DEF Waits, WaitsOn, Host
    <3> QED
      BY ONLY <1>3, <3>1, <3>2, <3>3, PacketEnds
  <2>5. \A x \in Device : SenderInv(x)'
    <3>1. \A x \in Device : SenderRests(x)
      BY <1>2, <2>2, <2>3 DEF SenderRests, GuestRests, Waits
    <3> QED
      BY <1>2, <3>1, StillServices
  <2>6. ASSUME NEW x \in Host PROVE ip'[x] = ip[x] /\ (Delivered(x)' <=> Delivered(x))
    <3>1. CASE x = s
      BY <1>2, <1>3, <1>11, <2>2, <2>3, <3>1 DEF Delivered, Waits
    <3>2. CASE x # s
      <4>1. \A e \in Router : e # d =>
             /\ (rpc[e] = "signal" /\ Final(e))' <=> rpc[e] = "signal" /\ Final(e)
             /\ HeldHeader(e)' = HeldHeader(e)
        BY <1>5 DEF RouterRests, Final
      <4>2. apc'[x] = apc[x] /\ conflag'[x] = conflag[x]
        BY <1>2, <2>3, <3>2 DEF Host
      <4> QED
        BY <1>2, <1>4, <2>2, <3>2, <4>1, <4>2 DEF Delivered, Router
    <3> QED
      BY <1>2, <3>1, <3>2
  <2>7. InboxInv'
    BY <1>9, <1>10, <2>6, InboxKept DEF ServiceInv
  <2> QED
    BY <1>8, <2>4, <2>5, <2>7 DEF ServiceInv
<1>12. CASE ~Final(d)
  <2>1. ~Held(d) /\ conflag' = conflag
    BY <1>2, <1>12 DEF Held, Final
  <2>2. \A m \in Router, j \in Slot : Stays(m, j)
    BY <1>3, <1>6, <1>7, <2>1, RestingStays
  <2>3. \A x \in Host : WaitsOn(x)
    BY <1>2, <2>1 DEF WaitsOn, Waits
  <2>4. TravelInv' /\ UniqueInv' /\ ServedInv'
    BY <2>2, <2>3, PlacesStay DEF ServiceInv
  <2>5. \A x \in Device : SenderInv(x)'
    <3>1. \A x \in Device : SenderRests(x)
      BY <1>2, <2>1 DEF SenderRests, GuestRests
    <3> QED
      BY <1>2, <3>1, StillServices
  <2>6. \A x \in Host : ip'[x] = ip[x] /\ (Delivered(x)' <=> Delivered(x))
    <3>1. \A e \in Router : \/ Stays(e, 0) /\ (Held(e) => rpc'[e] = rpc[e])
                            \/ /\ rpc[e] # "signal" \/ ~Final(e)
                               /\ rpc'[e] # "signal" \/ ~Final(e)'
      BY <1>4, <1>5, <1>12 DEF RouterRests
    <3> QED
      BY <1>2, <2>1, <3>1, DeliveredMoves
  <2>7. InboxInv'
    BY <1>9, <1>10, <2>6, InboxKept DEF ServiceInv
  <2> QED
    BY <1>8, <2>4, <2>5, <2>7 DEF ServiceInv
<1> QED
  BY <1>11, <1>12
---------------------------------------------------------------------------
(* The invariant. *)

LEMMA InitServes == Init => ServiceInv
<1> SUFFICES ASSUME Init PROVE ServiceInv
  OBVIOUS
<1>1. \A d \in Device : \A i \in QueueIndex(d) : Empty(hq[d][i])
  BY DEF Init, ResetQueue, Empty
<1>2. \A d \in Router : rpc[d] = "idle" /\ ~Held(d) /\ CarrierInv(d)
  <2> SUFFICES ASSUME NEW d \in Router PROVE rpc[d] = "idle" /\ ~Held(d) /\ CarrierInv(d)
    OBVIOUS
  <2>1. rpc[d] = "idle"
    BY DEF Init, Router
  <2> QED
    BY <2>1 DEF Held, CarrierInv
<1>3. \A n \in Router, i \in Slot : ~PacketAt(n, i)
  BY <1>1, <1>2, RouterDrains DEF PacketAt
<1>4. \A s \in Device : apc[s] = "run"
  BY DEF Init
<1>5. \A s \in Device : SenderInv(s)
  BY <1>4 DEF SenderInv
<1>6. \A s \in Host : ~Waits(s) /\ ~Delivered(s)
  BY <1>4 DEF Waits, Delivered, Host
<1>7. \A r \in Host : \A p : ~InInbox(r, p)
  <2> SUFFICES ASSUME NEW r \in Host, NEW p PROVE ~InInbox(r, p)
    OBVIOUS
  <2>1. Empty(At(RecvQueue(r)))
    BY <1>1, GuestDrains DEF At
  <2>2. rcvd[r] = << >>
    BY DEF Init, Host
  <2> QED
    BY <2>1, <2>2 DEF InInbox
<1>8. TravelInv /\ UniqueInv /\ ServedInv
  BY <1>3, <1>6 DEF TravelInv, UniqueInv, ServedInv
<1>9. InboxInv
  BY <1>6, <1>7 DEF InboxInv
<1> QED
  BY <1>2, <1>5, <1>8, <1>9 DEF ServiceInv

LEMMA StutterServes ==
    ASSUME IInv, ServiceInv, UNCHANGED vars
    PROVE  ServiceInv'
<1>1. UNCHANGED <<hq, conflag, apc, ip, hdr, hptr, rcvd, rpc, index, sel, fptr>>
  BY DEF vars, shared, guest, routing
<1>2. \A n \in Router, i \in Slot : Stays(n, i)
  BY <1>1, StillPlaces
<1>3. \A s \in Host : WaitsOn(s)
  BY <1>1 DEF WaitsOn, Waits
<1>4. TravelInv' /\ UniqueInv' /\ ServedInv'
  BY <1>2, <1>3, PlacesStay DEF ServiceInv
<1>5. /\ \A s \in Device : SenderRests(s)
      /\ \A d \in Router : CarrierRests(d)
  BY <1>1 DEF SenderRests, CarrierRests, GuestRests, RouterRests, HeldHeader, From
<1>6. (\A s \in Device : SenderInv(s)') /\ (\A d \in Router : CarrierInv(d)')
  BY <1>1, <1>5, StillServices
<1>7. \A e \in Router : Stays(e, 0) /\ (Held(e) => rpc'[e] = rpc[e])
  BY <1>1, <1>2 DEF Slot
<1>8. \A s \in Host : ip'[s] = ip[s] /\ (Delivered(s)' <=> Delivered(s))
  BY <1>1, <1>7, DeliveredFrame
<1>9. InboxInv'
  <2>1. ip \in [Device -> Nat \ {0}]
    BY DEF IInv, TypeOK
  <2> QED
    BY <1>1, <1>8, <2>1, StillInbox, InboxKept DEF ServiceInv
<1> QED
  BY <1>4, <1>6, <1>9 DEF ServiceInv

LEMMA NextServes ==
    ASSUME TwoPerLink, RoutersStay, IInv, ServiceInv, [Next]_vars
    PROVE  ServiceInv'
<1>1. CASE UNCHANGED vars
  BY <1>1, StutterServes
<1>2. ASSUME NEW d \in Device, Execute(d) PROVE ServiceInv'
  BY <1>2, ExecuteServes
<1>3. ASSUME NEW d \in Device, Guest(d) PROVE ServiceInv'
  <2>1. CASE SendNothing(d)
    BY <2>1, SendNothingServes
  <2>2. CASE Post(d)
    BY <2>2, PostServes
  <2>3. CASE PostFail(d)
    BY <2>3, PostFailServes
  <2>4. CASE CopyHeader(d)
    BY <2>4, CopyHeaderServes
  <2>5. CASE CopyPayload(d)
    BY <2>5, CopyPayloadServes
  <2>6. CASE Publish(d)
    BY <2>6, PublishServes
  <2>7. CASE SendReturns(d)
    BY <2>7, SendReturnsServes
  <2>8. CASE RecvBegins(d)
    BY <2>8, RecvBeginsServes
  <2>9. CASE GetMessage(d)
    BY <2>9, GetMessageServes
  <2>10. CASE RecvReturns(d)
    BY <2>10, RecvReturnsServes
  <2>11. CASE Exit(d)
    BY <2>11, ExitServes
  <2> QED
    BY <1>3, <2>1, <2>2, <2>3, <2>4, <2>5, <2>6, <2>7, <2>8, <2>9, <2>10, <2>11 DEF Guest
<1>4. ASSUME NEW d \in Device, Routing(d) PROVE ServiceInv'
  <2>1. CASE Idle(d)
    BY <2>1, IdleServes
  <2>2. CASE Wake(d)
    BY <2>2, WakeServes
  <2>3. CASE Select(d)
    BY <2>3, SelectServes
  <2>4. CASE WaitOthers(d)
    BY <2>4, WaitOthersServes
  <2>5. CASE Deliver(d)
    BY <2>5, DeliverServes
  <2>6. CASE Forward(d)
    BY <2>6, ForwardServes
  <2>7. CASE ForwardFail(d)
    BY <2>7, ForwardFailServes
  <2>8. CASE RouteHeader(d)
    BY <2>8, RouteHeaderServes
  <2>9. CASE RoutePayload(d)
    BY <2>9, RoutePayloadServes
  <2>10. CASE RouteRelease(d)
    BY <2>10, RouteReleaseServes
  <2>11. CASE RoutePublish(d)
    BY <2>11, RoutePublishServes
  <2>12. CASE RouteSignal(d)
    BY <2>12, RouteSignalServes
  <2> QED
    BY <1>4, <2>1, <2>2, <2>3, <2>4, <2>5, <2>6, <2>7, <2>8, <2>9, <2>10, <2>11, <2>12 DEF Routing
<1> QED
  BY <1>1, <1>2, <1>3, <1>4 DEF Next

\* The inductive invariant behind the three theorems below: every packet on its way is
\* at one place, is of the call its sender waits in, and the header a routing thread
\* reads after consumer += 2 (route_processor.c:478 and 591) is still the one of its
\* packet.
LEMMA ServiceInvariant == TwoPerLink /\ RoutersStay /\ Spec => []ServiceInv
<1> SUFFICES ASSUME TwoPerLink, RoutersStay PROVE Spec => []ServiceInv
  OBVIOUS
<1>1. Init => ServiceInv
  BY InitServes
<1>2. IInv /\ ServiceInv /\ [Next]_vars => ServiceInv'
  BY NextServes
<1>3. Spec => []IInv
  BY Invariant
<1> QED
  BY <1>1, <1>2, <1>3, PTL DEF Spec
---------------------------------------------------------------------------
(* The senders that wait. *)

\* A queue with the payload that s waits for is the one before its receiver's,
\* or one that a routing thread scans.
LEMMA TravelQueue ==
    ASSUME IInv, ServiceInv, NEW s \in Host, Waits(s), NEW m \in Device, NEW j \in QueueIndex(m),
           ~Empty(hq[m][j]), HeadPayload(hq[m][j]) = Payload(s, ip[s]),
           <<m, j>> # RecvQueue(Receiver(s))
    PROVE  m \in Router /\ j \in Scanned(m) /\ HeadHeader(hq[m][j]).SenderID = s
<1> DEFINE h == HeadHeader(hq[m][j])
<1>1. Message(m, j, h, Payload(s, ip[s]))
  BY DEF IInv, QueuesOK, QueueOK
<1>2. h.SenderID = s /\ h.ReceiverID = Receiver(s) /\ (IsRecvQueue(m, j) => Receiver(s) = m)
  BY <1>1 DEF Message, Addressed, Payload, Receiver
<1>3. ~IsRecvQueue(m, j)
  <2> SUFFICES ASSUME IsRecvQueue(m, j) PROVE <<m, j>> = RecvQueue(m)
    BY <1>2
  <2>1. CASE DeviceType[m] = "ZED"
    BY <2>1, TopologyAssumption DEF RecvQueue, QueueIndex
  <2>2. CASE DeviceType[m] # "ZED"
    BY <2>2 DEF RecvQueue, IsRecvQueue
  <2> QED
    BY <2>1, <2>2
<1> QED
  BY <1>2, <1>3 DEF IsRecvQueue, Router, Scanned

\* The payload that s waits for is where its packet is, and nowhere else.
LEMMA TravelsAt ==
    ASSUME IInv, ServiceInv, NEW s \in Host, Waits(s), NEW n \in Router, NEW i \in Slot,
           PacketAt(n, i), SenderAt(n, i) = s
    PROVE  Travels(s) = IF i # 0 THEN {<<n, i>>} ELSE IF rpc[n] = "publish" THEN {n} ELSE {}
<1> DEFINE p == Payload(s, ip[s])
           r == Receiver(s)
           Q == {a \in Device \X (1 .. LocalOut) :
                    /\ a[2] \in QueueIndex(a[1])
                    /\ a # RecvQueue(r)
                    /\ ~Empty(At(a))
                    /\ HeadPayload(At(a)) = p}
           T == {d \in Router : /\ rpc[d] = "publish"
                                /\ TailPayload(At(Target(d))) = p}
<1>1. Travels(s) = Q \cup T
  BY DEF Travels, TailPayload, Receiver
<1>2. TravelInv /\ UniqueInv /\ n \in Device /\ Traveller(n, i)
  BY DEF ServiceInv, TravelInv, Router
<1>3. ASSUME NEW a \in Q PROVE i # 0 /\ a = <<n, i>>
  <2>1. PICK m \in Device, j \in 1 .. LocalOut : a = <<m, j>>
    OBVIOUS
  <2>2. j \in QueueIndex(m) /\ ~Empty(hq[m][j]) /\ HeadPayload(hq[m][j]) = p /\ <<m, j>> # RecvQueue(r)
    BY <2>1 DEF At
  <2>3. m \in Router /\ j \in Scanned(m) /\ HeadHeader(hq[m][j]).SenderID = s
    BY <2>2, TravelQueue
  <2>4. j \in Slot /\ j # 0
    BY <2>3, SlotFacts
  <2>5. PacketAt(m, j) /\ SenderAt(m, j) = s
    BY <2>2, <2>3, <2>4 DEF PacketAt, SenderAt, HeaderAt
  <2> QED
    BY <1>2, <2>1, <2>3, <2>4, <2>5 DEF UniqueInv
<1>4. ASSUME i # 0 PROVE <<n, i>> \in Q
  <2>1. i \in Scanned(n) /\ ~Empty(hq[n][i]) /\ HeadPayload(hq[n][i]) = p
    BY <1>2, <1>4 DEF PacketAt, Traveller
  <2>2. i \in QueueIndex(n) /\ i # LocalIn /\ i \in 1 .. LocalOut
    BY <1>4, <2>1 DEF Scanned, Slot, LocalOut, NODE_MAX_LINKS
  <2>3. <<n, i>> # RecvQueue(r)
    BY <2>2 DEF RecvQueue, Router
  <2> QED
    BY <1>2, <2>1, <2>2, <2>3 DEF At
<1>5. ASSUME NEW d \in Router, rpc[d] = "publish"
      PROVE  /\ PacketAt(d, 0) /\ 0 \in Slot
             /\ TailPayload(At(Target(d))) = Payload(SenderAt(d, 0), ip[SenderAt(d, 0)])
  <2>1. CarrierInv(d) /\ Held(d)
    BY <1>5 DEF ServiceInv, Held
  <2> QED
    BY <1>5, <2>1 DEF CarrierInv, PacketAt, SenderAt, HeaderAt, Slot
<1>6. ASSUME NEW d \in T PROVE i = 0 /\ d = n /\ rpc[n] = "publish"
  <2>1. PacketAt(d, 0) /\ 0 \in Slot /\ Payload(SenderAt(d, 0), ip[SenderAt(d, 0)]) = p
    BY <1>5
  <2>2. SenderAt(d, 0) = s
    BY <2>1 DEF Payload
  <2> QED
    BY <1>2, <2>1, <2>2 DEF UniqueInv
<1>7. ASSUME i = 0, rpc[n] = "publish" PROVE n \in T
  BY <1>5, <1>7
<1> HIDE DEF Q, T
<1> QED
  BY <1>1, <1>3, <1>4, <1>6, <1>7

LEMMA ServedFollows == IInv /\ ServiceInv => WaitingSenderIsServed
<1> SUFFICES ASSUME IInv, ServiceInv, NEW s \in Host, Waits(s)
             PROVE  \/ Cardinality(Travels(s)) = 1
                    \/ /\ Travels(s) = {}
                       /\ \E d \in Router : rpc[d] = "signal" /\ From(d).entry[fptr[d]].SenderID = s
  BY DEF WaitingSenderIsServed, Waits
<1>1. PICK n \in Router, i \in Slot : PacketAt(n, i) /\ SenderAt(n, i) = s
  BY DEF ServiceInv, ServedInv
<1>2. Travels(s) = IF i # 0 THEN {<<n, i>>} ELSE IF rpc[n] = "publish" THEN {n} ELSE {}
  BY <1>1, TravelsAt
<1>3. CASE i # 0 \/ rpc[n] = "publish"
  <2>1. \E x : Travels(s) = {x}
    BY <1>2, <1>3
  <2> QED
    BY <2>1, FS_Singleton
<1>4. CASE i = 0 /\ rpc[n] # "publish"
  BY <1>1, <1>2, <1>4 DEF PacketAt, Held, SenderAt, HeaderAt, HeldHeader
<1> QED
  BY <1>3, <1>4

\* A sender that spins on its control flag (send_recv.c:331) is not forgotten, for
\* any number of devices: its packet travels, in one place only, or a routing thread
\* is about to signal it, although that thread reads the sender's name from an entry
\* it has released (route_processor.c:478 and 494, 591 and 607).
THEOREM WaitingSendersAreServed == TwoPerLink /\ RoutersStay /\ Spec => []WaitingSenderIsServed
<1> SUFFICES ASSUME TwoPerLink, RoutersStay PROVE Spec => []WaitingSenderIsServed
  OBVIOUS
<1>1. Spec => []ServiceInv
  BY ServiceInvariant
<1> QED
  BY <1>1, ServedFollows, Invariant, PTL
---------------------------------------------------------------------------
(* The service: its state, and its steps in terms of the network's. *)

ServiceSt(h) == IF apc[h] \in {"header", "payload", "publish", "signal"} THEN "wait"
                ELSE IF apc[h] = "late" THEN "got" ELSE "idle"

\* For the host h nothing happens.
Unmoved(h) == /\ ip'[h] = ip[h]
              /\ ServiceSt(h)' = ServiceSt(h)
              /\ Arrived(h)' = Arrived(h)
              /\ rcvd'[h] = rcvd[h]

LEMMA StutterMaps ==
    ASSUME \A h \in Host : Unmoved(h)
    PROVE  UNCHANGED Service!vars
BY DEF Service!vars, Unmoved, ServiceSt, Host

LEMMA SendMaps ==
    ASSUME NEW h \in Host, \A g \in Host : g # h => Unmoved(g),
           ServiceSt(h) = "idle", ServiceSt(h)' = "wait", ip'[h] = ip[h],
           Arrived(h)' = Arrived(h), rcvd'[h] = rcvd[h], Posted(h)
    PROVE  Service!Send(h)
BY DEF Service!Send, Service!Sends, Service!Calls, Unmoved, ServiceSt, Host, Posted, Receiver

LEMMA ReceivedMaps ==
    ASSUME NEW h \in Host, \A g \in Host : g # h => Unmoved(g),
           ServiceSt(h) = "got", ServiceSt(h)' = "idle", ip'[h] = ip[h] + 1,
           Arrived(h)' = Arrived(h), rcvd'[h] = rcvd[h]
    PROVE  Service!Received(h)
BY DEF Service!Received, Service!Returns, Unmoved, ServiceSt, Host

LEMMA SkipMaps ==
    ASSUME NEW h \in Host, \A g \in Host : g # h => Unmoved(g),
           ServiceSt(h) = "idle", ServiceSt(h)' = "idle", ip'[h] = ip[h] + 1,
           Arrived(h)' = Arrived(h), rcvd'[h] = rcvd[h],
           ip[h] <= Len(Program[h]), Program[h][ip[h]].op # "recv",
           Program[h][ip[h]].op = "send" => Receiver(h) \notin Host \ {h}
    PROVE  Service!Skip(h)
BY DEF Service!Skip, Service!Sends, Service!Calls, Service!Returns, Unmoved, ServiceSt, Host, Receiver

LEMMA TakeMaps ==
    ASSUME NEW h \in Host, \A g \in Host : g # h => Unmoved(g),
           ServiceSt(h) = "idle", ServiceSt(h)' = "got", ip'[h] = ip[h],
           Arrived(h)' = Arrived(h), Len(rcvd'[h]) = Len(rcvd[h]) + 1,
           Len(rcvd[h]) < Len(Arrived(h)),
           ip[h] <= Len(Program[h]), Program[h][ip[h]].op = "recv"
    PROVE  Service!Take(h)
BY DEF Service!Take, Service!Calls, Unmoved, ServiceSt, Host

\* What has arrived, as a sequence.
LEMMA ArrivedFacts ==
    ASSUME IInv, NEW r \in Host
    PROVE  /\ Arrived(r) \in Seq(PayloadSet)
           /\ Len(Arrived(r)) = Len(rcvd[r]) + (IF Empty(At(RecvQueue(r))) THEN 0 ELSE 1)
           /\ \A p : (\E k \in 1 .. Len(Arrived(r)) : Arrived(r)[k] = p) <=> InInbox(r, p)
<1> DEFINE q == At(RecvQueue(r))
<1>1. rcvd[r] \in Seq(PayloadSet) /\ (~Empty(q) => HeadPayload(q) \in PayloadSet)
  <2>1. r \in Device /\ RecvQueue(r)[1] = r /\ RecvQueue(r)[2] \in QueueIndex(r)
    BY GuestDrains
  <2> QED
    BY <2>1 DEF IInv, TypeOK, QueuesOK, QueueOK, Message, Addressed, At
<1>2. CASE Empty(q)
  <2>1. Arrived(r) = rcvd[r]
    BY <1>1, <1>2 DEF Arrived
  <2> QED
    BY <1>1, <1>2, <2>1 DEF InInbox
<1>3. CASE ~Empty(q)
  <2>1. Arrived(r) = Append(rcvd[r], HeadPayload(q))
    BY <1>1, <1>3 DEF Arrived
  <2> QED
    BY <1>1, <1>3, <2>1 DEF InInbox
<1> QED
  BY <1>2, <1>3

LEMMA ThereIs ==
    ASSUME IInv, NEW h \in Host, Receiver(h) \in Host
    PROVE  Service!There(h) <=> InInbox(Receiver(h), Payload(h, ip[h]))
<1>1. (\E k \in 1 .. Len(Arrived(Receiver(h))) : Arrived(Receiver(h))[k] = Payload(h, ip[h]))
        <=> InInbox(Receiver(h), Payload(h, ip[h]))
  BY ArrivedFacts
<1> QED
  BY <1>1 DEF Service!There, Service!Receiver, Service!Payload, Receiver, Payload

LEMMA SucceedMaps ==
    ASSUME NEW h \in Host, \A g \in Host : g # h => Unmoved(g),
           ServiceSt(h) = "wait", ServiceSt(h)' = "idle", ip'[h] = ip[h] + 1,
           Arrived(h)' = Arrived(h), rcvd'[h] = rcvd[h], Service!There(h)
    PROVE  Service!Succeed(h)
BY DEF Service!Succeed, Service!Returns, Unmoved, ServiceSt, Host

LEMMA FailMaps ==
    ASSUME NEW h \in Host, \A g \in Host : g # h => Unmoved(g),
           ServiceSt(h) = "wait", ServiceSt(h)' = "idle", ip'[h] = ip[h],
           Arrived(h)' = Arrived(h), rcvd'[h] = rcvd[h], ~Service!There(h)
    PROVE  Service!Fail(h)
BY DEF Service!Fail, Unmoved, ServiceSt, Host

LEMMA DeliverMaps ==
    ASSUME NEW h \in Host, Receiver(h) \in Host, UNCHANGED <<ip, apc, rcvd>>,
           ServiceSt(h) = "wait", ~Service!There(h),
           \A g \in Host : Arrived(g)' =
               IF g = Receiver(h) THEN Append(Arrived(g), Payload(h, ip[h])) ELSE Arrived(g)
    PROVE  Service!Deliver(h)
BY DEF Service!Deliver, Service!Receiver, Service!Payload, Receiver, Payload, ServiceSt, Host
---------------------------------------------------------------------------
(* What has arrived changes with the queues that guests receive from. *)

LEMMA ArrivedFrame ==
    ASSUME NEW r \in Host, rcvd'[r] = rcvd[r],
           LET q == At(RecvQueue(r))
               u == At(RecvQueue(r))'
           IN  u = q \/ (KeepsHead(q, u) /\ (Empty(u) <=> Empty(q)))
    PROVE  Arrived(r)' = Arrived(r)
<1>1. /\ Empty(At(RecvQueue(r)))' <=> Empty(At(RecvQueue(r)))
      /\ ~Empty(At(RecvQueue(r))) => HeadPayload(At(RecvQueue(r)))' = HeadPayload(At(RecvQueue(r)))
  BY DEF KeepsHead
<1> QED
  BY <1>1 DEF Arrived

\* The queue that r receives from, now and after a step.
LEMMA RecvQueueNow ==
    ASSUME NEW r \in Host
    PROVE  LET j == RecvQueue(r)[2] IN
           /\ r \in Device /\ j \in QueueIndex(r) /\ IsRecvQueue(r, j)
           /\ At(RecvQueue(r)) = hq[r][j]
           /\ At(RecvQueue(r))' = hq'[r][j]
<1>1. RecvQueue(r)' = RecvQueue(r)
  BY DEF RecvQueue
<1> QED
  BY <1>1, GuestDrains DEF At

LEMMA FeedArrived ==
    ASSUME NEW n \in Device, NEW i \in QueueIndex(n), Others(n, i),
           HeadStays(n, i) \/ ~IsRecvQueue(n, i), rcvd' = rcvd
    PROVE  \A r \in Host : Arrived(r)' = Arrived(r)
<1> SUFFICES ASSUME NEW r \in Host PROVE Arrived(r)' = Arrived(r)
  OBVIOUS
<1>1. PICK j \in QueueIndex(r) :
        /\ r \in Device /\ IsRecvQueue(r, j)
        /\ At(RecvQueue(r)) = hq[r][j] /\ At(RecvQueue(r))' = hq'[r][j]
  BY RecvQueueNow
<1>2. hq'[r][j] = hq[r][j] \/ (r = n /\ j = i /\ HeadStays(n, i))
  BY <1>1 DEF Others
<1> QED
  BY <1>1, <1>2, ArrivedFrame DEF HeadStays

LEMMA StillArrived ==
    ASSUME UNCHANGED <<hq, rcvd>>
    PROVE  \A r \in Host : Arrived(r)' = Arrived(r)
BY DEF Arrived, At, RecvQueue
---------------------------------------------------------------------------
(* A guest polls in a receive only. *)

Receives(d) == ip[d] <= Len(Program[d]) /\ Program[d][ip[d]].op = "recv"
PollInv == \A d \in Device : apc[d] = "poll" => Receives(d)

LEMMA PollKept ==
    ASSUME IInv, PollInv, NEW d \in Device, NEW a,
           apc' = [apc EXCEPT ![d] = a] \/ apc' = apc,
           \A e \in Device : e # d => ip'[e] = ip[e],
           apc'[d] = "poll" => Receives(d) /\ ip'[d] = ip[d]
    PROVE  PollInv'
<1>1. apc \in [Device -> {"run", "header", "payload", "publish", "signal", "poll", "late", "exited"}]
  BY DEF IInv, TypeOK
<1> SUFFICES ASSUME NEW e \in Device, apc'[e] = "poll" PROVE Receives(e)'
  BY DEF PollInv, Device
<1>2. ip'[e] = ip[e] /\ Receives(e)
  BY <1>1 DEF PollInv
<1> QED
  BY <1>2 DEF Receives

LEMMA NextPolls ==
    ASSUME IInv, PollInv, [Next]_vars
    PROVE  PollInv'
<1>1. apc \in [Device -> {"run", "header", "payload", "publish", "signal", "poll", "late", "exited"}]
      /\ ip \in [Device -> Nat \ {0}]
  BY DEF IInv, TypeOK
<1>2. ASSUME UNCHANGED <<apc, ip>> PROVE PollInv'
  BY <1>2 DEF PollInv, Receives, Device
<1>3. ASSUME NEW d \in Device, Guest(d) PROVE PollInv'
  <2>1. CASE \/ SendNothing(d) \/ Post(d) \/ PostFail(d) \/ CopyHeader(d) \/ CopyPayload(d)
             \/ Publish(d) \/ SendReturns(d) \/ GetMessage(d) \/ RecvReturns(d) \/ Exit(d)
    <3>1. PICK a \in {"run", "header", "payload", "publish", "signal", "late", "exited"} :
             apc' = [apc EXCEPT ![d] = a] \/ (apc' = apc /\ apc[d] # "poll")
      BY <2>1 DEF SendNothing, Post, PostFail, CopyHeader, CopyPayload, Publish, SendReturns,
         GetMessage, RecvReturns, Exit, Calls
    <3>2. ip' = ip \/ ip' = [ip EXCEPT ![d] = @ + 1]
      BY <2>1 DEF SendNothing, Post, PostFail, CopyHeader, CopyPayload, Publish, SendReturns,
         GetMessage, RecvReturns, Exit
    <3> QED
      BY <1>1, <3>1, <3>2, PollKept
  <2>2. CASE RecvBegins(d)
    BY <1>1, <2>2, PollKept DEF RecvBegins, Calls, Receives
  <2> QED
    BY <1>3, <2>1, <2>2 DEF Guest
<1>4. ASSUME NEW d \in Device, Execute(d) \/ Routing(d) PROVE UNCHANGED <<apc, ip>>
  BY <1>4 DEF Execute, Routing, Idle, Wake, Select, WaitOthers, Deliver, Forward, ForwardFail,
     RouteHeader, RoutePayload, RouteRelease, RoutePublish, RouteSignal, guest
<1>5. UNCHANGED vars => UNCHANGED <<apc, ip>>
  BY DEF vars, guest
<1> QED
  BY <1>2, <1>3, <1>4, <1>5 DEF Next

LEMMA PollInvariant == Spec => []PollInv
<1>1. Init => PollInv
  BY DEF Init, PollInv
<1> QED
  BY <1>1, NextPolls, Invariant, PTL DEF Spec
---------------------------------------------------------------------------
(* Every step of the network is a step of the service, or none of its. *)

ServiceStep == Service!Next \/ UNCHANGED Service!vars

\* The hosts other than the one whose guest moves.
LEMMA Bystanders ==
    ASSUME IInv, NEW d \in Device, apc' = apc \/ (\E a : apc' = [apc EXCEPT ![d] = a]),
           ip' = ip \/ ip' = [ip EXCEPT ![d] = @ + 1],
           \A g \in Host : g # d => Arrived(g)' = Arrived(g) /\ rcvd'[g] = rcvd[g]
    PROVE  \A g \in Host : g # d => Unmoved(g)
<1>1. DOMAIN apc = Device /\ DOMAIN ip = Device
  BY DEF IInv, TypeOK
<1>2. \A g \in Host : g # d => apc'[g] = apc[g] /\ ip'[g] = ip[g]
  BY <1>1 DEF Host
<1> QED
  BY <1>2 DEF Unmoved, ServiceSt

\* Steps that the service does not see.
LEMMA UnseenMaps ==
    ASSUME UNCHANGED <<apc, ip, rcvd>>, \A r \in Host : Arrived(r)' = Arrived(r)
    PROVE  ServiceStep
<1>1. \A h \in Host : Unmoved(h)
  BY DEF Unmoved, ServiceSt
<1> QED
  BY <1>1, StutterMaps DEF ServiceStep

LEMMA SameMaps ==
    ASSUME UNCHANGED <<apc, ip, hq, rcvd>>
    PROVE  ServiceStep
BY StillArrived, UnseenMaps

LEMMA SendNothingMaps ==
    ASSUME IInv, NEW d \in Device, SendNothing(d)
    PROVE  ServiceStep
<1>1. /\ apc[d] = "run" /\ ip[d] <= Len(Program[d]) /\ Program[d][ip[d]].op \in {"send", "large"}
      /\ Program[d][ip[d]].op = "send" => ~Accepted(d, Receiver(d))
      /\ ip' = [ip EXCEPT ![d] = @ + 1] /\ UNCHANGED <<apc, hq, rcvd>>
  BY DEF SendNothing, Calls, Receiver, shared
<1>2. ip \in [Device -> Nat \ {0}] /\ ip'[d] = ip[d] + 1
  BY <1>1 DEF IInv, TypeOK
<1>3. d \in Host
  <2>1. ip[d] \in 1 .. Len(Program[d])
    BY <1>1, <1>2, ProgramAssumption
  <2> QED
    BY <1>1, <2>1, ProgramAssumption DEF Host
<1>4. Program[d][ip[d]].op = "send" => Receiver(d) \notin Host \ {d}
  BY <1>1, TopologyAssumption DEF Accepted, Host, Device
<1>5. \A r \in Host : Arrived(r)' = Arrived(r)
  BY <1>1, StillArrived
<1>6. \A g \in Host : g # d => Unmoved(g)
  BY <1>1, <1>5, Bystanders
<1>7. ServiceSt(d) = "idle" /\ ServiceSt(d)' = "idle"
  BY <1>1 DEF ServiceSt
<1>8. Service!Skip(d)
  BY <1>1, <1>2, <1>3, <1>4, <1>5, <1>6, <1>7, SkipMaps
<1> QED
  BY <1>3, <1>8 DEF ServiceStep, Service!Next

LEMMA PostMaps ==
    ASSUME IInv, ServiceInv, NEW d \in Device, Post(d)
    PROVE  ServiceStep
<1>1. /\ apc[d] = "run" /\ apc' = [apc EXCEPT ![d] = "header"] /\ UNCHANGED <<ip, hq, rcvd>>
  BY DEF Post, Calls
<1>2. apc'[d] = "header"
  BY <1>1 DEF IInv, TypeOK
<1>3. Posted(d)
  <2>1. Posted(d)'
    BY <1>2, PostServes DEF ServiceInv, SenderInv
  <2> QED
    BY <1>1, <2>1 DEF Posted, Receiver, Host
<1>4. \A r \in Host : Arrived(r)' = Arrived(r)
  BY <1>1, StillArrived
<1>5. \A g \in Host : g # d => Unmoved(g)
  BY <1>1, <1>4, Bystanders
<1>6. ServiceSt(d) = "idle" /\ ServiceSt(d)' = "wait" /\ d \in Host
  BY <1>1, <1>2, <1>3 DEF ServiceSt, Posted
<1>7. Service!Send(d)
  BY <1>1, <1>3, <1>4, <1>5, <1>6, SendMaps
<1> QED
  BY <1>6, <1>7 DEF ServiceStep, Service!Next

LEMMA SendReturnsMaps ==
    ASSUME IInv, ServiceInv, NEW d \in Device, SendReturns(d)
    PROVE  ServiceStep
<1>1. /\ apc[d] = "signal" /\ conflag[d].dataflag # 77
      /\ ip' = IF conflag[d].dataflag = 44 THEN ip ELSE [ip EXCEPT ![d] = @ + 1]
      /\ apc' = [apc EXCEPT ![d] = "run"] /\ UNCHANGED <<hq, rcvd>>
  BY DEF SendReturns
<1>2. /\ apc'[d] = "run" /\ ip \in [Device -> Nat \ {0}]
      /\ conflag[d].dataflag \in {0, 44, 77}
  BY <1>1 DEF IInv, TypeOK
<1>3. Posted(d) /\ d \in Host /\ Receiver(d) \in Host
  BY <1>1 DEF ServiceInv, SenderInv, Posted
<1>4. \A r \in Host : Arrived(r)' = Arrived(r)
  BY <1>1, StillArrived
<1>5. \A g \in Host : g # d => Unmoved(g)
  BY <1>1, <1>4, Bystanders
<1>6. ServiceSt(d) = "wait" /\ ServiceSt(d)' = "idle"
  BY <1>1, <1>2 DEF ServiceSt
<1>7. CASE conflag[d].dataflag = 0
  <2>1. InInbox(Receiver(d), Payload(d, ip[d]))
    BY <1>1, <1>3, <1>7 DEF ServiceInv, InboxInv, Delivered
  <2>2. ip'[d] = ip[d] + 1
    BY <1>1, <1>2, <1>7
  <2>3. Service!Succeed(d)
    BY <1>1, <1>3, <1>4, <1>5, <1>6, <2>1, <2>2, ThereIs, SucceedMaps
  <2> QED
    BY <1>3, <2>3 DEF ServiceStep, Service!Next
<1>8. CASE conflag[d].dataflag = 44
  <2>1. ~Waits(d)
    BY <1>8 DEF Waits
  <2>2. ~Delivered(d)
    BY <1>8, <2>1, HeldWaits DEF Delivered, Held
  <2>3. ~InInbox(Receiver(d), Payload(d, ip[d]))
    <3>1. ip[d] \in Nat
      BY <1>2
    <3> QED
      BY <1>3, <2>2, <3>1 DEF ServiceInv, InboxInv
  <2>4. Service!Fail(d)
    BY <1>1, <1>3, <1>4, <1>5, <1>6, <1>8, <2>3, ThereIs, FailMaps
  <2> QED
    BY <1>3, <2>4 DEF ServiceStep, Service!Next
<1> QED
  BY <1>1, <1>2, <1>7, <1>8

LEMMA RecvBeginsMaps ==
    ASSUME IInv, NEW d \in Device, RecvBegins(d)
    PROVE  ServiceStep
<1>1. apc[d] = "run" /\ apc' = [apc EXCEPT ![d] = "poll"] /\ UNCHANGED <<ip, hq, rcvd>>
  BY DEF RecvBegins, Calls
<1>2. apc'[d] = "poll"
  BY <1>1 DEF IInv, TypeOK
<1>3. \A r \in Host : Arrived(r)' = Arrived(r)
  BY <1>1, StillArrived
<1>4. \A g \in Host : g # d => Unmoved(g)
  BY <1>1, <1>3, Bystanders
<1>5. d \in Host => Unmoved(d)
  BY <1>1, <1>2, <1>3 DEF Unmoved, ServiceSt
<1> QED
  BY <1>4, <1>5, StutterMaps DEF ServiceStep

LEMMA RecvReturnsMaps ==
    ASSUME IInv, NEW d \in Device, RecvReturns(d)
    PROVE  ServiceStep
<1>1. /\ apc[d] = "late" /\ apc' = [apc EXCEPT ![d] = "run"]
      /\ ip' = [ip EXCEPT ![d] = @ + 1] /\ UNCHANGED <<hq, rcvd>>
  BY DEF RecvReturns
<1>2. apc'[d] = "run" /\ ip'[d] = ip[d] + 1 /\ d \in Host
  BY <1>1 DEF IInv, TypeOK, ThreadsInv, GuestInv
<1>3. \A r \in Host : Arrived(r)' = Arrived(r)
  BY <1>1, StillArrived
<1>4. \A g \in Host : g # d => Unmoved(g)
  BY <1>1, <1>3, Bystanders
<1>5. ServiceSt(d) = "got" /\ ServiceSt(d)' = "idle"
  BY <1>1, <1>2 DEF ServiceSt
<1>6. Service!Received(d)
  BY <1>1, <1>2, <1>3, <1>4, <1>5, ReceivedMaps
<1> QED
  BY <1>2, <1>6 DEF ServiceStep, Service!Next

LEMMA ExitMaps ==
    ASSUME IInv, NEW d \in Device, Exit(d)
    PROVE  ServiceStep
<1>1. /\ apc[d] = "run" /\ ip[d] <= Len(Program[d]) /\ Program[d][ip[d]].op = "exit"
      /\ apc' = [apc EXCEPT ![d] = "exited"]
      /\ ip' = [ip EXCEPT ![d] = @ + 1] /\ UNCHANGED <<hq, rcvd>>
  BY DEF Exit, Calls
<1>2. apc'[d] = "exited" /\ ip'[d] = ip[d] + 1
  BY <1>1 DEF IInv, TypeOK
<1>3. \A r \in Host : Arrived(r)' = Arrived(r)
  BY <1>1, StillArrived
<1>4. \A g \in Host : g # d => Unmoved(g)
  BY <1>1, <1>3, Bystanders
<1>5. CASE d \in Host
  <2>1. ServiceSt(d) = "idle" /\ ServiceSt(d)' = "idle"
    BY <1>1, <1>2 DEF ServiceSt
  <2>2. Service!Skip(d)
    BY <1>1, <1>2, <1>3, <1>4, <1>5, <2>1, SkipMaps
  <2> QED
    BY <1>5, <2>2 DEF ServiceStep, Service!Next
<1>6. CASE d \notin Host
  BY <1>4, <1>6, StutterMaps DEF ServiceStep
<1> QED
  BY <1>5, <1>6

\* What a receive takes has arrived before.
LEMMA GetMessageMaps ==
    ASSUME IInv, PollInv, NEW d \in Device, GetMessage(d)
    PROVE  ServiceStep
<1>1. RestTypes /\ GuestInv(d) /\ QueueTypes
  BY TypeSplit DEF IInv, ThreadsInv
<1> DEFINE i == RecvQueue(d)[2]
           q == hq[d][i]
           u == Released(q)
<1>2. apc[d] = "poll" /\ d \in Host
  BY <1>1 DEF GetMessage, GuestInv
<1>3. /\ RecvQueue(d)[1] = d /\ i \in QueueIndex(d)
      /\ At(RecvQueue(d)) = q /\ At(RecvQueue(d))' = hq'[d][i]
  BY <1>2, GuestDrains, RecvQueueNow
<1>4. /\ ~Empty(q)
      /\ rcvd' = [rcvd EXCEPT ![d] = Append(@, HeadPayload(q))]
      /\ apc' = [apc EXCEPT ![d] = "late"] /\ UNCHANGED ip
  BY <1>3 DEF GetMessage
<1>5. hq' = [hq EXCEPT ![d][i] = u]
  BY <1>3 DEF GetMessage, Set
<1>6. EvenQueue(q) /\ Message(d, i, HeadHeader(q), HeadPayload(q))
  BY <1>3, <1>4, QueueFacts
<1>7. EvenQueue(u) /\ Empty(u)
  <2> HIDE DEF q
  <2> QED
    BY <1>4, <1>6, ReleasedFacts
<1> HIDE DEF u, i
<1>8. hq'[d][i] = u /\ Others(d, i)
  <2>1. QueueTypes /\ d \in Device /\ i \in QueueIndex(d) /\ EvenQueue(u)
    BY ONLY d \in Device, <1>1, <1>3, <1>7
  <2> QED
    BY ONLY <2>1, <1>5, OneQueue
<1> HIDE DEF q
<1>9. /\ apc'[d] = "late" /\ rcvd[d] \in Seq(PayloadSet) /\ HeadPayload(q) \in PayloadSet
      /\ rcvd'[d] = Append(rcvd[d], HeadPayload(q))
      /\ \A g \in Device : g # d => rcvd'[g] = rcvd[g]
  <2>1. rcvd \in [Device -> Seq(PayloadSet)] /\ DOMAIN apc = Device
    BY DEF IInv, TypeOK
  <2> QED
    BY <1>4, <1>6, <2>1 DEF Message, Addressed
<1>10. Arrived(d)' = Arrived(d)
  <2>1. Arrived(d) = rcvd[d] \o <<HeadPayload(q)>>
    BY <1>3, <1>4 DEF Arrived
  <2>2. Arrived(d)' = rcvd'[d] \o << >>
    BY <1>3, <1>7, <1>8 DEF Arrived
  <2> QED
    BY <1>9, <2>1, <2>2
<1>11. ASSUME NEW g \in Host, g # d PROVE Arrived(g)' = Arrived(g) /\ rcvd'[g] = rcvd[g]
  <2>1. PICK j \in QueueIndex(g) :
          /\ g \in Device /\ At(RecvQueue(g)) = hq[g][j] /\ At(RecvQueue(g))' = hq'[g][j]
    BY RecvQueueNow
  <2>2. hq'[g][j] = hq[g][j] /\ rcvd'[g] = rcvd[g]
    BY <1>8, <1>9, <1>11, <2>1 DEF Others
  <2> QED
    BY <2>1, <2>2, ArrivedFrame
<1>12. \A g \in Host : g # d => Unmoved(g)
  BY <1>4, <1>11, Bystanders
<1>13. Len(rcvd'[d]) = Len(rcvd[d]) + 1 /\ Len(rcvd[d]) < Len(Arrived(d))
  <2>1. Len(Arrived(d)) = Len(rcvd[d]) + 1
    BY <1>2, <1>3, <1>4, ArrivedFacts
  <2> QED
    BY <1>9, <2>1
<1>14. ServiceSt(d) = "idle" /\ ServiceSt(d)' = "got"
  BY <1>2, <1>9 DEF ServiceSt
<1>15. ip[d] <= Len(Program[d]) /\ Program[d][ip[d]].op = "recv" /\ ip'[d] = ip[d]
  BY <1>2, <1>4 DEF PollInv, Receives
<1>16. Service!Take(d)
  BY <1>2, <1>10, <1>12, <1>13, <1>14, <1>15, TakeMaps
<1> QED
  BY <1>2, <1>16 DEF ServiceStep, Service!Next

\* A step that writes to another queue than a receiver's.
LEMMA WriteArrived ==
    ASSUME IInv, NEW n \in Device, NEW i \in QueueIndex(n), NEW u,
           hq' = [hq EXCEPT ![n][i] = u], ~IsRecvQueue(n, i), rcvd' = rcvd
    PROVE  \A r \in Host : Arrived(r)' = Arrived(r)
<1>1. Others(n, i)
  BY TypeSplit DEF IInv, QueueTypes, Others
<1> QED
  BY <1>1, FeedArrived

LEMMA CopyMaps ==
    ASSUME IInv, ServiceInv, NEW d \in Device, CopyHeader(d) \/ CopyPayload(d) \/ Publish(d)
    PROVE  ServiceStep
<1>1. /\ apc[d] \in {"header", "payload", "publish"}
      /\ \E a \in {"payload", "publish", "signal"} : apc' = [apc EXCEPT ![d] = a]
      /\ \E u : Set(SendQueue(d), u)
      /\ UNCHANGED <<ip, rcvd>>
  BY DEF CopyHeader, CopyPayload, Publish
<1>2. d \in Host /\ apc'[d] \in {"payload", "publish", "signal"}
  BY <1>1 DEF ServiceInv, SenderInv, Posted, IInv, TypeOK
<1>3. \A r \in Host : Arrived(r)' = Arrived(r)
  <2>1. SendQueue(d)[1] \in Device /\ SendQueue(d)[2] \in QueueIndex(SendQueue(d)[1])
        /\ ~IsRecvQueue(SendQueue(d)[1], SendQueue(d)[2])
    BY <1>2, GuestFeeds
  <2>2. PICK u : hq' = [hq EXCEPT ![SendQueue(d)[1]][SendQueue(d)[2]] = u]
    BY <1>1 DEF Set
  <2> QED
    BY <1>1, <2>1, <2>2, WriteArrived
<1>4. \A g \in Host : g # d => Unmoved(g)
  BY <1>1, <1>3, Bystanders
<1>5. Unmoved(d)
  BY <1>1, <1>2, <1>3 DEF Unmoved, ServiceSt
<1> QED
  BY <1>4, <1>5, StutterMaps DEF ServiceStep

LEMMA DrainMaps ==
    ASSUME IInv, NEW d \in Device,
           Deliver(d) \/ Forward(d) \/ ForwardFail(d) \/ RouteRelease(d)
    PROVE  ServiceStep
<1>1. rpc[d] \in Busy /\ UNCHANGED <<apc, ip, rcvd>>
  BY DEF Deliver, Forward, ForwardFail, RouteRelease, guest, Busy
<1>2. \E u : hq' = [hq EXCEPT ![d][sel[d].ind] = u]
  BY DEF Deliver, Forward, ForwardFail, RouteRelease, Rewrite
<1>3. sel[d].ind \in QueueIndex(d) /\ ~IsRecvQueue(d, sel[d].ind)
  BY <1>1, ServeFacts
<1> QED
  BY <1>1, <1>2, <1>3, WriteArrived, UnseenMaps

LEMMA RouteCopyMaps ==
    ASSUME IInv, NEW d \in Device, RouteHeader(d) \/ RoutePayload(d)
    PROVE  ServiceStep
<1> DEFINE q == At(Target(d))
           n == Target(d)[1]
           i == Target(d)[2]
           h == HeadHeader(From(d))
           p == HeadPayload(From(d))
<1>1. rpc[d] \in Busy /\ UNCHANGED <<apc, ip, rcvd>>
  BY DEF RouteHeader, RoutePayload, guest, Busy
<1>2. d \in Router /\ CanHop(d, sel[d].next) /\ h \in Header /\ p \in PayloadSet
  BY <1>1, ServeFacts DEF Message, Good, Addressed
<1>3. n \in Device /\ i \in QueueIndex(n)
  BY <1>2, RouterFeeds
<1>4. EvenQueue(q) /\ q = hq[n][i]
  BY <1>2, TargetFacts DEF At
<1>5. PICK u : /\ hq' = [hq EXCEPT ![n][i] = u]
               /\ u = PutHeader(q, h) \/ (u = PutPayload(q, p) /\ ~NoPayloadEntry(q))
  BY <1>2, TargetFacts DEF RouteHeader, RoutePayload
<1> HIDE DEF q, n, i, h, p
<1>6. EvenQueue(u) /\ KeepsHead(q, u) /\ (Empty(u) <=> Empty(q))
  BY <1>2, <1>4, <1>5, PutHeaderFacts, PutPayloadFacts
<1>7. QueueTypes
  BY TypeSplit DEF IInv
<1>8. hq'[n][i] = u /\ Others(n, i)
  BY ONLY <1>3, <1>5, <1>6, <1>7, OneQueue
<1>9. HeadStays(n, i)
  BY <1>4, <1>6, <1>8 DEF HeadStays
<1> QED
  BY <1>1, <1>3, <1>8, <1>9, FeedArrived, UnseenMaps

LEMMA RoutePublishMaps ==
    ASSUME IInv, ServiceInv, NEW d \in Device, RoutePublish(d)
    PROVE  ServiceStep
<1>1. PICK n, i :
        /\ n = Target(d)[1] /\ i = Target(d)[2]
        /\ d \in Router /\ n \in Device /\ i \in QueueIndex(n)
        /\ n = sel[d].next /\ (n = d <=> i = LocalIn)
        /\ Others(n, i)
        /\ Empty(hq[n][i]) /\ ~Empty(hq'[n][i])
        /\ HeadPayload(hq'[n][i]) = Payload(HeldHeader(d).SenderID, ip[HeldHeader(d).SenderID])
        /\ IsRecvQueue(n, i) => HeldHeader(d).ReceiverID = n
        /\ rpc[d] = "publish" /\ Held(d)
        /\ UNCHANGED <<conflag, apc, ip, rcvd>>
  BY PublishFacts
<1>2. CASE ~IsRecvQueue(n, i)
  BY <1>1, <1>2, FeedArrived, UnseenMaps
<1>3. CASE IsRecvQueue(n, i)
  <2>1. PICK s \in Host : s = HeldHeader(d).SenderID /\ Waits(s) /\ Receiver(s) = n
    BY <1>1, <1>3, HeldWaits
  <2>2. Receiver(s) \in Host /\ ServiceSt(s) = "wait"
    BY <2>1 DEF ServiceInv, SenderInv, Waits, Posted, Host, ServiceSt
  <2>3. ~Delivered(s)
    <3> SUFFICES ASSUME Delivered(s) PROVE FALSE
      OBVIOUS
    <3>1. PICK e \in Router : rpc[e] = "signal" /\ Final(e) /\ HeldHeader(e).SenderID = s
      BY <2>1 DEF Delivered, Waits
    <3>2. 0 \in Slot /\ PacketAt(e, 0) /\ PacketAt(d, 0) /\ SenderAt(e, 0) = s /\ SenderAt(d, 0) = s
      BY <1>1, <2>1, <3>1 DEF Slot, PacketAt, Held, SenderAt, HeaderAt
    <3>3. e = d
      BY <1>1, <3>1, <3>2 DEF ServiceInv, UniqueInv
    <3> QED
      BY <1>1, <3>1, <3>3
  <2>4. ~Service!There(s)
    <3>1. ip[s] \in Nat
      BY <2>1 DEF IInv, TypeOK, Host
    <3>2. ~InInbox(Receiver(s), Payload(s, ip[s]))
      BY <2>2, <2>3, <3>1 DEF ServiceInv, InboxInv
    <3> QED
      BY <2>2, <3>2, ThereIs
  <2>5. ASSUME NEW g \in Host
        PROVE  Arrived(g)' = IF g = Receiver(s) THEN Append(Arrived(g), Payload(s, ip[s]))
                             ELSE Arrived(g)
    <3>1. PICK j \in QueueIndex(g) :
            /\ j = RecvQueue(g)[2] /\ g \in Device /\ IsRecvQueue(g, j)
            /\ At(RecvQueue(g)) = hq[g][j] /\ At(RecvQueue(g))' = hq'[g][j]
      BY RecvQueueNow
    <3>2. CASE g # n
      <4>1. hq'[g][j] = hq[g][j] /\ rcvd'[g] = rcvd[g]
        BY <1>1, <3>1, <3>2 DEF Others
      <4> QED
        BY <2>1, <3>1, <3>2, <4>1, ArrivedFrame
    <3>3. CASE g = n
      <4>1. j = i
        <5>1. CASE DeviceType[n] = "ZED"
          BY <1>1, <3>1, <3>3, <5>1, TopologyAssumption DEF QueueIndex
        <5>2. CASE DeviceType[n] # "ZED"
          BY <1>3, <3>1, <3>3, <5>2 DEF IsRecvQueue
        <5> QED
          BY <5>1, <5>2
      <4>2. rcvd[g] \in Seq(PayloadSet) /\ rcvd'[g] = rcvd[g]
        BY <1>1, <3>1 DEF IInv, TypeOK
      <4>3. Arrived(g) = rcvd[g]
        <5>1. Arrived(g) = rcvd[g] \o << >>
          BY <1>1, <3>1, <3>3, <4>1 DEF Arrived
        <5> QED
          BY <4>2, <5>1
      <4>4. Arrived(g)' = rcvd[g] \o <<Payload(s, ip[s])>>
        BY <1>1, <2>1, <3>1, <3>3, <4>1, <4>2 DEF Arrived
      <4>5. Payload(s, ip[s]) \in PayloadSet
        BY <2>1 DEF Payload, PayloadSet, IInv, TypeOK, Host
      <4> QED
        BY <2>1, <3>3, <4>2, <4>3, <4>4, <4>5
    <3> QED
      BY <3>2, <3>3
  <2>6. Service!Deliver(s)
    BY <1>1, <2>2, <2>4, <2>5, DeliverMaps
  <2> QED
    BY <2>6 DEF ServiceStep, Service!Next
<1> QED
  BY <1>2, <1>3

LEMMA NextMaps ==
    ASSUME IInv, ServiceInv, PollInv, [Next]_vars
    PROVE  ServiceStep
<1>1. CASE UNCHANGED vars
  BY <1>1, SameMaps DEF vars, shared, guest
<1>2. ASSUME NEW d \in Device, Execute(d) PROVE ServiceStep
  BY <1>2, SameMaps DEF Execute
<1>3. ASSUME NEW d \in Device, Guest(d) PROVE ServiceStep
  <2>1. CASE SendNothing(d)
    BY <2>1, SendNothingMaps
  <2>2. CASE Post(d)
    BY <2>2, PostMaps
  <2>3. CASE PostFail(d)
    BY <2>3, SameMaps DEF PostFail
  <2>4. CASE CopyHeader(d) \/ CopyPayload(d) \/ Publish(d)
    BY <2>4, CopyMaps
  <2>5. CASE SendReturns(d)
    BY <2>5, SendReturnsMaps
  <2>6. CASE RecvBegins(d)
    BY <2>6, RecvBeginsMaps
  <2>7. CASE GetMessage(d)
    BY <2>7, GetMessageMaps
  <2>8. CASE RecvReturns(d)
    BY <2>8, RecvReturnsMaps
  <2>9. CASE Exit(d)
    BY <2>9, ExitMaps
  <2> QED
    BY <1>3, <2>1, <2>2, <2>3, <2>4, <2>5, <2>6, <2>7, <2>8, <2>9 DEF Guest
<1>4. ASSUME NEW d \in Device, Routing(d) PROVE ServiceStep
  <2>1. CASE Idle(d) \/ Wake(d) \/ Select(d) \/ WaitOthers(d) \/ RouteSignal(d)
    BY <2>1, SameMaps DEF Idle, Wake, Select, WaitOthers, RouteSignal, shared, guest
  <2>2. CASE Deliver(d) \/ Forward(d) \/ ForwardFail(d) \/ RouteRelease(d)
    BY <2>2, DrainMaps
  <2>3. CASE RouteHeader(d) \/ RoutePayload(d)
    BY <2>3, RouteCopyMaps
  <2>4. CASE RoutePublish(d)
    BY <2>4, RoutePublishMaps
  <2> QED
    BY <1>4, <2>1, <2>2, <2>3, <2>4 DEF Routing
<1> QED
  BY <1>1, <1>2, <1>3, <1>4 DEF Next

LEMMA InitMaps == Init => Service!Init
<1> SUFFICES ASSUME Init PROVE Service!Init
  OBVIOUS
<1>1. ASSUME NEW r \in Host PROVE Arrived(r) = << >> /\ rcvd[r] = << >>
  <2>1. Empty(At(RecvQueue(r)))
    BY GuestDrains DEF Init, ResetQueue, Empty, At
  <2>2. rcvd[r] = << >>
    BY DEF Init, Host
  <2> QED
    BY <2>1, <2>2 DEF Arrived
<1>2. \A r \in Host : ip[r] = 1 /\ apc[r] = "run"
  BY DEF Init, Host
<1> QED
  BY <1>1, <1>2 DEF Service!Init

\* Over any number of hops the network implements the message service: a payload
\* (send_recv.c:307-324) reaches its receiver whole and once, before the sender is told
\* of success (route_processor.c:462-479 and 494-497, 576-592 and 603-612) and not when
\* it is told of failure; receives (send_recv.c:422-471) take the payloads in the
\* order of their arrival.
THEOREM NetworkImplementsService == TwoPerLink /\ RoutersStay /\ Spec => ImplementsService
<1> SUFFICES ASSUME TwoPerLink, RoutersStay PROVE Spec => ImplementsService
  OBVIOUS
<1>1. Spec => []ServiceInv
  BY ServiceInvariant
<1>2. IInv /\ ServiceInv /\ PollInv /\ [Next]_vars => [Service!Next]_(Service!vars)
  BY NextMaps DEF ServiceStep
<1> QED
  BY <1>1, <1>2, InitMaps, Invariant, PollInvariant, PTL DEF Spec, ImplementsService, Service!Spec
---------------------------------------------------------------------------
(* The time that a sender is told. *)

\* The routing thread of d brings a packet to a guest: its time is the one at which
\* the packet arrives, or will be when the transmission time is added.
Carrying == {"header", "payload", "release", "publish", "signal"}
Brings(d) == rpc[d] \in Carrying /\ Final(d)
OnTime(d) == IF sel[d].next = d THEN HeldHeader(d).SendTime = rtime[d]
             ELSE Arrives(HeldHeader(d)) = rtime[d]
Recorded(d) == arrival[HeldHeader(d).SenderID] = Arrives(HeldHeader(d))

TimeInv == /\ \A d \in Router : Brings(d) => OnTime(d)
           /\ \A d \in Router : Brings(d) /\ rpc[d] = "signal" => Recorded(d)
           /\ SignalIsArrival

\* The routing thread of e rests, and nobody writes over the header it reads.
BringerRests(e) == /\ RouterRests(e)
                   /\ rtime'[e] = rtime[e]
                   /\ Brings(e) => HeldHeader(e)' = HeldHeader(e)

\* A routing thread keeps its part of the invariant.
InTime(e) == /\ Brings(e) => OnTime(e)
             /\ Brings(e) /\ rpc[e] = "signal" => Recorded(e)

LEMMA InTimeKept ==
    ASSUME NEW e, InTime(e), BringerRests(e),
           Brings(e) /\ rpc[e] = "signal" =>
               arrival'[HeldHeader(e).SenderID] = arrival[HeldHeader(e).SenderID]
    PROVE  InTime(e)'
<1>1. (Brings(e)' <=> Brings(e)) /\ rpc'[e] = rpc[e] /\ sel'[e] = sel[e]
  BY DEF Brings, BringerRests, RouterRests, Final
<1> SUFFICES ASSUME Brings(e)'
             PROVE  OnTime(e)' /\ (rpc'[e] = "signal" => Recorded(e)')
  BY DEF InTime
<1>2. HeldHeader(e)' = HeldHeader(e) /\ rtime'[e] = rtime[e]
  BY <1>1 DEF BringerRests
<1>3. Arrives(HeldHeader(e))' = Arrives(HeldHeader(e))
  BY <1>2 DEF Arrives, Plus
<1> QED
  BY <1>1, <1>2, <1>3 DEF InTime, OnTime, Recorded

LEMMA BringerFacts ==
    ASSUME IInv, NEW e \in Router, Brings(e)
    PROVE  /\ e \in Device /\ sel[e].ind \in Scanned(e) /\ sel[e].ind \in QueueIndex(e)
           /\ ~IsRecvQueue(e, sel[e].ind)
           /\ CanHop(e, sel[e].next)
<1>1. e \in Device /\ RouterInv(e)
  BY DEF IInv, ThreadsInv, Router
<1> QED
  BY <1>1, RouterDrains DEF Brings, Carrying, RouterInv, Scanned

LEMMA BringerElsewhere ==
    ASSUME IInv, ServiceInv, ServiceInv', NEW e \in Router, RouterRests(e), rtime'[e] = rtime[e],
           NEW n, NEW i, Others(n, i),
           Brings(e) => \/ e # n
                        \/ sel[e].ind # i
                        \/ KeepsHead(hq[n][i], hq'[n][i]) /\ HolderRests(e)
    PROVE  BringerRests(e)
<1> SUFFICES ASSUME Brings(e) PROVE HeldHeader(e)' = HeldHeader(e)
  BY DEF BringerRests
<1>1. e \in Device /\ sel[e].ind \in QueueIndex(e)
  BY BringerFacts
<1>2. From(e) = hq[e][sel[e].ind] /\ From(e)' = hq'[e][sel[e].ind] /\ fptr'[e] = fptr[e]
  BY DEF From, RouterRests
<1>3. CASE e # n \/ sel[e].ind # i
  BY <1>1, <1>2, <1>3 DEF Others, HeldHeader
<1>4. CASE Held(e) /\ HolderRests(e)
  BY <1>4 DEF HolderRests
<1>5. CASE ~Held(e) /\ e = n /\ sel[e].ind = i /\ KeepsHead(hq[n][i], hq'[n][i])
  <2>1. rpc[e] \in {"header", "payload", "release"}
    BY <1>5 DEF Brings, Carrying, Held
  <2>2. fptr[e] = From(e).consumer /\ fptr'[e] = From(e)'.consumer
    BY <2>1 DEF ServiceInv, CarrierInv, RouterRests, Router
  <2>3. ~Empty(From(e))
    BY <1>1, <2>1, ServeFacts DEF Busy
  <2> QED
    BY <1>2, <1>5, <2>2, <2>3 DEF KeepsHead, HeldHeader, HeadHeader
<1> QED
  BY <1>3, <1>4, <1>5

\* The invariant, from its parts.
SignalKept(x) == apc'[x] = "signal" /\ conflag'[x].dataflag = 0 =>
                     apc[x] = "signal" /\ conflag'[x] = conflag[x]

LEMMA TimesKept ==
    ASSUME TimeInv, arrival' = arrival, \A x \in Host : SignalKept(x),
           \A e \in Router : BringerRests(e) \/ InTime(e)'
    PROVE  TimeInv'
<1>1. \A e \in Router : InTime(e)'
  BY InTimeKept DEF TimeInv, InTime
<1>2. SignalIsArrival'
  BY DEF TimeInv, SignalIsArrival, SignalKept, Host
<1> QED
  BY <1>1, <1>2 DEF TimeInv, InTime, Router

LEMMA NothingBrought ==
    ASSUME NEW e, rpc'[e] \notin Carrying
    PROVE  InTime(e)'
BY DEF InTime, Brings

\* Steps that leave the queues alone.
LEMMA StillTimes ==
    ASSUME IInv, TimeInv, NEW d \in Device, UNCHANGED <<hq, arrival>>,
           \A x \in Host : SignalKept(x),
           \A e \in Device : e # d => RouterRests(e) /\ rtime'[e] = rtime[e],
           \/ RouterRests(d) /\ rtime'[d] = rtime[d]
           \/ rpc'[d] \notin Carrying
    PROVE  TimeInv'
<1>1. ASSUME NEW e \in Router, RouterRests(e), rtime'[e] = rtime[e] PROVE BringerRests(e)
  BY <1>1 DEF BringerRests, HeldHeader, From, RouterRests
<1>2. \A e \in Router : BringerRests(e) \/ InTime(e)'
  BY <1>1, NothingBrought DEF Router
<1> QED
  BY <1>2, TimesKept

LEMMA GuestStillTimes ==
    ASSUME IInv, TimeInv, NEW d \in Device,
           \/ Execute(d) \/ SendNothing(d) \/ Post(d) \/ PostFail(d) \/ SendReturns(d)
           \/ RecvBegins(d) \/ RecvReturns(d) \/ Exit(d)
    PROVE  TimeInv'
<1>1. RestTypes /\ RouteTypes
  BY TypeSplit DEF IInv
<1>2. /\ UNCHANGED <<hq, arrival, conflag, sel, index, fptr, rtime>>
      /\ apc' = apc \/ \E a \in {"run", "header", "poll", "exited"} : apc' = [apc EXCEPT ![d] = a]
      /\ rpc' = rpc \/ rpc' = [rpc EXCEPT ![d] = "cancelled"]
  BY DEF Execute, SendNothing, Post, PostFail, SendReturns, RecvBegins, RecvReturns, Exit,
     routing, limits, shared
<1>3. \A x \in Host : SignalKept(x)
  BY <1>1, <1>2 DEF SignalKept, RestTypes, Host
<1>4. \A e \in Device : e # d => RouterRests(e) /\ rtime'[e] = rtime[e]
  BY <1>1, <1>2 DEF RouterRests, RouteTypes
<1>5. \/ RouterRests(d) /\ rtime'[d] = rtime[d]
      \/ rpc'[d] \notin Carrying
  BY <1>1, <1>2 DEF RouterRests, RouteTypes, Carrying
<1> QED
  BY <1>2, <1>3, <1>4, <1>5, StillTimes

LEMMA RouterStillTimes ==
    ASSUME IInv, TimeInv, NEW d \in Device, Idle(d) \/ Wake(d) \/ Select(d) \/ WaitOthers(d)
    PROVE  TimeInv'
<1>1. RouteTypes
  BY TypeSplit DEF IInv
<1>2. /\ UNCHANGED <<hq, arrival, conflag, apc, fptr, rtime>>
      /\ rpc[d] \in {"idle", "select", "wait"}
      /\ rpc' = rpc \/ \E a \in {"select", "wait", "serve"} : rpc' = [rpc EXCEPT ![d] = a]
      /\ sel' = sel \/ \E s : sel' = [sel EXCEPT ![d] = s]
      /\ index' = index \/ \E j : index' = [index EXCEPT ![d] = j]
  <2>1. CASE Idle(d)
    BY <2>1 DEF Idle, guest, routing, limits
  <2>2. CASE Wake(d)
    BY <2>2 DEF Wake, guest, routing, limits
  <2>3. CASE Select(d)
    BY <2>3 DEF Select, guest, routing, limits, shared
  <2>4. CASE WaitOthers(d)
    BY <2>4 DEF WaitOthers, guest, routing, limits
  <2> QED
    BY <2>1, <2>2, <2>3, <2>4
<1>3. \A x \in Host : SignalKept(x)
  BY <1>2 DEF SignalKept
<1>4. \A e \in Device : e # d => RouterRests(e) /\ rtime'[e] = rtime[e]
  BY <1>1, <1>2 DEF RouterRests, RouteTypes
<1>5. rpc'[d] \notin Carrying
  BY <1>1, <1>2 DEF RouteTypes, Carrying
<1> QED
  BY <1>2, <1>3, <1>4, <1>5, StillTimes

\* Nobody carries a packet of a guest that does not wait.
LEMMA GuestQueueQuiet ==
    ASSUME IInv, ServiceInv, NEW d \in Host, ~Waits(d), NEW e \in Router, Brings(e)
    PROVE  e # SendQueue(d)[1] \/ sel[e].ind # SendQueue(d)[2]
<1>1. CASE Held(e)
  BY <1>1, GuestQueueFree
<1>2. CASE ~Held(e)
  <2> DEFINE n == SendQueue(d)[1]
             i == SendQueue(d)[2]
  <2>1. FedByGuest(n, i) /\ Feeder(n, i) = d
    BY GuestFeeds
  <2> HIDE DEF n, i
  <2> SUFFICES ASSUME e = n, sel[e].ind = i PROVE FALSE
    BY DEF n, i
  <2>2. e \in Device /\ rpc[e] \in Busy
    BY <1>2 DEF Brings, Carrying, Held, Busy, Router
  <2>3. Traveller(e, sel[e].ind) /\ LinkAt(e, sel[e].ind) = sel[e].ind
    BY <2>2, ServedPlace
  <2> QED
    BY <2>1, <2>3 DEF Traveller, Linked
<1> QED
  BY <1>1, <1>2

LEMMA CopyTimes ==
    ASSUME IInv, ServiceInv, ServiceInv', TimeInv, NEW d \in Device,
           CopyHeader(d) \/ CopyPayload(d) \/ Publish(d)
    PROVE  TimeInv'
<1>1. RestTypes /\ QueueTypes
  BY TypeSplit DEF IInv
<1>2. /\ apc[d] \in {"header", "payload", "publish"}
      /\ \E u : Set(SendQueue(d), u)
      /\ UNCHANGED <<arrival, sel, index, fptr, rtime, rpc>>
      /\ \/ /\ \E a \in {"payload", "publish"} : apc' = [apc EXCEPT ![d] = a]
            /\ conflag' = conflag \/ \E f : conflag' = [conflag EXCEPT ![d] = f]
         \/ apc[d] = "publish" /\ apc' = [apc EXCEPT ![d] = "signal"] /\ conflag' = conflag
  BY DEF CopyHeader, CopyPayload, Publish, routing, limits
<1>3. d \in Host /\ (apc[d] = "publish" => conflag[d].dataflag = 77) /\ ~Waits(d)
  BY <1>2 DEF ServiceInv, SenderInv, Posted, Waits
<1>4. \A x \in Host : SignalKept(x)
  BY <1>1, <1>2, <1>3 DEF SignalKept, RestTypes, Host
<1>5. SendQueue(d)[1] \in Device /\ SendQueue(d)[2] \in QueueIndex(SendQueue(d)[1])
  BY <1>3, GuestFeeds
<1>6. Others(SendQueue(d)[1], SendQueue(d)[2])
  <2>1. PICK u : hq' = [hq EXCEPT ![SendQueue(d)[1]][SendQueue(d)[2]] = u]
    BY <1>2 DEF Set
  <2> QED
    BY <1>1, <1>5, <2>1 DEF QueueTypes, Others
<1>7. ASSUME NEW e \in Router PROVE BringerRests(e)
  <2>1. RouterRests(e) /\ rtime'[e] = rtime[e]
    BY <1>2 DEF RouterRests
  <2> QED
    BY <1>3, <1>6, <2>1, GuestQueueQuiet, BringerElsewhere
<1> QED
  BY <1>2, <1>4, <1>7, TimesKept

LEMMA GetMessageTimes ==
    ASSUME IInv, ServiceInv, ServiceInv', TimeInv, NEW d \in Device, GetMessage(d)
    PROVE  TimeInv'
<1>1. RestTypes /\ QueueTypes /\ GuestInv(d)
  BY TypeSplit DEF IInv, ThreadsInv
<1>2. /\ apc[d] = "poll" /\ apc' = [apc EXCEPT ![d] = "late"]
      /\ \E u : Set(RecvQueue(d), u)
      /\ UNCHANGED <<conflag, arrival, sel, index, fptr, rtime, rpc>>
  BY DEF GetMessage, routing, limits
<1>3. PICK i \in QueueIndex(d) : IsRecvQueue(d, i) /\ RecvQueue(d)[1] = d /\ RecvQueue(d)[2] = i
  BY <1>1, <1>2, GuestDrains DEF GuestInv
<1>4. \A x \in Host : SignalKept(x)
  BY <1>1, <1>2 DEF SignalKept, RestTypes, Host
<1>5. Others(d, i)
  <2>1. PICK u : hq' = [hq EXCEPT ![d][i] = u]
    BY <1>2, <1>3 DEF Set
  <2> QED
    BY <1>1, <1>3, <2>1 DEF QueueTypes, Others
<1>6. ASSUME NEW e \in Router PROVE BringerRests(e)
  <2>1. RouterRests(e) /\ rtime'[e] = rtime[e]
    BY <1>2 DEF RouterRests
  <2> QED
    BY <1>3, <1>5, <2>1, BringerFacts, BringerElsewhere
<1> QED
  BY <1>2, <1>4, <1>6, TimesKept

\* A router that brings a packet to an end device has it from its own guest.
LEMMA OwnLastHop ==
    ASSUME ShortRoutes, IInv, ServiceInv, NEW d \in Device, rpc[d] \in Busy,
           sel[d].next # d, Final(d)
    PROVE  HeadHeader(From(d)).SenderID = d
<1>1. /\ d \in Router /\ PacketAt(d, sel[d].ind) /\ Traveller(d, sel[d].ind)
      /\ HeaderAt(d, sel[d].ind) = HeadHeader(From(d))
  BY ServedPlace
<1>2. sel[d].next = Hop(d, HeadHeader(From(d)).ReceiverID)
  BY ServeFacts DEF Selected
<1>3. PICK s \in Host : /\ s = HeadHeader(From(d)).SenderID /\ Waits(s)
                        /\ HeadHeader(From(d)).ReceiverID = Receiver(s)
                        /\ d \in OnRoute(s, Receiver(s))
  BY <1>1 DEF Traveller, SenderAt, Linked
<1> DEFINE r == Receiver(s)
<1>4. r \in Host /\ r # s /\ r \in SendsTo(s)
  BY <1>3 DEF ServiceInv, SenderInv, Waits, Posted, Host, SendsTo, Receiver
<1> HIDE DEF r
<1>5. r # d /\ sel[d].next = NextHop[d][r]
  BY <1>2, <1>3 DEF Hop, r
<1>6. DeviceType[r] = "ZED"
  BY <1>4, <1>5, TopologyAssumption DEF Final
<1>7. s \in Device /\ r \in Device /\ r # 1
  BY <1>4, <1>6, TopologyAssumption DEF Host
<1>8. NextHop[s][r] = r
  BY <1>4, <1>7 DEF ShortRoutes
<1>9. d \in {s, r}
  <2>1. {s, r} \in SUBSET Device /\ s \in {s, r} /\ \A e \in {s, r} \ {r} : NextHop[e][r] \in {s, r}
    BY <1>7, <1>8
  <2> QED
    BY <1>3, <2>1 DEF OnRoute, r
<1> QED
  BY <1>3, <1>5, <1>9

\* The threads other than the one that drains its queue.
LEMMA DrainTimes ==
    ASSUME IInv, ServiceInv, ServiceInv', NEW d \in Device, NEW i, Others(d, i),
           NEW e \in Router, e # d, RouterRests(e), rtime'[e] = rtime[e]
    PROVE  BringerRests(e)
BY BringerElsewhere

LEMMA RewriteTimes ==
    ASSUME IInv, ServiceInv, ServiceInv', TimeInv, NEW d \in Device, rpc[d] = "serve",
           NEW h \in Header, Rewrite(d, h), fptr' = [fptr EXCEPT ![d] = From(d).consumer],
           rpc' = [rpc EXCEPT ![d] = "header"], NEW t, rtime' = [rtime EXCEPT ![d] = t],
           UNCHANGED <<conflag, apc, arrival, index, sel>>,
           Final(d) => IF sel[d].next = d THEN h.SendTime = t ELSE Arrives(h) = t
    PROVE  TimeInv'
<1>1. RouteTypes /\ QueueTypes
  BY TypeSplit DEF IInv
<1> DEFINE i == sel[d].ind
           q == From(d)
           u == [q EXCEPT !.entry[q.consumer] = h]
<1>2. d \in Router /\ i \in QueueIndex(d) /\ EvenQueue(q) /\ ~Empty(q)
  BY ServeFacts DEF Busy
<1>3. hq' = [hq EXCEPT ![d][i] = u] /\ q = hq[d][i]
  BY DEF Rewrite, From
<1> HIDE DEF q
<1>4. EvenQueue(u) /\ u.consumer = q.consumer /\ HeadHeader(u) = h
  BY <1>2, RewriteFacts
<1> HIDE DEF u, i
<1>5. hq'[d][i] = u /\ Others(d, i)
  BY ONLY d \in Device, <1>1, <1>2, <1>3, <1>4, OneQueue
<1>6. rpc'[d] = "header" /\ sel'[d] = sel[d] /\ fptr'[d] = q.consumer /\ rtime'[d] = t
      /\ \A e \in Device : e # d => RouterRests(e) /\ rtime'[e] = rtime[e]
  BY <1>1 DEF RouteTypes, RouterRests, q
<1>7. HeldHeader(d)' = h
  <2>1. From(d)' = u
    BY <1>5, <1>6 DEF From, i
  <2> QED
    BY <1>4, <1>6, <2>1 DEF HeldHeader, HeadHeader
<1>8. InTime(d)'
  <2>1. Final(d)' <=> Final(d)
    BY <1>6 DEF Final
  <2>2. Arrives(HeldHeader(d))' = Arrives(h)
    BY <1>7 DEF Arrives, Plus
  <2> QED
    BY <1>6, <1>7, <2>1, <2>2 DEF InTime, Brings, OnTime
<1>9. \A e \in Router : BringerRests(e) \/ InTime(e)'
  BY <1>5, <1>6, <1>8, DrainTimes DEF Router
<1> QED
  BY <1>9, TimesKept DEF SignalKept

LEMMA DeliverTimes ==
    ASSUME IInv, ServiceInv, ServiceInv', TimeInv, NEW d \in Device, Deliver(d)
    PROVE  TimeInv'
<1> DEFINE h == HeadHeader(From(d))
           rt == Later(rtime[d], h.SendTime)
           g == [h EXCEPT !.SendTime = rt]
<1>1. /\ rpc[d] = "serve" /\ sel[d].next = d
      /\ rtime' = [rtime EXCEPT ![d] = rt]
      /\ Rewrite(d, g)
      /\ fptr' = [fptr EXCEPT ![d] = From(d).consumer]
      /\ rpc' = [rpc EXCEPT ![d] = "header"]
      /\ UNCHANGED <<conflag, apc, arrival, index, sel>>
  BY DEF Deliver, guest, limits
<1>2. Good(h)
  BY <1>1, ServeFacts DEF Busy, Message
<1>3. rt \in Time /\ h.TransTime \in Time
  BY <1>2, TypeSplit, HeaderTimes, TimeFacts DEF Good, IInv, RouteTypes
<1> HIDE DEF rt
<1>4. h \in Header /\ IsDelivered(g, h, rt)
  BY <1>2 DEF Good, IsDelivered
<1> HIDE DEF g, h
<1>5. g \in Header /\ g.SendTime = rt
  BY ONLY d \in Device, <1>3, <1>4, HeaderUpdate
<1> QED
  BY <1>1, <1>5, RewriteTimes

LEMMA ForwardTimes ==
    ASSUME ShortRoutes, IInv, ServiceInv, ServiceInv', TimeInv, NEW d \in Device, Forward(d)
    PROVE  TimeInv'
<1> DEFINE h == HeadHeader(From(d))
           rt == Later(rtime[d], h.SendTime)
           own == h.SenderID = d
           s == IF own THEN rt ELSE Plus(rt, h.TransTime)
<1>1. /\ rpc[d] = "serve" /\ sel[d].next # d
      /\ fptr' = [fptr EXCEPT ![d] = From(d).consumer]
      /\ rpc' = [rpc EXCEPT ![d] = "header"]
      /\ UNCHANGED <<conflag, apc, arrival, index, sel>>
  BY DEF Forward, guest, limits
<1>2. PICK t \in IF own THEN {h.TransTime} ELSE Latency :
          /\ Rewrite(d, [h EXCEPT !.ForwardID = d, !.SendTime = s, !.TransTime = t])
          /\ rtime' = [rtime EXCEPT ![d] = Plus(rt, t)]
  BY DEF Forward
<1>3. Good(h)
  BY <1>1, ServeFacts DEF Busy, Message
<1>4. rt \in Time /\ h.TransTime \in Time
  BY <1>3, TypeSplit, HeaderTimes, TimeFacts DEF Good, IInv, RouteTypes
<1>5. t \in Time
  BY <1>2, <1>4, TimeAssumption
<1>6. Final(d) => own
  BY <1>1, OwnLastHop DEF Busy
<1> HIDE DEF rt
<1>7. s \in Time /\ (own => s = rt)
  BY <1>4, <1>5, TimeFacts
<1> DEFINE g == [h EXCEPT !.ForwardID = d, !.SendTime = s, !.TransTime = t]
<1> HIDE DEF s
<1>8. h \in Header /\ IsForwarded(g, h, d, s, t)
  BY <1>3 DEF Good, IsForwarded
<1>9. Rewrite(d, g) /\ rtime' = [rtime EXCEPT ![d] = Plus(rt, t)]
  BY <1>2
<1> HIDE DEF g, h
<1>10. g \in Header /\ g.SendTime = s /\ g.TransTime = t
  BY ONLY d \in Device, <1>5, <1>7, <1>8, HeaderUpdate
<1>11. Final(d) => Arrives(g) = Plus(rt, t)
  BY <1>6, <1>7, <1>10 DEF Arrives
<1> QED
  BY <1>1, <1>9, <1>10, <1>11, RewriteTimes

\* The thread that carries a packet on.
LEMMA CarriesOn ==
    ASSUME TimeInv, NEW d \in Router, rpc[d] \in Carrying, rpc'[d] \in Carrying \ {"signal"},
           sel'[d] = sel[d], rtime'[d] = rtime[d], HeldHeader(d)' = HeldHeader(d)
    PROVE  InTime(d)'
<1>1. Final(d)' <=> Final(d)
  BY DEF Final
<1>2. Arrives(HeldHeader(d))' = Arrives(HeldHeader(d))
  BY DEF Arrives, Plus
<1> QED
  BY <1>1, <1>2 DEF TimeInv, InTime, Brings, OnTime

LEMMA ForwardFailTimes ==
    ASSUME IInv, ServiceInv, ServiceInv', TimeInv, NEW d \in Device, ForwardFail(d)
    PROVE  TimeInv'
<1>1. RestTypes /\ RouteTypes /\ QueueTypes
  BY TypeSplit DEF IInv
<1>2. /\ rpc[d] = "serve" /\ rpc' = [rpc EXCEPT ![d] = "idle"]
      /\ \E s, t : conflag' = [conflag EXCEPT ![s] = [dataflag |-> 44, transtime |-> t]]
      /\ \E t : rtime' = [rtime EXCEPT ![d] = t]
      /\ \E u : hq' = [hq EXCEPT ![d][sel[d].ind] = u]
      /\ sel' = [sel EXCEPT ![d] = NoPacket]
      /\ UNCHANGED <<apc, arrival, index, fptr>>
  BY DEF ForwardFail, guest
<1>3. sel[d].ind \in QueueIndex(d)
  BY <1>2, ServeFacts DEF Busy
<1>4. Others(d, sel[d].ind)
  BY <1>1, <1>2, <1>3 DEF QueueTypes, Others
<1>5. rpc'[d] = "idle" /\ \A e \in Device : e # d => RouterRests(e) /\ rtime'[e] = rtime[e]
  BY <1>1, <1>2 DEF RouteTypes, RouterRests
<1>6. \A e \in Router : BringerRests(e) \/ InTime(e)'
  <2>1. InTime(d)'
    BY <1>5, NothingBrought DEF Carrying
  <2> QED
    BY <1>4, <1>5, <2>1, DrainTimes DEF Router
<1>7. \A x \in Host : SignalKept(x)
  BY <1>1, <1>2 DEF SignalKept, RestTypes, Host
<1> QED
  BY <1>2, <1>6, <1>7, TimesKept

LEMMA RouteReleaseTimes ==
    ASSUME IInv, ServiceInv, ServiceInv', TimeInv, NEW d \in Device, RouteRelease(d)
    PROVE  TimeInv'
<1>1. RouteTypes /\ QueueTypes
  BY TypeSplit DEF IInv
<1> DEFINE i == sel[d].ind
           q == From(d)
           u == Released(q)
<1>2. /\ rpc[d] = "release" /\ rpc' = [rpc EXCEPT ![d] = "publish"]
      /\ UNCHANGED <<conflag, apc, arrival, index, sel, rtime, fptr>>
  BY DEF RouteRelease, guest, limits
<1>3. hq' = [hq EXCEPT ![d][i] = u] /\ q = hq[d][i]
  BY DEF RouteRelease, From
<1>4. d \in Router /\ i \in QueueIndex(d) /\ EvenQueue(q) /\ ~Empty(q)
  BY <1>2, ServeFacts DEF Busy
<1> HIDE DEF q
<1>5. EvenQueue(u) /\ u.entry = q.entry
  <2>1. Advance(q.consumer) \in Even
    BY <1>4, EvenFacts DEF EvenQueue
  <2> QED
    BY <1>4, <2>1, QueueUpdate, ReleasedFacts DEF Released
<1>6. sel[d].ind = i /\ q = From(d)
  BY DEF q
<1> HIDE DEF u, i
<1>7. hq'[d][i] = u /\ Others(d, i)
  BY ONLY d \in Device, <1>1, <1>3, <1>4, <1>5, OneQueue
<1>8. HeldHeader(d)' = HeldHeader(d)
  BY <1>2, <1>3, <1>5, <1>6, <1>7 DEF HeldHeader, From
<1>9. rpc'[d] = "publish" /\ \A e \in Device : e # d => RouterRests(e) /\ rtime'[e] = rtime[e]
  BY <1>1, <1>2 DEF RouteTypes, RouterRests
<1>10. \A e \in Router : BringerRests(e) \/ InTime(e)'
  <2>1. InTime(d)'
    BY <1>2, <1>4, <1>8, <1>9, CarriesOn DEF Carrying
  <2> QED
    BY <1>7, <1>9, <2>1, DrainTimes DEF Router
<1> QED
  BY <1>2, <1>10, TimesKept DEF SignalKept

LEMMA RouteCopyTimes ==
    ASSUME TwoPerLink, IInv, ServiceInv, ServiceInv', TimeInv, NEW d \in Device,
           RouteHeader(d) \/ RoutePayload(d)
    PROVE  TimeInv'
<1>1. RouteTypes /\ QueueTypes
  BY TypeSplit DEF IInv
<1> DEFINE q == At(Target(d))
           n == Target(d)[1]
           i == Target(d)[2]
           h == HeadHeader(From(d))
           p == HeadPayload(From(d))
<1>2. /\ rpc[d] \in {"header", "payload"}
      /\ \E a \in {"payload", "release"} : rpc' = [rpc EXCEPT ![d] = a]
      /\ UNCHANGED <<conflag, apc, arrival, index, sel, rtime, fptr>>
  BY DEF RouteHeader, RoutePayload, guest, limits
<1>3. /\ d \in Router /\ CanHop(d, sel[d].next) /\ h \in Header /\ p \in PayloadSet
      /\ sel[d].ind \in QueueIndex(d) /\ ~IsRecvQueue(d, sel[d].ind)
  BY <1>2, ServeFacts DEF Busy, Message, Good, Addressed
<1>4. n \in Device /\ i \in QueueIndex(n) /\ (n = d <=> i = LocalIn)
  BY <1>3, RouterFeeds
<1>5. EvenQueue(q) /\ q = hq[n][i]
  BY <1>3, TargetFacts DEF At
<1>6. PICK u : /\ hq' = [hq EXCEPT ![n][i] = u]
               /\ \/ rpc[d] = "header" /\ u = PutHeader(q, h)
                  \/ u = PutPayload(q, p) /\ ~NoPayloadEntry(q)
  BY <1>3, TargetFacts DEF RouteHeader, RoutePayload
<1>7. \A e \in Router : Held(e) /\ e = n /\ sel[e].ind = i /\ rpc[d] = "header" => fptr[e] # q.producer
  BY LinkFree
<1> HIDE DEF q, n, i, h, p
<1>8. EvenQueue(u) /\ KeepsHead(q, u)
      /\ \A k \in Even : rpc[d] # "header" \/ k # q.producer => u.entry[k] = q.entry[k]
  <2>1. /\ q.producer \in Index /\ PayloadOf(q.producer) \in Index
        /\ PayloadOf(q.producer) \notin Even /\ h \in Entry /\ p \in Entry
    BY <1>3, <1>5, EvenFacts DEF EvenQueue, Entry
  <2>2. CASE rpc[d] = "header" /\ u = PutHeader(q, h)
    <3>1. \A k \in Index : k # q.producer => u.entry[k] = q.entry[k]
      BY <1>5, <2>1, <2>2, QueueUpdate DEF PutHeader
    <3> QED
      BY <1>3, <1>5, <2>2, <3>1, PutHeaderFacts, EvenFacts
  <2>3. CASE u = PutPayload(q, p) /\ ~NoPayloadEntry(q)
    <3>1. \A k \in Index : k # PayloadOf(q.producer) => u.entry[k] = q.entry[k]
      BY <1>5, <2>1, <2>3, QueueUpdate DEF PutPayload
    <3> QED
      BY <1>3, <1>5, <2>1, <2>3, <3>1, PutPayloadFacts, EvenFacts
  <2> QED
    BY <1>6, <2>2, <2>3
<1>9. hq'[n][i] = u /\ Others(n, i)
  <2>1. QueueTypes /\ n \in Device /\ i \in QueueIndex(n) /\ EvenQueue(u)
        /\ hq' = [hq EXCEPT ![n][i] = u]
    BY ONLY <1>1, <1>4, <1>6, <1>8
  <2> QED
    BY ONLY <2>1, OneQueue
<1>10. (\A e \in Device : e # d => RouterRests(e) /\ rtime'[e] = rtime[e])
       /\ rpc'[d] \in {"payload", "release"}
  BY <1>1, <1>2 DEF RouteTypes, RouterRests
<1>11. ASSUME NEW e \in Router, e # d PROVE BringerRests(e)
  <2>1. RouterRests(e) /\ rtime'[e] = rtime[e]
    BY <1>10, <1>11 DEF Router
  <2>2. Held(e) /\ e = n /\ sel[e].ind = i => hq'[n][i].entry[fptr[e]] = hq[n][i].entry[fptr[e]]
    BY <1>5, <1>7, <1>8, <1>9, HeldFacts
  <2>3. HolderRests(e)
    BY <1>9, <2>1, <2>2, HeldElsewhere
  <2> QED
    BY <1>5, <1>8, <1>9, <2>1, <2>3, BringerElsewhere
<1>12. InTime(d)'
  <2>1. From(d)' = From(d)
    BY <1>2, <1>3, <1>4, <1>9 DEF From, Others, IsRecvQueue
  <2>2. HeldHeader(d)' = HeldHeader(d)
    BY <1>2, <2>1 DEF HeldHeader
  <2> QED
    BY <1>2, <1>3, <1>10, <2>2, CarriesOn DEF Carrying
<1> QED
  BY <1>2, <1>11, <1>12, TimesKept DEF SignalKept

LEMMA RoutePublishTimes ==
    ASSUME IInv, ServiceInv, ServiceInv', TimeInv, NEW d \in Device, RoutePublish(d)
    PROVE  TimeInv'
<1>1. PICK n, i :
        /\ n = Target(d)[1] /\ i = Target(d)[2]
        /\ d \in Router /\ n = sel[d].next /\ (n = d <=> i = LocalIn)
        /\ Others(n, i) /\ HeadKept(n, i)
        /\ IsRecvQueue(n, i) => HeldHeader(d).ReceiverID = n
        /\ rpc'[d] = "signal" /\ rpc[d] = "publish" /\ Held(d)
        /\ UNCHANGED <<conflag, apc, ip, hdr, hptr, rcvd, index, sel, fptr>>
        /\ From(d)' = From(d)
        /\ \A e \in Router : e # d => RouterRests(e) /\ HolderRests(e)
  BY PublishFacts
<1>2. PICK s \in Host : s = HeldHeader(d).SenderID /\ Waits(s)
  BY <1>1, HeldWaits
<1>3. /\ rtime' = rtime
      /\ arrival' = IF HeldHeader(d).ReceiverID = sel[d].next
                    THEN [arrival EXCEPT ![s] = Arrives(HeldHeader(d))] ELSE arrival
  <2>1. TailHeader(At(Target(d))) = HeldHeader(d)
    BY <1>1 DEF ServiceInv, CarrierInv
  <2> QED
    BY <1>2, <2>1 DEF RoutePublish, TailHeader
<1>4. arrival \in [Device -> Time] /\ s \in Device
  BY TypeSplit DEF IInv, LimitTypes, Host
<1>5. \A x \in Device : x # s => arrival'[x] = arrival[x]
  BY <1>3, <1>4
<1>6. ASSUME NEW e \in Router, e # d PROVE InTime(e)'
  <2>1. BringerRests(e)
    BY <1>1, <1>3, <1>6, BringerElsewhere DEF HeadKept
  <2>2. ASSUME Brings(e), rpc[e] = "signal"
        PROVE  HeldHeader(e).SenderID \in Device /\ HeldHeader(e).SenderID # s
    <3>1. Held(e)
      BY <2>2 DEF Held, Brings
    <3>2. 0 \in Slot /\ PacketAt(e, 0) /\ PacketAt(d, 0) /\ SenderAt(d, 0) = s
          /\ SenderAt(e, 0) = HeldHeader(e).SenderID
      BY <1>1, <1>2, <3>1 DEF Slot, PacketAt, SenderAt, HeaderAt
    <3>3. SenderAt(e, 0) # SenderAt(d, 0)
      BY <1>1, <1>6, <3>2 DEF ServiceInv, UniqueInv
    <3> QED
      BY <3>1, <3>2, <3>3, HeldWaits DEF Host
  <2>3. InTime(e)
    BY DEF TimeInv, InTime
  <2> QED
    BY <1>5, <2>1, <2>2, <2>3, InTimeKept
<1>7. InTime(d)'
  <2> SUFFICES ASSUME Final(d)' PROVE OnTime(d)' /\ Recorded(d)'
    BY <1>1 DEF InTime, Brings
  <2>1. Final(d) /\ HeldHeader(d)' = HeldHeader(d) /\ sel'[d] = sel[d] /\ rtime'[d] = rtime[d]
    BY <1>1, <1>3 DEF Final, HeldHeader
  <2>2. Arrives(HeldHeader(d))' = Arrives(HeldHeader(d))
    BY <2>1 DEF Arrives, Plus
  <2>3. OnTime(d)
    BY <1>1, <2>1 DEF TimeInv, Brings, Carrying
  <2>4. HeldHeader(d).ReceiverID = sel[d].next
    BY <1>1, <2>1 DEF Final, IsRecvQueue
  <2>5. arrival'[s] = Arrives(HeldHeader(d))
    BY <1>3, <1>4, <2>4
  <2> QED
    BY <1>2, <2>1, <2>2, <2>3, <2>5 DEF OnTime, Recorded
<1>8. SignalIsArrival'
  <2> SUFFICES ASSUME NEW x \in Host, apc'[x] = "signal", conflag'[x].dataflag = 0
               PROVE  conflag'[x].transtime = arrival'[x]
    BY DEF SignalIsArrival, Host
  <2>1. apc[x] = "signal" /\ conflag[x].dataflag = 0 /\ x # s /\ x \in Device
    BY <1>1, <1>2 DEF Waits, Host
  <2> QED
    BY <1>1, <1>5, <2>1 DEF TimeInv, SignalIsArrival
<1> QED
  BY <1>6, <1>7, <1>8 DEF TimeInv, InTime, Router

LEMMA RouteSignalTimes ==
    ASSUME IInv, ServiceInv, TimeInv, NEW d \in Device, RouteSignal(d)
    PROVE  TimeInv'
<1>1. RestTypes /\ RouteTypes /\ RouterInv(d)
  BY TypeSplit DEF IInv, ThreadsInv
<1> DEFINE h == HeldHeader(d)
           rt == IF sel[d].next = d THEN Plus(rtime[d], h.TransTime) ELSE rtime[d]
           told == sel[d].next = d \/ (h.ReceiverID = sel[d].next /\ DeviceType[sel[d].next] = "ZED")
<1>2. /\ rpc[d] = "signal"
      /\ conflag' = IF told
                    THEN [conflag EXCEPT ![h.SenderID] = [dataflag |-> 0, transtime |-> rt]]
                    ELSE conflag
      /\ rtime' = [rtime EXCEPT ![d] = rt]
      /\ rpc' = [rpc EXCEPT ![d] = "idle"]
      /\ sel' = [sel EXCEPT ![d] = NoPacket]
      /\ fptr' = [fptr EXCEPT ![d] = 0]
      /\ UNCHANGED <<hq, apc, index, arrival>>
  BY DEF RouteSignal, guest, limits, HeldHeader
<1>3. d \in Router
  BY <1>1, <1>2 DEF RouterInv
<1>4. told => rt = arrival[h.SenderID]
  <2> SUFFICES ASSUME told PROVE rt = arrival[h.SenderID]
    OBVIOUS
  <2>1. Brings(d)
    BY <1>2 DEF Brings, Carrying, Final
  <2>2. OnTime(d) /\ Recorded(d)
    BY <1>2, <1>3, <2>1 DEF TimeInv
  <2> QED
    BY <2>2 DEF OnTime, Recorded, Arrives
<1> HIDE DEF rt, told, h
<1>5. rpc'[d] = "idle" /\ \A e \in Device : e # d => RouterRests(e) /\ rtime'[e] = rtime[e]
  BY <1>1, <1>2 DEF RouteTypes, RouterRests
<1>6. ASSUME NEW e \in Router PROVE InTime(e)'
  <2>1. CASE e = d
    BY <1>5, <2>1, NothingBrought DEF Carrying
  <2>2. CASE e # d
    <3>1. RouterRests(e) /\ rtime'[e] = rtime[e]
      BY <1>5, <2>2 DEF Router
    <3>2. BringerRests(e)
      BY <1>2, <3>1 DEF BringerRests, HeldHeader, From, RouterRests
    <3>3. InTime(e)
      BY DEF TimeInv, InTime
    <3> QED
      BY <1>2, <3>2, <3>3, InTimeKept
  <2> QED
    BY <2>1, <2>2
<1>7. SignalIsArrival'
  <2> SUFFICES ASSUME NEW x \in Host, apc'[x] = "signal", conflag'[x].dataflag = 0
               PROVE  conflag'[x].transtime = arrival'[x]
    BY DEF SignalIsArrival, Host
  <2>1. x \in Device /\ apc[x] = "signal"
    BY <1>2 DEF Host
  <2>2. CASE told /\ x = h.SenderID
    BY <1>1, <1>2, <1>4, <2>1, <2>2 DEF RestTypes
  <2>3. CASE ~(told /\ x = h.SenderID)
    <3>1. conflag'[x] = conflag[x]
      BY <1>1, <1>2, <2>1, <2>3 DEF RestTypes
    <3> QED
      BY <1>2, <2>1, <3>1 DEF TimeInv, SignalIsArrival
  <2> QED
    BY <2>2, <2>3
<1> QED
  BY <1>6, <1>7 DEF TimeInv, InTime, Router

LEMMA NextTimes ==
    ASSUME TwoPerLink, ShortRoutes, IInv, ServiceInv, ServiceInv', TimeInv, [Next]_vars
    PROVE  TimeInv'
<1>1. CASE UNCHANGED vars
  <2>1. UNCHANGED <<hq, arrival, conflag, apc, rpc, sel, index, fptr, rtime>>
    BY <1>1 DEF vars, shared, guest, routing, limits
  <2>2. \A e \in Router : BringerRests(e)
    BY <2>1 DEF BringerRests, RouterRests, HeldHeader, From
  <2> QED
    BY <2>1, <2>2, TimesKept DEF SignalKept
<1>2. ASSUME NEW d \in Device, Execute(d) \/ Guest(d) PROVE TimeInv'
  BY <1>2, GuestStillTimes, CopyTimes, GetMessageTimes DEF Guest
<1>3. ASSUME NEW d \in Device, Routing(d) PROVE TimeInv'
  BY <1>3, RouterStillTimes, DeliverTimes, ForwardTimes, ForwardFailTimes, RouteCopyTimes,
     RouteReleaseTimes, RoutePublishTimes, RouteSignalTimes DEF Routing
<1> QED
  BY <1>1, <1>2, <1>3 DEF Next

LEMMA InitTimes == Init => TimeInv
<1> SUFFICES ASSUME Init PROVE TimeInv
  OBVIOUS
<1>1. \A d \in Router : rpc[d] = "idle"
  BY DEF Init, Router
<1>2. \A s \in Host : apc[s] = "run"
  BY DEF Init, Host
<1> QED
  BY <1>1, <1>2 DEF TimeInv, Brings, Carrying, SignalIsArrival

\* The time in the transmission signal (route_processor.c:494-497, 603-612), to
\* which the sender sets its clock (send_recv.c:52-53), is the time at which its
\* packet arrived, although the thread reads it from an entry it has released.
THEOREM SignalTellsArrival == TwoPerLink /\ RoutersStay /\ ShortRoutes /\ Spec => []SignalIsArrival
<1> SUFFICES ASSUME TwoPerLink, RoutersStay, ShortRoutes PROVE Spec => []SignalIsArrival
  OBVIOUS
<1>1. Spec => []ServiceInv
  BY ServiceInvariant
<1>2. IInv /\ ServiceInv /\ ServiceInv' /\ TimeInv /\ [Next]_vars => TimeInv'
  BY NextTimes
<1>3. TimeInv => SignalIsArrival
  BY DEF TimeInv
<1> QED
  BY <1>1, <1>2, <1>3, InitTimes, Invariant, PTL DEF Spec
---------------------------------------------------------------------------
(* What a receiver reads from an entry it has released. *)

\* The entry is the one that the next message but one will be written to, and it
\* holds the header received until a routing thread writes there.
LateOK(d) ==
    LET q == At(RecvQueue(d)) IN
    /\ hptr[d] = Advance(q.consumer)
    /\ Overwriting(d) = {} => q.entry[hptr[d]] = hdr[d]

LateInv == \A d \in Host : apc[d] = "late" => LateOK(d)

\* A routing thread with a header in a full queue stays where it is.
BlockedRest == \A f \in Router : \/ RouterRests(f)
                                 \/ rpc[f] # "payload"
                                 \/ Empty(At(Target(f)))

LEMMA OverwritingStays ==
    ASSUME BlockedRest, NEW d \in Host, Empty(At(RecvQueue(d)))' => Empty(At(RecvQueue(d)))
    PROVE  Overwriting(d) \subseteq Overwriting(d)'
<1> SUFFICES ASSUME NEW f \in Overwriting(d) PROVE f \in Overwriting(d)'
  OBVIOUS
<1>1. /\ f \in Router /\ rpc[f] = "payload" /\ Target(f) = RecvQueue(d)
      /\ ~Empty(At(RecvQueue(d))) /\ ~Empty(At(Target(f)))
  BY DEF Overwriting
<1>2. rpc'[f] = "payload" /\ sel'[f] = sel[f]
  BY <1>1 DEF BlockedRest, RouterRests
<1>3. Target(f)' = Target(f) /\ RecvQueue(d)' = RecvQueue(d)
  BY <1>2 DEF Target, LinkOf, NeighborNum, RecvQueue
<1>4. f \in Router' /\ ~Empty(At(RecvQueue(d)))'
  BY <1>1 DEF Router, Device
<1> QED
  BY <1>1, <1>2, <1>3, <1>4 DEF Overwriting

\* A receiver that does not move, when nobody touches its queue.
LEMMA LateKept ==
    ASSUME LateInv, BlockedRest, NEW d \in Host, GuestRests(d),
           At(RecvQueue(d))' = At(RecvQueue(d)), apc'[d] = "late"
    PROVE  LateOK(d)'
<1>1. LateOK(d) /\ hptr'[d] = hptr[d] /\ hdr'[d] = hdr[d]
  BY DEF LateInv, GuestRests
<1>2. Empty(At(RecvQueue(d)))' => Empty(At(RecvQueue(d)))
  BY DEF Empty
<1>3. Overwriting(d)' = {} => Overwriting(d) = {}
  BY <1>2, OverwritingStays
<1> QED
  BY <1>1, <1>3 DEF LateOK

\* One queue is written, and it is not one that guests receive from.
LEMMA RecvQueuesKept ==
    ASSUME IInv, NEW n \in Device, NEW i \in QueueIndex(n), NEW u,
           hq' = [hq EXCEPT ![n][i] = u]
    PROVE  /\ hq'[n][i] = u
           /\ \A d \in Host : d # n \/ ~IsRecvQueue(n, i) \/ RecvQueue(d)[2] # i =>
                 At(RecvQueue(d))' = At(RecvQueue(d))
<1>1. Others(n, i) /\ hq'[n][i] = u
  BY TypeSplit DEF IInv, QueueTypes, Others
<1> QED
  BY <1>1, RecvQueueNow DEF Others

LEMMA GuestLate ==
    ASSUME IInv, LateInv, RoutersStay, NEW d \in Device, Execute(d) \/ Guest(d), ~GetMessage(d)
    PROVE  LateInv'
<1>1. /\ \A e \in Device : e # d => GuestRests(e)
      /\ apc'[d] # "late"
      /\ UNCHANGED <<rpc, index, sel, fptr>>
  <2>1. apc \in [Device -> {"run", "header", "payload", "publish", "signal", "poll", "late", "exited"}]
    BY DEF IInv, TypeOK
  <2>2. ip \in [Device -> Nat \ {0}] /\ DOMAIN hdr = Device /\ DOMAIN hptr = Device
    BY DEF IInv, TypeOK
  <2>3. CASE Exit(d)
    <3>1. ip[d] \in 1 .. Len(Program[d]) /\ Program[d][ip[d]].op = "exit"
      BY <2>2, <2>3, ProgramAssumption DEF Exit, Calls
    <3>2. d \notin Router
      BY <3>1 DEF RoutersStay
    <3> QED
      BY <2>1, <2>2, <2>3, <3>2 DEF Exit, GuestRests
  <2>4. CASE ~Exit(d)
    BY <2>1, <2>2, <2>4 DEF Execute, Guest, SendNothing, Post, PostFail, CopyHeader, CopyPayload,
       Publish, SendReturns, RecvBegins, RecvReturns, Calls, GuestRests, routing
  <2> QED
    BY <2>3, <2>4
<1>2. \A r \in Host : At(RecvQueue(r))' = At(RecvQueue(r))
  <2>1. CASE CopyHeader(d) \/ CopyPayload(d) \/ Publish(d)
    <3>1. apc[d] \in {"header", "payload", "publish"} /\ GuestInv(d)
      BY <2>1 DEF CopyHeader, CopyPayload, Publish, IInv, ThreadsInv
    <3>2. d \in Host
      BY <3>1 DEF GuestInv, Sends
    <3>3. PICK u : hq' = [hq EXCEPT ![SendQueue(d)[1]][SendQueue(d)[2]] = u]
      BY <2>1 DEF CopyHeader, CopyPayload, Publish, Set
    <3>4. /\ SendQueue(d)[1] \in Device /\ SendQueue(d)[2] \in QueueIndex(SendQueue(d)[1])
          /\ ~IsRecvQueue(SendQueue(d)[1], SendQueue(d)[2])
      BY <3>2, GuestFeeds
    <3> QED
      BY <3>3, <3>4, RecvQueuesKept
  <2>2. CASE ~(CopyHeader(d) \/ CopyPayload(d) \/ Publish(d))
    <3>1. hq' = hq
      BY <2>2 DEF Execute, Guest, SendNothing, Post, PostFail, SendReturns, RecvBegins,
         RecvReturns, Exit, shared
    <3> QED
      BY <3>1 DEF At, RecvQueue
  <2> QED
    BY <2>1, <2>2
<1>3. BlockedRest
  BY <1>1 DEF BlockedRest, RouterRests
<1>4. ASSUME NEW e \in Host, apc'[e] = "late" PROVE LateOK(e)'
  <2>1. e \in Device /\ GuestRests(e)
    BY <1>1, <1>4 DEF Host
  <2> QED
    BY <1>2, <1>3, <1>4, <2>1, LateKept
<1> QED
  BY <1>4 DEF LateInv, Host, Device

LEMMA GetMessageLate ==
    ASSUME IInv, LateInv, NEW d \in Device, GetMessage(d)
    PROVE  LateInv'
<1> DEFINE i == RecvQueue(d)[2]
           q == hq[d][i]
           u == Released(q)
<1>1. GuestInv(d) /\ RestTypes
  BY TypeSplit DEF IInv, ThreadsInv
<1>2. apc[d] = "poll" /\ d \in Host
  BY <1>1 DEF GetMessage, GuestInv
<1>3. /\ RecvQueue(d)[1] = d /\ i \in QueueIndex(d)
      /\ At(RecvQueue(d)) = q /\ At(RecvQueue(d))' = hq'[d][i]
  BY <1>2, GuestDrains, RecvQueueNow
<1>4. /\ ~Empty(q)
      /\ hdr' = [hdr EXCEPT ![d] = HeadHeader(q)]
      /\ hptr' = [hptr EXCEPT ![d] = q.consumer]
      /\ apc' = [apc EXCEPT ![d] = "late"] /\ UNCHANGED <<ip, routing>>
  BY <1>3 DEF GetMessage
<1>5. hq' = [hq EXCEPT ![d][i] = u]
  BY <1>3 DEF GetMessage, Set
<1>6. EvenQueue(q)
  BY <1>3, QueueFacts
<1>7. /\ \A e \in Host : e # d => At(RecvQueue(e))' = At(RecvQueue(e))
      /\ hq'[d][i] = u
  <2> HIDE DEF u, i
  <2> QED
    BY <1>3, <1>5, RecvQueuesKept
<1>8. BlockedRest
  BY <1>4 DEF BlockedRest, RouterRests, routing
<1>9. ASSUME NEW e \in Host, apc'[e] = "late" PROVE LateOK(e)'
  <2>1. CASE e # d
    <3>1. e \in Device /\ GuestRests(e)
      BY <1>1, <1>4, <2>1 DEF Host, GuestRests, RestTypes
    <3> QED
      BY <1>7, <1>8, <1>9, <2>1, <3>1, LateKept
  <2>2. CASE e = d
    <3> HIDE DEF q
    <3>1. /\ q.consumer \in Even /\ Advance(q.consumer) \in Even
          /\ Advance(Advance(q.consumer)) = q.consumer
      BY <1>6, EvenFacts DEF EvenQueue
    <3>2. u.entry = q.entry /\ u.consumer = Advance(q.consumer)
      BY <1>6, <3>1, QueueUpdate DEF Released
    <3>3. hptr'[d] = q.consumer /\ hdr'[d] = HeadHeader(q)
      BY <1>1, <1>4 DEF RestTypes
    <3> QED
      BY <1>3, <1>7, <2>2, <3>1, <3>2, <3>3 DEF LateOK, HeadHeader
  <2> QED
    BY <2>1, <2>2
<1> QED
  BY <1>9 DEF LateInv, Host, Device

\* A routing thread that scans, serves, releases or signals.
LEMMA RouterLate ==
    ASSUME IInv, LateInv, NEW d \in Device,
           \/ Idle(d) \/ Wake(d) \/ Select(d) \/ WaitOthers(d) \/ RouteSignal(d)
           \/ Deliver(d) \/ Forward(d) \/ ForwardFail(d) \/ RouteRelease(d)
    PROVE  LateInv'
<1>1. /\ rpc[d] # "payload"
      /\ UNCHANGED <<apc, ip, hdr, hptr>>
  BY DEF Idle, Wake, Select, WaitOthers, RouteSignal, Deliver, Forward, ForwardFail,
     RouteRelease, guest
<1>2. \A e \in Device : e # d => RouterRests(e)
  <2>1. RouteTypes
    BY TypeSplit DEF IInv
  <2> QED
    BY <2>1 DEF Idle, Wake, Select, WaitOthers, RouteSignal, Deliver, Forward, ForwardFail,
       RouteRelease, RouterRests, RouteTypes, routing
<1>3. BlockedRest
  BY <1>1, <1>2 DEF BlockedRest, Router
<1>4. \A r \in Host : At(RecvQueue(r))' = At(RecvQueue(r))
  <2>1. CASE Deliver(d) \/ Forward(d) \/ ForwardFail(d) \/ RouteRelease(d)
    <3>1. rpc[d] \in Busy
      BY <2>1 DEF Deliver, Forward, ForwardFail, RouteRelease, Busy
    <3>2. sel[d].ind \in QueueIndex(d) /\ ~IsRecvQueue(d, sel[d].ind)
      BY <3>1, ServeFacts
    <3>3. PICK u : hq' = [hq EXCEPT ![d][sel[d].ind] = u]
      BY <2>1 DEF Deliver, Forward, ForwardFail, RouteRelease, Rewrite
    <3> QED
      BY <3>2, <3>3, RecvQueuesKept
  <2>2. CASE Idle(d) \/ Wake(d) \/ Select(d) \/ WaitOthers(d) \/ RouteSignal(d)
    <3>1. hq' = hq
      BY <2>2 DEF Idle, Wake, Select, WaitOthers, RouteSignal, shared
    <3> QED
      BY <3>1 DEF At, RecvQueue
  <2> QED
    BY <2>1, <2>2
<1>5. ASSUME NEW e \in Host, apc'[e] = "late" PROVE LateOK(e)'
  <2>1. GuestRests(e)
    BY <1>1 DEF GuestRests
  <2> QED
    BY <1>3, <1>4, <1>5, <2>1, LateKept
<1> QED
  BY <1>5 DEF LateInv, Host, Device

\* A routing thread that copies into a queue, or publishes what it has copied.
LEMMA RouteCopyLate ==
    ASSUME IInv, LateInv, NEW d \in Device, RouteHeader(d) \/ RoutePayload(d) \/ RoutePublish(d)
    PROVE  LateInv'
<1> DEFINE q == At(Target(d))
           n == Target(d)[1]
           i == Target(d)[2]
           h == HeadHeader(From(d))
           p == HeadPayload(From(d))
<1>1. /\ UNCHANGED <<apc, ip, hdr, hptr, index, sel, fptr>>
      /\ rpc[d] \in {"header", "payload", "publish"}
  BY DEF RouteHeader, RoutePayload, RoutePublish, guest
<1>2. d \in Router /\ CanHop(d, sel[d].next) /\ (rpc[d] = "publish" => Empty(q))
  BY <1>1 DEF IInv, ThreadsInv, RouterInv
<1>3. n \in Device /\ i \in QueueIndex(n)
  BY <1>2, RouterFeeds
<1>4. EvenQueue(q) /\ q = hq[n][i]
  BY <1>2, TargetFacts DEF At
<1>5. PICK u : /\ hq' = [hq EXCEPT ![n][i] = u]
               /\ \/ u = PutHeader(q, h) /\ RouteHeader(d)
                  \/ u = PutPayload(q, p) /\ ~NoPayloadEntry(q) /\ rpc[d] # "publish"
                  \/ u = Published(q) /\ rpc[d] = "publish"
  BY <1>2, TargetFacts DEF RouteHeader, RoutePayload, RoutePublish
<1>6. (~NoPayloadEntry(q) => Empty(q)) /\ (~RouteHeader(d) => Empty(q))
  <2>1. RoutePayload(d) => ~NoPayloadEntry(q)
    BY DEF RoutePayload
  <2>2. ~NoPayloadEntry(q) => Empty(q)
    BY <1>4, EvenFacts DEF NoPayloadEntry, Empty, EvenQueue
  <2> QED
    BY <1>2, <2>1, <2>2 DEF RoutePublish
<1>7. \A e \in Device : e # d => RouterRests(e)
  <2>1. RouteTypes
    BY TypeSplit DEF IInv
  <2> QED
    BY <1>1, <2>1 DEF RouteHeader, RoutePayload, RoutePublish, RouterRests, RouteTypes
<1>8. BlockedRest
  BY <1>6, <1>7 DEF BlockedRest, RouteHeader, Router
<1>9. /\ hq'[n][i] = u
      /\ \A e \in Host : e # n \/ ~IsRecvQueue(n, i) \/ RecvQueue(e)[2] # i =>
            At(RecvQueue(e))' = At(RecvQueue(e))
  <2> HIDE DEF n, i, q, h, p
  <2> QED
    BY <1>3, <1>5, RecvQueuesKept
<1>10. ASSUME NEW e \in Host, apc'[e] = "late" PROVE LateOK(e)'
  <2>1. GuestRests(e) /\ apc[e] = "late"
    BY <1>1, <1>10 DEF GuestRests
  <2>2. CASE At(RecvQueue(e))' = At(RecvQueue(e))
    BY <1>8, <1>10, <2>1, <2>2, LateKept
  <2>3. CASE At(RecvQueue(e))' # At(RecvQueue(e))
    <3>1. e = n /\ RecvQueue(e) = Target(d) /\ At(RecvQueue(e)) = q /\ At(RecvQueue(e))' = u
      <4>1. e = n /\ RecvQueue(e)[2] = i
        BY <1>9, <2>3
      <4>2. RecvQueue(e)[1] = e /\ At(RecvQueue(e)) = hq[e][RecvQueue(e)[2]]
            /\ At(RecvQueue(e))' = hq'[e][RecvQueue(e)[2]]
        BY GuestDrains, RecvQueueNow
      <4>3. RecvQueue(e) = Target(d)
        BY <4>1, <4>2 DEF RecvQueue, Target
      <4> QED
        BY <1>4, <1>9, <4>1, <4>2, <4>3
    <3>2. LateOK(e) /\ hptr'[e] = hptr[e] /\ hdr'[e] = hdr[e]
      BY <2>1 DEF LateInv, GuestRests
    <3>3. hptr[e] = Advance(q.consumer) /\ (Overwriting(e) = {} => q.entry[hptr[e]] = hdr[e])
      BY <3>1, <3>2 DEF LateOK
    <3>4. /\ q.consumer \in Even /\ q.producer \in Even /\ hptr[e] \in Even
          /\ hptr[e] # q.consumer
          /\ hptr[e] \in Index /\ PayloadOf(q.producer) # hptr[e]
          /\ q.producer \in Index /\ PayloadOf(q.producer) \in Index
          /\ Advance(q.producer) \in Even
      <4>1. q.consumer \in Even /\ q.producer \in Even
        BY <1>4 DEF EvenQueue
      <4>2. hptr[e] \in Even /\ hptr[e] # q.consumer
        BY <3>3, <4>1, EvenFacts
      <4> HIDE DEF q
      <4>3. PayloadOf(q.producer) \in Index /\ PayloadOf(q.producer) \notin Even
        BY <4>1, EvenFacts
      <4> QED
        BY <4>1, <4>2, <4>3, EvenFacts
    <3>5. (h \in Header /\ p \in PayloadSet) \/ rpc[d] = "publish"
      <4>1. rpc[d] # "publish" => rpc[d] \in Busy
        BY <1>1 DEF Busy
      <4> QED
        BY <4>1, ServeFacts DEF Message, Good, Addressed
    <3>6. /\ u.consumer = q.consumer
          /\ hptr[e] # q.producer => u.entry[hptr[e]] = q.entry[hptr[e]]
      <4>1. rpc[d] # "publish" => h \in Entry /\ p \in Entry
        BY <3>5 DEF Entry
      <4>2. CASE u = PutHeader(q, h) /\ RouteHeader(d)
        <5>1. rpc[d] # "publish"
          BY <4>2 DEF RouteHeader
        <5> HIDE DEF q, h
        <5> QED
          BY <1>4, <3>4, <4>1, <4>2, <5>1, QueueUpdate DEF PutHeader
      <4>3. CASE u = PutPayload(q, p) /\ rpc[d] # "publish"
        <5> HIDE DEF q, p
        <5> QED
          BY <1>4, <3>4, <4>1, <4>3, QueueUpdate DEF PutPayload
      <4>4. CASE u = Published(q)
        <5> HIDE DEF q
        <5> QED
          BY <1>4, <3>4, <4>4, QueueUpdate DEF Published
      <4> QED
        BY <1>5, <4>2, <4>3, <4>4
    <3>7. hptr'[e] = Advance(At(RecvQueue(e))'.consumer)
      BY <3>1, <3>2, <3>3, <3>6
    <3>8. CASE ~Empty(q)
      <4>1. RouteHeader(d)
        BY <1>6, <3>8
      <4>2. rpc'[d] = "payload"
        BY <4>1 DEF RouteHeader, IInv, TypeOK
      <4>3. Target(d)' = Target(d) /\ RecvQueue(e)' = RecvQueue(e)
        BY <1>1 DEF Target, LinkOf, NeighborNum, RecvQueue
      <4>4. u = PutHeader(q, h)
        BY <1>5, <1>6, <3>8, <4>1 DEF RouteHeader
      <4>5. ~Empty(u)
        <5>1. h \in Header
          BY <3>5, <4>1 DEF RouteHeader
        <5> HIDE DEF q, h
        <5> QED
          BY <1>4, <3>8, <4>4, <5>1, PutHeaderFacts
      <4>6. d \in Overwriting(e)'
        BY <1>2, <3>1, <4>2, <4>3, <4>5 DEF Overwriting, Router, Device
      <4> QED
        BY <3>7, <4>6 DEF LateOK
    <3>9. CASE Empty(q)
      <4>1. hptr[e] # q.producer
        BY <3>4, <3>9 DEF Empty
      <4>2. Overwriting(e) = {}
        BY <3>1, <3>9 DEF Overwriting
      <4>3. At(RecvQueue(e))'.entry[hptr'[e]] = hdr'[e]
        BY <3>1, <3>2, <3>3, <3>6, <4>1, <4>2
      <4> QED
        BY <3>7, <4>3 DEF LateOK
    <3> QED
      BY <3>8, <3>9
  <2> QED
    BY <2>2, <2>3
<1> QED
  BY <1>10 DEF LateInv, Host, Device

LEMMA NextLate ==
    ASSUME RoutersStay, IInv, LateInv, [Next]_vars
    PROVE  LateInv'
<1>1. CASE UNCHANGED vars
  <2>1. /\ \A e \in Device : GuestRests(e)
        /\ BlockedRest
        /\ \A e \in Host : At(RecvQueue(e))' = At(RecvQueue(e))
    BY <1>1 DEF vars, shared, guest, routing, GuestRests, BlockedRest, RouterRests, At, RecvQueue
  <2>2. \A e \in Host : apc'[e] = "late" => LateOK(e)'
    BY <2>1, LateKept DEF Host
  <2> QED
    BY <2>2 DEF LateInv, Host, Device
<1>2. ASSUME NEW d \in Device, Execute(d) \/ Guest(d) PROVE LateInv'
  BY <1>2, GuestLate, GetMessageLate
<1>3. ASSUME NEW d \in Device, Routing(d) PROVE LateInv'
  BY <1>3, RouterLate, RouteCopyLate DEF Routing
<1> QED
  BY <1>1, <1>2, <1>3 DEF Next

\* In a full queue the entry is the one behind the tail, and what a routing
\* thread has written there is the header of its packet.
LEMMA LateFollows == IInv /\ LateInv => LateReadSeesHeader
<1> SUFFICES ASSUME IInv, LateInv, NEW d \in Host, apc[d] = "late",
                    NEW f \in Overwriting(d)
             PROVE  At(RecvQueue(d)).entry[hptr[d]] = HeadHeader(From(f))
  BY DEF LateInv, LateOK, LateReadSeesHeader
<1> DEFINE q == At(RecvQueue(d))
<1>1. f \in Router /\ rpc[f] = "payload" /\ Target(f) = RecvQueue(d) /\ ~Empty(q)
  BY DEF Overwriting
<1>2. TailHeader(q) = HeadHeader(From(f))
  BY <1>1 DEF IInv, ThreadsInv, RouterInv, Router
<1>3. EvenQueue(q) /\ hptr[d] = Advance(q.consumer)
  <2>1. EvenQueue(q)
    BY QueueFacts, RecvQueueNow
  <2> QED
    BY <2>1 DEF LateInv, LateOK
<1>4. hptr[d] = q.producer
  <2> HIDE DEF q
  <2> QED
    BY <1>1, <1>3, EvenFacts DEF EvenQueue, Empty
<1> QED
  BY <1>2, <1>4 DEF TailHeader

\* m2m_get_local_msg advances the receiver to the arrival time of the message it
\* received, or, when a routing thread has already copied the header of the next
\* message but one (route_processor.c:467-470 and 581-584), to that one's,
\* although it reads the header after consumer += 2 (send_recv.c:471 and 516-519).
THEOREM LateReadsAreKnown == RoutersStay /\ Spec => []LateReadSeesHeader
<1> SUFFICES ASSUME RoutersStay PROVE Spec => []LateReadSeesHeader
  OBVIOUS
<1>1. Init => LateInv
  <2>1. Init => \A d \in Host : apc[d] = "run"
    BY DEF Init, Host
  <2> QED
    BY <2>1 DEF LateInv
<1>2. IInv /\ LateInv /\ [Next]_vars => LateInv'
  BY NextLate
<1> QED
  BY <1>1, <1>2, LateFollows, Invariant, PTL DEF Spec
================================================================================
