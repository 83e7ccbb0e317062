------------------------------- MODULE Layout -------------------------------
(***************************************************************************)
(* Where everything lies in the shared segment.  Every emulator reads      *)
(* topology.conf for itself (node_infofetch in src/hw/m2m_topology.c),     *)
(* computes the size of the segment (src/hw/m2m_mm.c) and then the         *)
(* addresses of its own queues, of its place in the queues of its          *)
(* neighbours, of the control flags and of the local times (m2m_dbp_init   *)
(* in src/hw/m2m_dbp.c).  Nothing but these computations makes the devices *)
(* agree on the layout.                                                    *)
(*                                                                         *)
(* Addresses count from the start of the segment, which every process maps *)
(* where it likes; of the entries of a queue, which follow each other, the *)
(* first stands for all.  The computations are private, so the devices     *)
(* take turns.                                                             *)
(***************************************************************************)
EXTENDS Naturals, Sequences, FiniteSets

CONSTANTS MaxDevice,    \* bound: how many devices a network has
          FlagSize      \* sizeof(m2m_HQ_cf_t): 12 in the 32-bit build

\* m2m.h and m2m_mm.h
MAX_NODE_NUM == 100
NODE_MAX_LINKS == 8
HEADER_QUEUE_SIZE == 4 * 128
HEADER_QUEUE_METADATA_SIZE == 4 + 4 + 24
TOTAL_HEADER_QUEUE_SIZE == HEADER_QUEUE_SIZE + HEADER_QUEUE_METADATA_SIZE
HEADER_QUEUE_CONTRLFLAG == 4 + 8
DATA_BUFFER_SIZE == 4 * 4096
DATA_BUFFER_METADATA_SIZE == 4 * (4 + 8)
TOTAL_DATA_BUFFER_SIZE == DATA_BUFFER_SIZE + DATA_BUFFER_METADATA_SIZE
END_DEVICE_SIZE == TOTAL_DATA_BUFFER_SIZE + TOTAL_HEADER_QUEUE_SIZE + HEADER_QUEUE_CONTRLFLAG
COORDINATOR_SIZE ==
    TOTAL_HEADER_QUEUE_SIZE * NODE_MAX_LINKS + END_DEVICE_SIZE + TOTAL_HEADER_QUEUE_SIZE
ROUTER_SIZE == NODE_MAX_LINKS * TOTAL_HEADER_QUEUE_SIZE

\* "MAX_NODE_NUM alway equal to (totoal node number + 1)" (dbp.c:50).
ASSUME LayoutAssumption == MaxDevice \in 2 .. MAX_NODE_NUM - 1 /\ FlagSize \in Nat

SizeOf == [ZC |-> COORDINATOR_SIZE, ZR |-> ROUTER_SIZE, ZED |-> END_DEVICE_SIZE]
LocaltimeSize == MAX_NODE_NUM * 8

VARIABLES conf,                  \* topology.conf: the type and the links of each device
          turn,                  \* the device whose turn it is
          pc,                    \* what it does next
          index,                 \* the line it reads
          shm_location,          \* the space the lines read so far take
          NODE_SHM_LOCATION,     \* where the space of each device begins
          NODE_TYPE,
          NODE_MAP,              \* NODE_MAP[i]: the nodes with a 1 in row i
          TotalNetworkTypeDevice,
          Neighbors,             \* GlobalVND.Neighbors
          SHM_SIZE,
          addresses              \* what m2m_dbp_init has computed, by device

fetched == <<index, shm_location, NODE_SHM_LOCATION, NODE_TYPE, NODE_MAP,
             TotalNetworkTypeDevice, Neighbors>>
vars == <<conf, turn, pc, fetched, SHM_SIZE, addresses>>

Device == 1 .. Len(conf)

Ascending(s) == \A i, j \in 1 .. Len(s) : i < j => s[i] < s[j]

\* A set of devices in ascending order.
Sorted(S) == CHOOSE s \in [1 .. Cardinality(S) -> S] : Ascending(s)

\* The files that describe a network of n devices: device 1 is the
\* coordinator, both ends of a link list it, in ascending order, every device
\* has a link and no more than the arrays of addresses hold, an end device has
\* one and not to another end device.
Networks(n) ==
    LET Adjacent(links, d) == {e \in 1 .. n : {d, e} \in links}
        Possible(type, links) ==
            \A d \in 1 .. n :
                /\ type[d] = "ZC" <=> d = 1
                /\ Cardinality(Adjacent(links, d)) \in 1 .. NODE_MAX_LINKS
                /\ type[d] = "ZED" => \E e \in 1 .. n : /\ Adjacent(links, d) = {e}
                                                        /\ type[e] # "ZED"
    IN  {[d \in 1 .. n |-> [type |-> w[1][d], links |-> Sorted(Adjacent(w[2], d))]] :
            w \in {v \in [1 .. n -> DOMAIN SizeOf]
                         \X SUBSET {l \in SUBSET (1 .. n) : Cardinality(l) = 2} :
                      Possible(v[1], v[2])}}

NoAddresses == [ready |-> FALSE]

\* Broken variant: the counters are not reset.
FreshKeepsTotals == /\ index' = 1
                    /\ shm_location' = 0
                    /\ NODE_SHM_LOCATION' = [d \in Device |-> 0]
                    /\ NODE_TYPE' = [d \in Device |-> ""]
                    /\ NODE_MAP' = [d \in Device |-> {}]
                    /\ UNCHANGED TotalNetworkTypeDevice
                    /\ Neighbors' = << >>

\* m2m_topology_init resets its counters; a process starts with the rest zero.
Fresh == /\ index' = 1
         /\ shm_location' = 0
         /\ NODE_SHM_LOCATION' = [d \in Device |-> 0]
         /\ NODE_TYPE' = [d \in Device |-> ""]
         /\ NODE_MAP' = [d \in Device |-> {}]
         /\ TotalNetworkTypeDevice' = [t \in DOMAIN SizeOf |-> 0]
         /\ Neighbors' = << >>

Init == /\ \E n \in 2 .. MaxDevice : conf \in Networks(n)
        /\ turn = 1
        /\ pc = "fetch"
        /\ index = 1
        /\ shm_location = 0
        /\ NODE_SHM_LOCATION = [d \in Device |-> 0]
        /\ NODE_TYPE = [d \in Device |-> ""]
        /\ NODE_MAP = [d \in Device |-> {}]
        /\ TotalNetworkTypeDevice = [t \in DOMAIN SizeOf |-> 0]
        /\ Neighbors = << >>
        /\ SHM_SIZE = 0
        /\ addresses = [d \in Device |-> NoAddresses]

Linked(i) == {conf[i].links[k] : k \in 1 .. Len(conf[i].links)}

\* NODE_MAP[index][sum] = 1; NODE_MAP[sum][index] = 1;
MarkBothWays(i) ==
    [j \in Device |-> NODE_MAP[j] \cup (IF j = i THEN Linked(i) ELSE {})
                                  \cup (IF j \in Linked(i) THEN {i} ELSE {})]

\* One line of node_infofetch.  The device's own line gives its neighbour list
\* and nothing to the map.
FetchLine ==
    LET type == conf[index].type
    IN  /\ pc = "fetch"
        /\ index <= Len(conf)
        /\ index' = index + 1
        /\ NODE_SHM_LOCATION' = [NODE_SHM_LOCATION EXCEPT ![index] = shm_location]
        /\ shm_location' = shm_location + SizeOf[type]
        /\ NODE_TYPE' = [NODE_TYPE EXCEPT ![index] = type]
        /\ TotalNetworkTypeDevice' = [TotalNetworkTypeDevice EXCEPT ![type] = @ + 1]
        /\ IF index = turn
           THEN Neighbors' = conf[index].links /\ UNCHANGED NODE_MAP
           ELSE NODE_MAP' = MarkBothWays(index) /\ UNCHANGED Neighbors
        /\ UNCHANGED <<conf, turn, pc, SHM_SIZE, addresses>>

\* Broken variant: the local times are forgotten.
SegmentSizeNoTimes(total) ==
    total.ZC * SizeOf.ZC + total.ZR * SizeOf.ZR + total.ZED * SizeOf.ZED

SegmentSize(total) ==
    total.ZC * SizeOf.ZC + total.ZR * SizeOf.ZR + total.ZED * SizeOf.ZED + LocaltimeSize

\* m2m_mm_init (Startup models how the segment itself is made and found).
MmInit ==
    /\ pc = "fetch"
    /\ index > Len(conf)
    /\ SHM_SIZE' = SegmentSize(TotalNetworkTypeDevice)
    /\ pc' = "dbp"
    /\ UNCHANGED <<conf, turn, fetched, addresses>>

Location(d) == NODE_SHM_LOCATION[d] + LocaltimeSize

\* m2m_hq_conflag_start; a router has none.
ConflagStart(d) ==
    IF NODE_TYPE[d] = "ZED" THEN Location(d) + TOTAL_HEADER_QUEUE_SIZE
    ELSE Location(d) + (NODE_MAX_LINKS + 2) * TOTAL_HEADER_QUEUE_SIZE + TOTAL_DATA_BUFFER_SIZE

\* m2m_hq_buffer_start and m2m_hq_meta_start: link queues lie together, their
\* metadata behind them; a coordinator has two more queues behind its buffers.
LinkQueues(base, n) ==
    [i \in 1 .. n |->
        [buffer |-> base + (i - 1) * HEADER_QUEUE_SIZE,
         meta   |-> base + n * HEADER_QUEUE_SIZE + (i - 1) * HEADER_QUEUE_METADATA_SIZE]]

LocalQueues(d) ==
    LET base == Location(d)
        behind == base + NODE_MAX_LINKS * TOTAL_HEADER_QUEUE_SIZE + TOTAL_DATA_BUFFER_SIZE
    IN  CASE NODE_TYPE[d] = "ZED" -> LinkQueues(base, 1)
          [] NODE_TYPE[d] = "ZR"  -> LinkQueues(base, NODE_MAX_LINKS)
          [] NODE_TYPE[d] = "ZC"  -> LinkQueues(base, NODE_MAX_LINKS) \o LinkQueues(behind, 2)

\* The data buffers of the large scheme; a router has none.
DataBuffer(d) ==
    IF NODE_TYPE[d] = "ZED"
    THEN Location(d) + TOTAL_HEADER_QUEUE_SIZE + HEADER_QUEUE_CONTRLFLAG
    ELSE Location(d) + TOTAL_HEADER_QUEUE_SIZE * NODE_MAX_LINKS

\* Broken variant: the device's own number is counted too.
OffsetAtSelf(n, d) == Cardinality({e \in NODE_MAP[n] : e <= d})

\* How many neighbours of n come before d.
OffsetAt(n, d) == Cardinality({e \in NODE_MAP[n] : e < d})

\* m2m_remote_hq_buffer_start and m2m_remote_hq_meta_start for neighbour n.
RemoteQueue(n, d) ==
    IF NODE_TYPE[n] = "ZED"
    THEN [buffer |-> Location(n), meta |-> Location(n) + HEADER_QUEUE_SIZE]
    ELSE [buffer |-> Location(n) + HEADER_QUEUE_SIZE * OffsetAt(n, d),
          meta   |-> Location(n) + HEADER_QUEUE_SIZE * NODE_MAX_LINKS
                     + HEADER_QUEUE_METADATA_SIZE * OffsetAt(n, d)]

\* m2m_dbp_init; then the next device has its turn.
DbpInit ==
    /\ pc = "dbp"
    /\ addresses' = [addresses EXCEPT ![turn] =
           [ready     |-> TRUE,
            local     |-> LocalQueues(turn),
            remote    |-> [i \in 1 .. Len(Neighbors) |-> RemoteQueue(Neighbors[i], turn)],
            conflag   |-> [d \in {e \in Device : NODE_TYPE[e] # "ZR"} |-> ConflagStart(d)],
            localtime |-> [d \in Device |-> d * 8],
            data      |-> IF NODE_TYPE[turn] = "ZR" THEN {} ELSE {DataBuffer(turn)},
            size      |-> SHM_SIZE]]
    /\ IF turn = Len(conf)
       THEN pc' = "done" /\ UNCHANGED <<turn, fetched>>
       ELSE pc' = "fetch" /\ turn' = turn + 1 /\ Fresh
    /\ UNCHANGED <<conf, SHM_SIZE>>

Next == FetchLine \/ MmInit \/ DbpInit

Spec == Init /\ [][Next]_vars
-----------------------------------------------------------------------------
Ready == {d \in Device : addresses[d].ready}

\* Every variable has its type; a queue index stays within its array.
TypeOK ==
    /\ conf \in Seq([type : DOMAIN SizeOf, links : Seq(Nat)])
    /\ turn \in Device
    /\ pc \in {"fetch", "dbp", "done"}
    /\ index \in 1 .. Len(conf) + 1
    /\ shm_location \in Nat
    /\ NODE_SHM_LOCATION \in [Device -> Nat]
    /\ NODE_TYPE \in [Device -> {""} \cup DOMAIN SizeOf]
    /\ NODE_MAP \in [Device -> SUBSET Device]
    /\ TotalNetworkTypeDevice \in [DOMAIN SizeOf -> 0 .. Len(conf)]
    /\ Neighbors \in Seq(Device) /\ Len(Neighbors) <= NODE_MAX_LINKS
    /\ SHM_SIZE \in Nat
    /\ DOMAIN addresses = Device

\* Two ends of a link agree: what a device writes as its neighbour's queue is
\* the very queue that the neighbour reads for it, although one of them counts
\* smaller numbers in its map and the other goes by its neighbour list
\* (dbp.c:172-196 and 103-108, topology.c:168-172 and 249-268).  A routing
\* thread relies on it when it takes the device at an index for the producer.
EndsAgree ==
    \A d, n \in Ready : \A i \in DOMAIN addresses[d].remote :
        conf[d].links[i] = n =>
            \E j \in 1 .. Len(conf[n].links) :
                /\ conf[n].links[j] = d
                /\ addresses[d].remote[i] = addresses[n].local[j]

\* The bytes [from, to) that device d uses for each purpose.
Regions(d) ==
    LET a == addresses[d]
    IN  {[from |-> a.local[i].buffer, to |-> a.local[i].buffer + HEADER_QUEUE_SIZE] :
            i \in DOMAIN a.local}
        \cup {[from |-> a.local[i].meta, to |-> a.local[i].meta + HEADER_QUEUE_METADATA_SIZE] :
            i \in DOMAIN a.local}
        \cup {[from |-> b, to |-> b + TOTAL_DATA_BUFFER_SIZE] : b \in a.data}
        \cup {[from |-> a.localtime[e], to |-> a.localtime[e] + 8] : e \in Device}
        \cup {[from |-> a.conflag[e], to |-> a.conflag[e] + FlagSize] : e \in DOMAIN a.conflag}
        \cup {[from |-> 0, to |-> 8]}     \* action_probe

\* No two purposes share a byte, within a device or between devices, and none
\* lies behind the end of the segment (mm.c:28-31): two devices may name the
\* same byte only for the same thing (dbp.c:50-163).
RegionsDisjoint ==
    LET regions == UNION {Regions(d) : d \in Ready}
    IN  /\ \A r, s \in regions : r = s \/ r.to <= s.from \/ s.to <= r.from
        /\ \A d \in Ready : \A r \in regions : r.to <= addresses[d].size
=============================================================================
