------------------------------ MODULE Routing ------------------------------
(***************************************************************************)
(* route_discovery (src/hw/m2m_route_processor.c): Dijkstra's algorithm    *)
(* over NODE_MAP and the walk back along prev, as the threads of one       *)
(* device run it.  A coordinator has two threads that call it, its guest   *)
(* (m2m_post_remote_msg) and its routing thread; d, prev, route_path and   *)
(* route_hops are globals of the process and no lock protects them.        *)
(*                                                                         *)
(* A step is one round of one of the loops.                                *)
(***************************************************************************)
EXTENDS Integers, Sequences, FiniteSets

CONSTANTS TotalDeviceNum,   \* devices are 1 .. TotalDeviceNum
          Caller,           \* the threads that call route_discovery
          MaxCalls          \* bound: how many calls each of them makes

\* int route_path[40].
PathSize == 40

\* A way of TotalDeviceNum - 1 hops fits into route_path, which is the least
\* of the arrays: a longer one would overrun it.
ASSUME RoutingAssumption ==
    /\ TotalDeviceNum \in 2 .. PathSize + 1
    /\ MaxCalls \in Nat

Node == 1 .. TotalDeviceNum

\* GRAPHSIZE * GRAPHSIZE, more than any distance.
MAXSIZE == 100 * 100

VARIABLES NODE_MAP,     \* NODE_MAP[i][j] = 1 iff i and j are linked
          start,        \* the device, GlobalVND.DeviceID
          d,            \* d[i]: the length of the shortest path to i so far
          prev,         \* prev[i]: the node before i on it, or -1
          route_path,   \* what routePath has written; it writes at index -1 too
          route_hops,   \* where it writes next
          pc,           \* where each caller is
          calls,        \* how many calls it has made
          end,          \* the device it looks for
          visited,      \* its local array: the nodes visited
          stack,        \* the active calls of routePath, the innermost first
          hop           \* what route_discovery returned last

globals == <<d, prev, route_path, route_hops>>
locals == <<pc, calls, end, visited, stack, hop>>
vars == <<NODE_MAP, start, globals, locals>>

\* The reference: the nodes within n hops of i in a map, and the distance.
Ball(map, i) ==
    LET ball[n \in 0 .. TotalDeviceNum] ==
            IF n = 0 THEN {i}
            ELSE ball[n - 1] \cup {j \in Node : \E k \in ball[n - 1] : map[k][j] = 1}
    IN  ball

Distance(map, i, j) ==
    LET ball == Ball(map, i)
    IN  CHOOSE n \in 0 .. TotalDeviceNum :
            j \in ball[n] /\ \A m \in 0 .. n - 1 : j \notin ball[m]

\* Every network whose links are symmetric and that hangs together.
Topologies ==
    {map \in [Node -> [Node -> {0, 1}]] :
        /\ \A i \in Node : map[i][i] = 0
        /\ \A i, j \in Node : map[i][j] = map[j][i]
        /\ Ball(map, 1)[TotalDeviceNum] = Node}

Init == /\ NODE_MAP \in Topologies
        /\ start \in Node
        /\ d = [i \in Node |-> 0]
        /\ prev = [i \in Node |-> 0]
        /\ route_path = [n \in -1 .. PathSize - 1 |-> 0]
        /\ route_hops = 0
        /\ pc = [c \in Caller |-> "idle"]
        /\ calls = [c \in Caller |-> 0]
        /\ end = [c \in Caller |-> 0]
        /\ visited = [c \in Caller |-> {}]
        /\ stack = [c \in Caller |-> << >>]
        /\ hop = [c \in Caller |-> 0]

\* route_discovery is called; dijkstra initialises its arrays.
Call(c) ==
    /\ pc[c] = "idle"
    /\ calls[c] < MaxCalls
    /\ calls' = [calls EXCEPT ![c] = @ + 1]
    /\ \E r \in Node \ {start} : end' = [end EXCEPT ![c] = r]
    /\ d' = [i \in Node |-> IF i = start THEN 0 ELSE MAXSIZE]
    /\ prev' = [i \in Node |-> -1]
    /\ visited' = [visited EXCEPT ![c] = {}]
    /\ pc' = [pc EXCEPT ![c] = "visit"]
    /\ UNCHANGED <<NODE_MAP, start, route_path, route_hops, stack, hop>>

\* Broken variant: the node with the least number is taken, whatever its d.
MiniFirst(seen) == CHOOSE i \in Node \ seen : \A j \in Node \ seen : i <= j

\* The first node of those with the least d that have not been visited.
Mini(seen) ==
    CHOOSE i \in Node \ seen : \A j \in Node \ seen : d[i] < d[j] \/ (d[i] = d[j] /\ i <= j)

\* A shorter way to i leads over mini.
Relaxes(mini, i) == NODE_MAP[mini][i] # 0 /\ d[mini] + NODE_MAP[mini][i] < d[i]

\* One round of dijkstra.
Visit(c) ==
    LET mini == Mini(visited[c])
    IN  /\ pc[c] = "visit"
        /\ visited[c] # Node
        /\ visited' = [visited EXCEPT ![c] = @ \cup {mini}]
        /\ d' = [i \in Node |->
                    IF Relaxes(mini, i) THEN d[mini] + NODE_MAP[mini][i] ELSE d[i]]
        /\ prev' = [i \in Node |-> IF Relaxes(mini, i) THEN mini ELSE prev[i]]
        /\ UNCHANGED <<NODE_MAP, start, route_path, route_hops, pc, calls, end, stack, hop>>

\* Broken variant: route_hops starts at 0, so the device itself comes first.
ClearPathZero(c) ==
    /\ pc[c] = "visit"
    /\ visited[c] = Node
    /\ route_hops' = 0
    /\ stack' = [stack EXCEPT ![c] = <<end[c]>>]
    /\ pc' = [pc EXCEPT ![c] = "descend"]
    /\ UNCHANGED <<NODE_MAP, start, d, prev, route_path, calls, end, visited, hop>>

\* Broken variant: route_hops is not reset.
ClearPathForgotten(c) ==
    /\ pc[c] = "visit"
    /\ visited[c] = Node
    /\ stack' = [stack EXCEPT ![c] = <<end[c]>>]
    /\ pc' = [pc EXCEPT ![c] = "descend"]
    /\ UNCHANGED <<NODE_MAP, start, globals, calls, end, visited, hop>>

\* clearPath, and routePath(end) is called.
ClearPath(c) ==
    /\ pc[c] = "visit"
    /\ visited[c] = Node
    /\ route_hops' = -1
    /\ stack' = [stack EXCEPT ![c] = <<end[c]>>]
    /\ pc' = [pc EXCEPT ![c] = "descend"]
    /\ UNCHANGED <<NODE_MAP, start, d, prev, route_path, calls, end, visited, hop>>

\* routePath(prev[dest]), unless prev[dest] is -1.
Descend(c) ==
    LET p == prev[Head(stack[c])]
    IN  /\ pc[c] = "descend"
        /\ IF p = -1
           THEN pc' = [pc EXCEPT ![c] = "unwind"] /\ UNCHANGED stack
           ELSE stack' = [stack EXCEPT ![c] = <<p>> \o @] /\ UNCHANGED pc
        /\ UNCHANGED <<NODE_MAP, start, globals, calls, end, visited, hop>>

\* route_path[route_hops] = dest, and the call returns.
Unwind(c) ==
    /\ pc[c] = "unwind"
    /\ stack[c] # << >>
    /\ route_path' = [route_path EXCEPT ![route_hops] = Head(stack[c])]
    /\ route_hops' = route_hops + 1
    /\ stack' = [stack EXCEPT ![c] = Tail(@)]
    /\ UNCHANGED <<NODE_MAP, start, d, prev, pc, calls, end, visited, hop>>

\* TimingModel is 1.
Return(c) ==
    /\ pc[c] = "unwind"
    /\ stack[c] = << >>
    /\ hop' = [hop EXCEPT ![c] = route_path[0]]
    /\ pc' = [pc EXCEPT ![c] = "idle"]
    /\ UNCHANGED <<NODE_MAP, start, globals, calls, end, visited, stack>>

Next == \E c \in Caller :
            Call(c) \/ Visit(c) \/ ClearPath(c) \/ Descend(c) \/ Unwind(c) \/ Return(c)

Spec == Init /\ [][Next]_vars
----------------------------------------------------------------------------
\* Every variable has its type; routePath never calls itself more often than
\* there are devices, nor writes beyond the path: each write is below the last
\* route_hops.
TypeOK == /\ start \in Node
          /\ d \in [Node -> 0 .. MAXSIZE]
          /\ prev \in [Node -> -1 .. TotalDeviceNum]
          /\ route_path \in [-1 .. PathSize - 1 -> 0 .. TotalDeviceNum]
          /\ route_hops \in -1 .. TotalDeviceNum - 1
          /\ pc \in [Caller -> {"idle", "visit", "descend", "unwind"}]
          /\ calls \in [Caller -> 0 .. MaxCalls]
          /\ end \in [Caller -> 0 .. TotalDeviceNum]
          /\ visited \in [Caller -> SUBSET Node]
          /\ \A c \in Caller : stack[c] \in Seq(Node) /\ Len(stack[c]) <= TotalDeviceNum
          /\ hop \in [Caller -> 0 .. TotalDeviceNum]

\* While dijkstra runs, a visited node has its final distance, and no node is
\* further than d says (route_processor.c:793-806).
VisitedIsFinal ==
    \A c \in Caller : pc[c] = "visit" =>
        \A i \in Node : /\ d[i] >= Distance(NODE_MAP, start, i)
                        /\ i \in visited[c] => d[i] = Distance(NODE_MAP, start, i)

\* The device that route_discovery returns is a neighbour, one hop nearer to
\* the destination (route_processor.c:74), so that packets do not circle: the
\* callers look it up in their neighbour list and end the emulator when it is
\* not there (send_recv.c:228-242, route_processor.c:504-517).
HopIsNearer ==
    \A c \in Caller : pc[c] = "idle" /\ calls[c] > 0 =>
        /\ hop[c] \in Node
        /\ NODE_MAP[start][hop[c]] = 1
        /\ Distance(NODE_MAP, hop[c], end[c]) = Distance(NODE_MAP, start, end[c]) - 1
============================================================================
