------------------------------ MODULE Startup ------------------------------
(***************************************************************************)
(* From NETWORK_INIT to the first call of a guest program, and             *)
(* NETWORK_EXIT: the emulators attach to the shared segment, start their   *)
(* routing threads, reset their queues and meet at the coordinator's       *)
(* barrier (special_write in src/hw/virtual-network-device.c calls         *)
(* m2m_mm_init, m2m_route_processor_init, m2m_send_recv_init and           *)
(* m2m_time_init in this order).                                           *)
(*                                                                         *)
(* The barrier lives in the local times: MAX_TIME is "not started yet",    *)
(* any other number is "started".  action_probe is local time 0.           *)
(***************************************************************************)
EXTENDS Naturals

CONSTANTS TotalDeviceNum,   \* devices are 1 .. TotalDeviceNum, 1 is the ZC
          DeviceType,       \* device -> "ZC", "ZR" or "ZED"
          Scenario          \* how the operator may start them

\* A scenario says whether a run that was killed left its segment, and in which
\* order the devices are started: "any"; "first", the others once the
\* coordinator has created the segment; "patient", the others once the
\* coordinator is at the barrier.
ASSUME StartupAssumption ==
    /\ TotalDeviceNum \in Nat \ {0}
    /\ DeviceType \in [1 .. TotalDeviceNum -> {"ZC", "ZR", "ZED"}]
    /\ \A d \in 1 .. TotalDeviceNum : DeviceType[d] = "ZC" <=> d = 1
    /\ Scenario \subseteq [leftover : BOOLEAN, order : {"any", "first", "patient"}]

Device == 1 .. TotalDeviceNum
Others == Device \ {1}

VARIABLES scenario,   \* how these devices are started
          segment,    \* is there a segment under x86_SHM_KEY?
          probe,      \* *action_probe
          started,    \* the devices whose local time is not MAX_TIME
          clean,      \* the devices whose queues this run has reset
          pc,         \* where NETWORK_INIT of a device is
          thread,     \* the devices with a routing thread
          mark,       \* the next local time the coordinator sets to MAX_TIME
          seen        \* the devices the coordinator has seen started

vars == <<scenario, segment, probe, started, clean, pc, thread, mark, seen>>

\* A new segment is all zeros, so every local time is 0; a left one is as the
\* last run left it.
Init == /\ scenario \in Scenario
        /\ segment = scenario.leftover
        /\ probe \in IF scenario.leftover THEN {0, 1} ELSE {0}
        /\ started \in IF scenario.leftover THEN SUBSET Device ELSE {Device}
        /\ clean = {}
        /\ pc = [d \in Device |-> "off"]
        /\ thread = {}
        /\ mark = 1
        /\ seen = {}

Goto(d, where) == pc' = [pc EXCEPT ![d] = where]

\* m2m_topology_init, m2m_mm_init and m2m_dbp_init: device 1 creates the segment
\* unless there is one.
AttachCoordinator ==
    /\ pc[1] = "off"
    /\ segment' = TRUE
    /\ Goto(1, "attached")
    /\ UNCHANGED <<scenario, probe, started, clean, thread, mark, seen>>

Launched(d) == \/ scenario.order = "any"
               \/ scenario.order = "first" /\ pc[1] # "off"
               \/ scenario.order = "patient" /\ pc[1] \in {"barrier", "running", "exited"}

Attach(d) ==
    /\ d # 1
    /\ pc[d] = "off"
    /\ Launched(d)
    /\ segment
    /\ Goto(d, "attached")
    /\ UNCHANGED <<scenario, segment, probe, started, clean, thread, mark, seen>>

\* shmget fails without a segment and the emulator ends.
AttachFails(d) ==
    /\ d # 1
    /\ pc[d] = "off"
    /\ Launched(d)
    /\ ~segment
    /\ Goto(d, "dead")
    /\ UNCHANGED <<scenario, segment, probe, started, clean, thread, mark, seen>>

\* m2m_route_processor_init and set_core_affinity.
StartThread(d) ==
    /\ pc[d] = "attached"
    /\ thread' = IF DeviceType[d] = "ZED" THEN thread ELSE thread \cup {d}
    /\ Goto(d, "threaded")
    /\ UNCHANGED <<scenario, segment, probe, started, clean, mark, seen>>

\* The routing thread of a router stores time_sync() into its device's local
\* time, at once and on every pass of its idle loop: 0 or a neighbour's time,
\* never MAX_TIME.
ThreadSync(d) ==
    /\ d \in thread
    /\ DeviceType[d] = "ZR"
    /\ started' = started \cup {d}
    /\ UNCHANGED <<scenario, segment, probe, clean, pc, thread, mark, seen>>

\* m2m_send_recv_init: the device's own queues and control flag.
ResetQueues(d) ==
    /\ pc[d] = "threaded"
    /\ clean' = clean \cup {d}
    /\ Goto(d, IF d = 1 THEN "mark" ELSE "report")
    /\ UNCHANGED <<scenario, segment, probe, started, thread, mark, seen>>

\* Broken variant: the loop runs to TotalDeviceNum + 1.
MarkOneMore ==
    /\ pc[1] = "mark"
    /\ started' = started \ {mark}
    /\ mark' = mark + 1
    /\ Goto(1, IF mark = TotalDeviceNum + 1 THEN "close" ELSE "mark")
    /\ UNCHANGED <<scenario, segment, probe, clean, thread, seen>>

\* m2m_time_init of the coordinator: every local time becomes MAX_TIME, one by
\* one, then its own becomes 0 and the barrier is closed.
Mark ==
    /\ pc[1] = "mark"
    /\ started' = started \ {mark}
    /\ mark' = mark + 1
    /\ Goto(1, IF mark = TotalDeviceNum THEN "close" ELSE "mark")
    /\ UNCHANGED <<scenario, segment, probe, clean, thread, seen>>

Close ==
    /\ pc[1] = "close"
    /\ started' = started \cup {1}
    /\ probe' = 0
    /\ Goto(1, "barrier")
    /\ UNCHANGED <<scenario, segment, clean, thread, mark, seen>>

\* The coordinator finds a device that has started.
See(d) ==
    /\ pc[1] = "barrier"
    /\ d \in Others \ seen
    /\ d \in started
    /\ seen' = seen \cup {d}
    /\ UNCHANGED <<scenario, segment, probe, started, clean, pc, thread, mark>>

\* Broken variant: the coordinator waits for one device only.
OpenEarly ==
    /\ pc[1] = "barrier"
    /\ seen # {}
    /\ probe' = 1
    /\ Goto(1, "running")
    /\ UNCHANGED <<scenario, segment, started, clean, thread, mark, seen>>

\* Broken variant: the coordinator counts itself and waits for one too many.
OpenNever ==
    /\ pc[1] = "barrier"
    /\ seen = Device
    /\ probe' = 1
    /\ Goto(1, "running")
    /\ UNCHANGED <<scenario, segment, started, clean, thread, mark, seen>>

Open ==
    /\ pc[1] = "barrier"
    /\ seen = Others
    /\ probe' = 1
    /\ Goto(1, "running")
    /\ UNCHANGED <<scenario, segment, started, clean, thread, mark, seen>>

\* m2m_time_init of the others.
Report(d) ==
    /\ pc[d] = "report"
    /\ started' = started \cup {d}
    /\ Goto(d, "barrier")
    /\ UNCHANGED <<scenario, segment, probe, clean, thread, mark, seen>>

Pass(d) ==
    /\ d # 1
    /\ pc[d] = "barrier"
    /\ probe = 1
    /\ Goto(d, "running")
    /\ UNCHANGED <<scenario, segment, probe, started, clean, thread, mark, seen>>

\* NETWORK_EXIT: the thread is cancelled, the local time parked below MAX_TIME,
\* and the coordinator removes the segment's key.
Exit(d) ==
    /\ pc[d] = "running"
    /\ thread' = thread \ {d}
    /\ started' = started \cup {d}
    /\ segment' = IF d = 1 THEN FALSE ELSE segment
    /\ Goto(d, "exited")
    /\ UNCHANGED <<scenario, probe, clean, mark, seen>>

Coordinator == AttachCoordinator \/ Mark \/ Close \/ Open \/ \E d \in Others : See(d)

Initialise(d) == Attach(d) \/ AttachFails(d) \/ StartThread(d) \/ ResetQueues(d)
                 \/ Report(d) \/ Pass(d)

Next == \/ Coordinator
        \/ \E d \in Device : Initialise(d) \/ ThreadSync(d) \/ Exit(d)

Spec == Init /\ [][Next]_vars

\* The operator starts every device; the host runs what is started.
FairSpec == /\ Spec
            /\ WF_vars(Coordinator)
            /\ \A d \in Device : WF_vars(Initialise(d)) /\ WF_vars(ThreadSync(d))
----------------------------------------------------------------------------
\* Every variable has its type.
TypeOK == /\ scenario \in Scenario
          /\ segment \in BOOLEAN
          /\ probe \in {0, 1}
          /\ started \subseteq Device
          /\ clean \subseteq Device
          /\ pc \in [Device -> {"off", "attached", "threaded", "mark", "close", "report",
                                "barrier", "running", "exited", "dead"}]
          /\ thread \subseteq Device
          /\ mark \in 1 .. TotalDeviceNum + 1
          /\ seen \subseteq Others

HostsReady == {d \in Device : DeviceType[d] # "ZR"} \subseteq clean

\* A guest program runs only when every device that sends or receives has
\* reset its queues (send_recv.c:85-117), or the reset would discard packets
\* that are already on their way; a device reports to the barrier of time.c
\* after its reset, in whatever order the devices are started, and also when
\* the segment of an earlier run was left with its barrier open.
BarrierHolds ==
    \A d \in Device : pc[d] = "running" => HostsReady

\* MAX_TIME means "that device not warm up yet" (time.c:32, send_recv.c:410):
\* a guest program runs only when every device has reset its queues, the
\* routers too.
BarrierHoldsForAll ==
    \A d \in Device : pc[d] = "running" => clean = Device

\* Every device gets through NETWORK_INIT (time.c:61-83), if the others are
\* started once the coordinator waits for them.
AllStart == scenario.order = "patient" =>
                <>(\A d \in Device : pc[d] \in {"running", "exited"})

\* The same when the coordinator is only started first, as README-M2M asks.
AllStartFirst == scenario.order = "first" =>
                     <>(\A d \in Device : pc[d] \in {"running", "exited"})
============================================================================
