--------------------------- MODULE Startup_proofs ---------------------------
(***************************************************************************)
(* Proofs about the start of the emulators, for every number and kind of   *)
(* devices and for every scenario.                                         *)
(*                                                                         *)
(* The argument: once the coordinator has marked a device as not started,  *)
(* only the device itself, after its reset, or its routing thread undoes   *)
(* the mark, and only routers have a thread that does.  So what the        *)
(* coordinator sees started has reset its queues, routers apart.  The rest *)
(* is that nobody else opens the barrier: a new segment has it closed, and *)
(* a left one is closed by the coordinator before a patient operator       *)
(* starts the others.                                                      *)
(***************************************************************************)
EXTENDS Startup, TLAPS

Host == {d \in Device : DeviceType[d] # "ZR"}

\* The coordinator has closed the barrier of this run.
Closed == pc[1] \in {"barrier", "running", "exited"}

\* The coordinator has marked the local time of d.
Marked(d) == Closed \/ pc[1] = "close" \/ (pc[1] = "mark" /\ d < mark)

\* The operator starts on a new segment, or with patience on a left one.
StartsSafely == scenario.leftover => scenario.order = "patient"

\* Where the coordinator and the others can be in NETWORK_INIT.
WhereInv ==
    /\ pc[1] \notin {"report", "dead"}
    /\ \A d \in Others : pc[d] \notin {"mark", "close"}
    /\ pc[1] \in {"off", "attached", "threaded"} => mark = 1
    /\ pc[1] = "mark" => mark <= TotalDeviceNum

\* A device is past its reset when it is at the barrier, or marks local times.
CleanInv ==
    \A d \in Device :
        pc[d] \in {"mark", "close", "report", "barrier", "running", "exited"} => d \in clean

\* What is seen started has reset its queues, routers apart.
MarkInv ==
    /\ \A d \in Host : d \in started /\ Marked(d) => d \in clean
    /\ \A d \in Host : d \in seen => d \in clean
    /\ seen # {} => Closed

\* An open barrier was opened by this run, or is about to be closed.
ProbeInv ==
    /\ pc[1] \in {"running", "exited"} => HostsReady
    /\ ~scenario.leftover /\ ~Closed => probe = 0
    /\ StartsSafely /\ ~Closed /\ probe = 1 => \A d \in Others : pc[d] = "off"
    /\ StartsSafely /\ Closed /\ probe = 1 => HostsReady

\* The inductive invariant.
IInv == /\ TypeOK
        /\ WhereInv
        /\ CleanInv
        /\ MarkInv
        /\ ProbeInv
        /\ StartsSafely => BarrierHolds
-----------------------------------------------------------------------------
\* The coordinator is a device, and a host (topology.c).
LEMMA CoordinatorIsHost == 1 \in Device /\ 1 \in Host /\ 1 \notin Others
  BY StartupAssumption DEF Device, Host, Others

\* The inductive invariant holds when nothing is started.
LEMMA InitIInv == Init => IInv
<1> SUFFICES ASSUME Init PROVE IInv
  OBVIOUS
<1> USE StartupAssumption, CoordinatorIsHost
<1>1. scenario.leftover \in BOOLEAN
  BY DEF Init
<1>2. TypeOK
  <2>1. segment \in BOOLEAN
    BY <1>1 DEF Init
  <2>2. mark \in 1 .. TotalDeviceNum + 1
    BY DEF Init
  <2>3. probe \in {0, 1} /\ started \subseteq Device
    BY <1>1 DEF Init
  <2> QED
    BY <2>1, <2>2, <2>3 DEF Init, TypeOK
<1>3. \A d \in Device : pc[d] = "off"
  BY DEF Init
<1>4. WhereInv /\ CleanInv /\ MarkInv
  BY <1>3 DEF Init, WhereInv, CleanInv, MarkInv, Marked, Closed, Host, Others
<1>5. ProbeInv /\ BarrierHolds
  BY <1>3 DEF Init, ProbeInv, Closed, Others, BarrierHolds
<1> QED
  BY <1>2, <1>4, <1>5 DEF IInv

\* Every step of the coordinator, of the other devices and of the routing
\* threads preserves it.
LEMMA NextIInv == IInv /\ [Next]_vars => IInv'
<1> SUFFICES ASSUME IInv, [Next]_vars PROVE IInv'
  OBVIOUS
<1> USE StartupAssumption, CoordinatorIsHost
<1>t. TypeOK /\ WhereInv /\ CleanInv /\ MarkInv /\ ProbeInv /\ (StartsSafely => BarrierHolds)
  BY DEF IInv
<1>p. /\ pc \in [Device -> {"off", "attached", "threaded", "mark", "close", "report",
                           "barrier", "running", "exited", "dead"}]
      /\ mark \in 1 .. TotalDeviceNum + 1
  BY <1>t DEF TypeOK
<1>1. CASE AttachCoordinator
  <2>1. TypeOK'
    BY <1>1, <1>t DEF AttachCoordinator, Goto, TypeOK
  <2>2. WhereInv' /\ CleanInv'
    BY <1>1, <1>t, <1>p DEF AttachCoordinator, Goto, WhereInv, CleanInv, Others
  <2>3. MarkInv' /\ ProbeInv' /\ (StartsSafely' => BarrierHolds')
    BY <1>1, <1>t, <1>p DEF AttachCoordinator, Goto, MarkInv, ProbeInv, BarrierHolds, Marked, Closed,
       StartsSafely, HostsReady, Others, Host
  <2> QED
    BY <2>1, <2>2, <2>3 DEF IInv
<1>2. CASE Mark
  <2>1. TypeOK'
    BY <1>2, <1>t DEF Mark, Goto, TypeOK, WhereInv
  <2>2. WhereInv' /\ CleanInv'
    BY <1>2, <1>t, <1>p DEF Mark, Goto, WhereInv, CleanInv, Others
  <2>3. MarkInv'
    <3>1. \A d \in Host : d \in started' /\ Marked(d)' => d \in started /\ Marked(d)
      BY <1>2, <1>t, <1>p DEF Mark, Goto, Marked, Closed, Host, Device
    <3> QED
      BY <1>2, <1>t, <1>p, <3>1 DEF Mark, Goto, MarkInv, Closed
  <2>4. ProbeInv' /\ (StartsSafely' => BarrierHolds')
    BY <1>2, <1>t, <1>p DEF Mark, Goto, ProbeInv, BarrierHolds, Closed, StartsSafely, HostsReady, Others
  <2> QED
    BY <2>1, <2>2, <2>3, <2>4 DEF IInv
<1>3. CASE Close
  <2>1. TypeOK'
    BY <1>3, <1>t DEF Close, Goto, TypeOK
  <2>2. WhereInv' /\ CleanInv'
    BY <1>3, <1>t, <1>p DEF Close, Goto, WhereInv, CleanInv, Others
  <2>3. MarkInv'
    BY <1>3, <1>t, <1>p DEF Close, Goto, MarkInv, CleanInv, Marked, Closed, Host
  <2>4. ProbeInv' /\ (StartsSafely' => BarrierHolds')
    BY <1>3, <1>t, <1>p DEF Close, Goto, ProbeInv, BarrierHolds, Closed, StartsSafely, HostsReady, Others
  <2> QED
    BY <2>1, <2>2, <2>3, <2>4 DEF IInv
<1>4. CASE Open
  <2>1. TypeOK'
    BY <1>4, <1>t DEF Open, Goto, TypeOK
  <2>2. WhereInv' /\ CleanInv'
    BY <1>4, <1>t, <1>p DEF Open, Goto, WhereInv, CleanInv, Others
  <2>3. HostsReady'
    BY <1>4, <1>t, <1>p DEF Open, HostsReady, Host, Others, MarkInv, CleanInv
  <2>4. MarkInv'
    BY <1>4, <1>t, <1>p DEF Open, Goto, MarkInv, Marked, Closed, Host
  <2>5. ProbeInv' /\ (StartsSafely' => BarrierHolds')
    BY <1>4, <1>t, <1>p, <2>3 DEF Open, Goto, ProbeInv, BarrierHolds, Closed
  <2> QED
    BY <2>1, <2>2, <2>4, <2>5 DEF IInv
<1>5. ASSUME NEW d \in Others, See(d)
      PROVE  IInv'
  <2>1. /\ UNCHANGED <<scenario, segment, probe, started, clean, pc, thread, mark>>
        /\ seen' = seen \cup {d}
        /\ d \in started /\ pc[1] = "barrier"
    BY <1>5 DEF See
  <2>2. TypeOK'
    BY <1>t, <2>1 DEF TypeOK
  <2>3. WhereInv' /\ CleanInv' /\ ProbeInv' /\ (StartsSafely' => BarrierHolds')
    BY <1>t, <2>1 DEF WhereInv, CleanInv, ProbeInv, BarrierHolds, Closed, StartsSafely, HostsReady
  <2>4. MarkInv'
    BY <1>t, <2>1 DEF MarkInv, Marked, Closed, Host
  <2> QED
    BY <2>2, <2>3, <2>4 DEF IInv
<1>6. ASSUME NEW d \in Device, Attach(d) \/ AttachFails(d)
      PROVE  IInv'
  <2>1. /\ UNCHANGED <<scenario, segment, probe, started, clean, thread, mark, seen>>
        /\ d # 1 /\ pc[d] = "off" /\ Launched(d)
        /\ \E w \in {"attached", "dead"} : pc' = [pc EXCEPT ![d] = w]
    BY <1>6 DEF Attach, AttachFails, Goto
  <2>2. TypeOK'
    BY <1>t, <2>1 DEF TypeOK
  <2>3. pc'[1] = pc[1] /\ \A e \in Device : pc'[e] # pc[e] => e = d /\ pc'[e] \in {"attached", "dead"}
    BY <1>p, <2>1
  <2>4. WhereInv' /\ CleanInv' /\ MarkInv'
    BY <1>t, <2>1, <2>3 DEF WhereInv, CleanInv, MarkInv, Marked, Closed, Others, Host
  <2>5. StartsSafely /\ ~Closed => probe = 0
    BY <1>t, <2>1 DEF Launched, StartsSafely, ProbeInv, TypeOK, Closed
  <2>6. ProbeInv' /\ (StartsSafely' => BarrierHolds')
    BY <1>t, <2>1, <2>3, <2>5 DEF ProbeInv, BarrierHolds, Closed, StartsSafely, HostsReady
  <2> QED
    BY <2>2, <2>4, <2>6 DEF IInv
<1>7. ASSUME NEW d \in Device, StartThread(d)
      PROVE  IInv'
  <2>1. /\ UNCHANGED <<scenario, segment, probe, started, clean, mark, seen>>
        /\ pc[d] = "attached" /\ pc' = [pc EXCEPT ![d] = "threaded"]
        /\ thread' \subseteq thread \cup {d}
    BY <1>7 DEF StartThread, Goto
  <2>2. TypeOK'
    BY <1>t, <2>1 DEF TypeOK
  <2>3. \A e \in Device : pc'[e] = pc[e] \/ (e = d /\ pc[e] = "attached" /\ pc'[e] = "threaded")
    BY <1>p, <2>1
  <2>4. WhereInv' /\ CleanInv' /\ MarkInv'
    BY <1>t, <2>1, <2>3 DEF WhereInv, CleanInv, MarkInv, Marked, Closed, Others, Host
  <2>5. ProbeInv' /\ (StartsSafely' => BarrierHolds')
    BY <1>t, <2>1, <2>3 DEF ProbeInv, BarrierHolds, Closed, StartsSafely, HostsReady, Others
  <2> QED
    BY <2>2, <2>4, <2>5 DEF IInv
<1>8. ASSUME NEW d \in Device, ResetQueues(d)
      PROVE  IInv'
  <2>1. /\ UNCHANGED <<scenario, segment, probe, started, thread, mark, seen>>
        /\ clean' = clean \cup {d}
        /\ pc[d] = "threaded"
        /\ pc' = [pc EXCEPT ![d] = IF d = 1 THEN "mark" ELSE "report"]
    BY <1>8 DEF ResetQueues, Goto
  <2>2. TypeOK'
    BY <1>t, <2>1 DEF TypeOK
  <2>3. \A e \in Device : pc'[e] = IF e = d THEN (IF d = 1 THEN "mark" ELSE "report") ELSE pc[e]
    BY <1>p, <2>1
  <2>4. WhereInv' /\ CleanInv'
    BY <1>t, <1>p, <2>1, <2>3 DEF WhereInv, CleanInv, Others
  <2>5. \A e \in Host : Marked(e)' => Marked(e)
    BY <1>t, <1>p, <2>1, <2>3 DEF Marked, Closed, WhereInv, Host, Device
  <2>6. MarkInv'
    BY <1>t, <2>1, <2>3, <2>5 DEF MarkInv, Closed
  <2>7. ProbeInv' /\ (StartsSafely' => BarrierHolds')
    BY <1>t, <2>1, <2>3 DEF ProbeInv, BarrierHolds, Closed, StartsSafely, HostsReady, Others
  <2> QED
    BY <2>2, <2>4, <2>6, <2>7 DEF IInv
<1>9. ASSUME NEW d \in Device, Report(d)
      PROVE  IInv'
  <2>1. /\ UNCHANGED <<scenario, segment, probe, clean, thread, mark, seen>>
        /\ started' = started \cup {d}
        /\ pc[d] = "report"
        /\ pc' = [pc EXCEPT ![d] = "barrier"]
    BY <1>9 DEF Report, Goto
  <2>2. TypeOK'
    BY <1>t, <2>1 DEF TypeOK
  <2>3. /\ \A e \in Device : pc'[e] = IF e = d THEN "barrier" ELSE pc[e]
        /\ d # 1 /\ pc'[1] = pc[1]
    BY <1>t, <1>p, <2>1 DEF WhereInv
  <2>4. WhereInv' /\ CleanInv'
    BY <1>t, <2>1, <2>3 DEF WhereInv, CleanInv, Others
  <2>5. MarkInv'
    BY <1>t, <2>1, <2>3 DEF MarkInv, CleanInv, Marked, Closed, Host
  <2>6. ProbeInv' /\ (StartsSafely' => BarrierHolds')
    BY <1>t, <2>1, <2>3 DEF ProbeInv, BarrierHolds, Closed, StartsSafely, HostsReady, Others
  <2> QED
    BY <2>2, <2>4, <2>5, <2>6 DEF IInv
<1>10. ASSUME NEW d \in Device, Pass(d)
       PROVE  IInv'
  <2>1. /\ UNCHANGED <<scenario, segment, probe, started, clean, thread, mark, seen>>
        /\ d # 1 /\ pc[d] = "barrier" /\ probe = 1
        /\ pc' = [pc EXCEPT ![d] = "running"]
    BY <1>10 DEF Pass, Goto
  <2>2. TypeOK'
    BY <1>t, <2>1 DEF TypeOK
  <2>3. (\A e \in Device : pc'[e] = IF e = d THEN "running" ELSE pc[e]) /\ pc'[1] = pc[1]
    BY <1>p, <2>1
  <2>4. WhereInv' /\ CleanInv' /\ MarkInv'
    BY <1>t, <2>1, <2>3 DEF WhereInv, CleanInv, MarkInv, Marked, Closed, Others, Host
  <2>5. StartsSafely => Closed /\ HostsReady
    BY <1>t, <2>1 DEF ProbeInv, Others
  <2>6. ProbeInv' /\ (StartsSafely' => BarrierHolds')
    BY <1>t, <2>1, <2>3, <2>5 DEF ProbeInv, BarrierHolds, Closed, StartsSafely, HostsReady, Others
  <2> QED
    BY <2>2, <2>4, <2>6 DEF IInv
<1>11. ASSUME NEW d \in Device, ThreadSync(d)
       PROVE  IInv'
  <2>1. /\ UNCHANGED <<scenario, segment, probe, clean, pc, thread, mark, seen>>
        /\ started' = started \cup {d} /\ d \notin Host
    BY <1>11 DEF ThreadSync, Host
  <2>2. TypeOK'
    BY <1>t, <2>1 DEF TypeOK
  <2>3. WhereInv' /\ CleanInv' /\ MarkInv'
    BY <1>t, <2>1 DEF WhereInv, CleanInv, MarkInv, Marked, Closed, Host
  <2>4. ProbeInv' /\ (StartsSafely' => BarrierHolds')
    BY <1>t, <2>1 DEF ProbeInv, BarrierHolds, Closed, StartsSafely, HostsReady
  <2> QED
    BY <2>2, <2>3, <2>4 DEF IInv
<1>12. ASSUME NEW d \in Device, Exit(d)
       PROVE  IInv'
  <2>1. /\ UNCHANGED <<scenario, probe, clean, mark, seen>>
        /\ started' = started \cup {d}
        /\ thread' = thread \ {d}
        /\ pc[d] = "running" /\ pc' = [pc EXCEPT ![d] = "exited"]
    BY <1>12 DEF Exit, Goto
  <2>2. TypeOK'
    <3>1. segment' \in BOOLEAN
      BY <1>12, <1>t DEF Exit, TypeOK
    <3> QED
      BY <1>t, <2>1, <3>1 DEF TypeOK
  <2>3. \A e \in Device : pc'[e] = IF e = d THEN "exited" ELSE pc[e]
    BY <1>p, <2>1
  <2>4. WhereInv' /\ CleanInv'
    BY <1>t, <2>1, <2>3 DEF WhereInv, CleanInv, Others
  <2>5. MarkInv'
    BY <1>t, <2>1, <2>3 DEF MarkInv, CleanInv, Marked, Closed, Host
  <2>6. ProbeInv' /\ (StartsSafely' => BarrierHolds')
    BY <1>t, <2>1, <2>3 DEF ProbeInv, BarrierHolds, Closed, StartsSafely, HostsReady, Others
  <2> QED
    BY <2>2, <2>4, <2>5, <2>6 DEF IInv
<1>13. CASE UNCHANGED vars
  BY <1>13, <1>t DEF vars, IInv, TypeOK, WhereInv, CleanInv, MarkInv, ProbeInv, BarrierHolds,
     Marked, Closed, StartsSafely, HostsReady
<1> QED
  BY <1>1, <1>2, <1>3, <1>4, <1>5, <1>6, <1>7, <1>8, <1>9, <1>10, <1>11, <1>12, <1>13
     DEF Next, Coordinator, Initialise

\* So it holds in every reachable state.
LEMMA Invariant == Spec => []IInv
  BY InitIInv, NextIInv, PTL DEF Spec
-----------------------------------------------------------------------------
\* The types of all variables: in particular the loop of m2m_time_init
\* (time.c:36-40) marks no local time beyond those of the devices.
THEOREM TypeCorrect == Spec => []TypeOK
  BY Invariant, PTL DEF IInv

\* A guest program runs only when every device that sends or receives has reset
\* its queues (send_recv.c:85-117, time.c:43-83), for every topology: on a new
\* segment whatever the order in which the devices are started, on a left one if
\* the coordinator is at the barrier before the others are started.  Without
\* that patience it is false: a device passes the barrier the last run left open.
THEOREM BarrierIsSafe == Spec => [](StartsSafely => BarrierHolds)
  BY Invariant, PTL DEF IInv
=============================================================================
