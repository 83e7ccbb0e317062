----------------------------- MODULE MCNetwork -----------------------------
(***************************************************************************)
(* Instances of M2MNetwork: the topologies of the demos, with the calls    *)
(* their guest programs make.                                              *)
(***************************************************************************)
EXTENDS M2MNetwork

send(r) == [op |-> "send", to |-> r]
large(r) == [op |-> "large", to |-> r]
recv == [op |-> "recv"]
exit == [op |-> "exit"]

\* demo02: a coordinator and an end device next to each other.
PairType == <<"ZC", "ZED">>
PairNeighbors == <<<<2>>, <<1>>>>
PairHop == <<<<1, 2>>, <<1, 2>>>>
\* The coordinator sends three messages in a row.
PairBurst == <<<<send(2), send(2), send(2)>>, <<recv, recv, recv>>>>

\* Two end devices around a coordinator, which forwards between them: ZC {2,3},
\* ZED {1}, ZED {1}.
HubType == <<"ZC", "ZED", "ZED">>
HubNeighbors == <<<<2, 3>>, <<1>>, <<1>>>>
HubHop == <<<<1, 2, 3>>, <<1, 2, 1>>, <<1, 1, 3>>>>
\* All three send at once; two calls send nothing.
HubProgram == <<<<send(3), recv>>, <<send(1), send(3), send(2)>>, <<recv, large(1), recv>>>>

\* m2m_app/topology.conf: ZC {2}, ZR {1,3}, ZED {2}.
ChainType == <<"ZC", "ZR", "ZED">>
ChainNeighbors == <<<<2>>, <<1, 3>>, <<2>>>>
ChainHop == <<<<1, 2, 2>>, <<1, 2, 3>>, <<2, 2, 3>>>>
\* demo04: a report, an answer, a report; the end device leaves.
ChainTalk == <<<<recv, send(3), recv>>, << >>, <<send(1), recv, send(1), exit>>>>
\* Three reports in a row and an answer; the end device leaves.
ChainReports == <<<<recv, recv, recv, send(3)>>, << >>,
                  <<send(1), send(1), send(1), recv, exit>>>>
\* The coordinator leaves as soon as it has what it wants.
ChainExit == <<<<recv, exit>>, << >>, <<send(1), exit>>>>

\* demo05, the star, with two end devices: ZC {2}, ZR {1,3,4}, ZED {2}, ZED {2}.
StarType == <<"ZC", "ZR", "ZED", "ZED">>
StarNeighbors == <<<<2>>, <<1, 3, 4>>, <<2>>, <<2>>>>
StarHop == <<<<1, 2, 2, 2>>, <<1, 2, 3, 4>>, <<2, 2, 3, 2>>, <<2, 2, 2, 4>>>>
StarReport == <<<<recv, recv>>, << >>, <<send(1)>>, <<send(1)>>>>
\* The coordinator asks device 4, which answers; device 3 reports meanwhile.
StarAsk == <<<<send(4), recv, recv>>, << >>, <<send(1)>>, <<recv, send(1)>>>>

\* An end device at the coordinator and one behind a router: ZC {2,4}, ZR {1,3},
\* ZED {2}, ZED {1}.
TreeType == <<"ZC", "ZR", "ZED", "ZED">>
TreeNeighbors == <<<<2, 4>>, <<1, 3>>, <<2>>, <<1>>>>
TreeHop == <<<<1, 2, 2, 4>>, <<1, 2, 3, 1>>, <<2, 2, 3, 2>>, <<1, 1, 1, 4>>>>
\* Device 4 asks device 3 for a report and reports too.
TreeAsk == <<<<recv, recv>>, << >>, <<recv, send(1)>>, <<send(3), send(1)>>>>

\* m2m_app/source/topology.conf: a router with three end devices.
Star5Type == <<"ZC", "ZR", "ZED", "ZED", "ZED">>
Star5Neighbors == <<<<2>>, <<1, 3, 4, 5>>, <<2>>, <<2>>, <<2>>>>
Star5Hop == <<<<1, 2, 2, 2, 2>>, <<1, 2, 3, 4, 5>>, <<2, 2, 3, 2, 2>>,
              <<2, 2, 2, 4, 2>>, <<2, 2, 2, 2, 5>>>>
Star5Report == <<<<recv>>, << >>, <<send(1)>>, <<send(1)>>, <<send(1)>>>>

\* What the theorems of M2MNetwork_proofs assume of a network holds in the
\* instances: in all but those where three senders share a link or the coordinator
\* leaves, and, of the routes, in the ones where devices report to the coordinator.
ASSUME TheoremsApply ==
    /\ TwoPerLink <=> Program # Star5Report
    /\ RoutersStay <=> Program # ChainExit
    /\ ShortRoutes <=> Program \in {PairBurst, ChainExit, StarReport, Star5Report}
============================================================================
