----------------------------- MODULE MCStartup -----------------------------
(***************************************************************************)
(* Instances of Startup.                                                   *)
(***************************************************************************)
EXTENDS Startup

\* m2m_app/topology.conf.
Chain == <<"ZC", "ZR", "ZED">>

\* demo05 with two end devices.
Star == <<"ZC", "ZR", "ZED", "ZED">>

\* In any order on a new segment; with patience on a new or a left one.
Usual == {[leftover |-> FALSE, order |-> "any"],
          [leftover |-> FALSE, order |-> "patient"],
          [leftover |-> TRUE, order |-> "patient"]}

\* The coordinator first.
First == {[leftover |-> FALSE, order |-> "first"]}

\* With patience on a new segment.
Patient == {[leftover |-> FALSE, order |-> "patient"]}
============================================================================
