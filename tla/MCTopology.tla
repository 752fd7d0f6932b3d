----------------------------- MODULE MCTopology ----------------------------
(* Small topologies for TLC. *)
EXTENDS Topology

Discovered(add, link, remove) ==
    [nodes |-> add, linked |-> link, removed |-> remove]

(* Nothing new; a node comes; a node goes; a link names a node that has no *)
(* state; a node is removed by an update that adds another.                *)
MCUpdates ==
    {Discovered({}, {}, {}),
     Discovered({1, 3}, {}, {}),
     Discovered({}, {}, {2}),
     Discovered({}, {3}, {}),
     Discovered({2}, {}, {1, 3})}

(* Nodes come and go, also in one update, and a link names a node that may *)
(* have no state.                                                          *)
MCChurn ==
    {Discovered({1, 2}, {}, {}),
     Discovered({1, 2}, {}, {2}),
     Discovered({}, {}, {2}),
     Discovered({}, {2}, {})}
=============================================================================
