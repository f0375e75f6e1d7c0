----------------------------- MODULE MCCeremony -----------------------------
(* A 2-of-3 federation whose first host may publish the second one's port    *)
(* and may generate its key anew.                                            *)
EXTENDS Ceremony

CONSTANTS n1, n2, n3

MCPorts == 1 .. 3
PortsOf(n) == CASE n = n1 -> {1, 2} [] n = n2 -> {2} [] n = n3 -> {3}

MCNext ==
    /\ Next
    /\ \A n \in Nodes : device'[n].bundle.port \in PortsOf(n) \cup {0}
MCSpec == Init /\ [][MCNext]_vars
=============================================================================
