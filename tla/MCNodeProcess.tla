---------------------------- MODULE MCNodeProcess ----------------------------
(* Two questions in one run: several starts of the daemon with one request,  *)
(* on every kind of storage, and one start with several requests.            *)
EXTENDS NodeProcess

CONSTANTS p1, j1

VARIABLE restarts

MCInit ==
    /\ Init /\ restarts \in BOOLEAN
    /\ ~ restarts => ~ durable /\ ~ override

MCNext ==
    /\ Next /\ UNCHANGED restarts
    /\ ~ restarts => powers' = 0 /\ \A p \in Procs \ {p1} : proc'[p].pc = "off"
    /\ restarts => \A j \in Jobs \ {j1} : job'[j].pc = "none"

MCSpec == MCInit /\ [][MCNext]_<<vars, restarts>> /\ Fairness
=============================================================================
