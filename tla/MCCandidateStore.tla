-------------------------- MODULE MCCandidateStore --------------------------
(* Hot requests, each as large as the whole budget and spending one coin     *)
(* that the escapes spend too.  k1 carries r1 under the normal PIN, k2       *)
(* carries r2 under duress, k3 carries r1 again and k4 carries r3, both      *)
(* under duress.  r3 competes with r1; r2 can be accepted only in the last   *)
(* second of r1, or, for a slow send, after it.                              *)
EXTENDS CandidateStore, TLC

CONSTANTS r1, r2, r3, k1, k2, k3, k4, coin1, coin2

MCReqOf == [k \in Carriers |-> IF k = k2 THEN r2 ELSE IF k = k4 THEN r3 ELSE r1]
MCDuress == Carriers \ {k1}
MCExpiry == [r \in Requests |-> IF r = r2 THEN 5 ELSE 3]
SlowExpiry == [r \in Requests |-> IF r = r1 THEN 2 ELSE 5]
MCOutflow == [r \in Requests |-> 1]
MCInputs == [id \in Ids |->
    IF IsEscape(id) THEN {coin1, coin2}
    ELSE IF id[1] = r1 THEN {coin1} ELSE {coin2}]

\* The carriers that arrive in a behaviour: two requests with the wall clock
\* stepped, or two competing ones, one of them twice, with it not stepped.
VARIABLE offered

OneAfterTheOther == {k1, k2}
Competing == {k1, k3, k4}

MCInit ==
    Init /\ offered \in {S \in {OneAfterTheOther, Competing} : S \subseteq Carriers}
MCNext ==
    /\ Next /\ UNCHANGED offered
    /\ \A k \in Carriers \ offered : intent'[k].phase = "new"
    /\ offered = Competing => wall' <= 2 /\ steps' = 0
MCSpec == MCInit /\ [][MCNext]_<<vars, offered>>
=============================================================================
