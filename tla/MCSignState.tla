----------------------------- MODULE MCSignState -----------------------------
(* What a request meets under the sign lock: the nonce log, the pin budget,   *)
(* the replay, pending and refresh logs with the handlers that share them,    *)
(* and the policy.  A part reads another only through the clock reading it is *)
(* given, and each part lets that reading be anything, so they are explored   *)
(* one at a time (`part` never changes).                                      *)
(*                                                                            *)
(* The nonce log has three well-formed nonces for two places, one malformed   *)
(* nonce, and clocks of five readings: an excursion past every expiry and     *)
(* back, a full log and the top of the machine's integers all occur.  The     *)
(* budget has a ring of three slots, nine readings, and a schedule shorter    *)
(* than the ring, so that its last delay repeats.  The gate has a hot spend,  *)
(* either in two signature instances (twins) or beside an escape-class spend  *)
(* (mixed), a chain of two refreshes, and clocks that pass every expiry; at   *)
(* most one refusal is on record and only the hot spend is seen settled (the  *)
(* other settlements touch no log of this part).  The policy has inputs that  *)
(* declare another value than the chain has, or none, outputs at the cap, one *)
(* past it and of a sum past the machine's integers, and fees on both sides   *)
(* of the percentage.                                                         *)
EXTENDS NonceLog, PinBudget, RefreshGate, PolicyCore, TLC

VARIABLE part

MCBackoff == <<0, 1>>
MCInputs == [r \in Refreshes |-> IF r = "r1" THEN {"c0"} ELSE {"c1"}]
MCOutputs == [r \in Refreshes |-> IF r = "r1" THEN {"c1"} ELSE {"c2"}]
MCExpiry == [x \in Commitments |-> IF x = "r2" THEN 3 ELSE 2]
MCSubmissions == {<<"s1", 1>>, <<"s1", 2>>, <<"s2", 1>>}

Script(w, i) == [wallet |-> w, index |-> i]
Coin(v) == [script |-> Script("vault", 0), value |-> v]
Honest(v) == [utxo |-> Coin(v), truth |-> Coin(v)]
Lying(v, w) == [utxo |-> Coin(v), truth |-> Coin(w)]
MCInputLists ==
    {<<>>, <<Honest(10)>>, <<Honest(20)>>, <<Honest(30)>>, <<Honest(10), Honest(20)>>,
     <<Honest(30), Honest(13)>>, <<Lying(10, 30)>>, <<Honest(20), Lying(10, 20)>>,
     <<[utxo |-> NoUtxo, truth |-> Coin(20)]>>,
     <<Honest(10), [utxo |-> [script |-> Script("other", 0), value |-> 20],
                    truth |-> [script |-> Script("other", 0), value |-> 20]]>>}
Pays(script, values) == [script : {script}, value : values, labelled : {FALSE}]
MCOutput ==
    UNION {Pays(Script("vault", 0), {1, 9, 18}), Pays(Script("escape", 1), {9, 18, 30}),
           Pays(Script("hot", 1), {1, 12, 13, 30}), Pays(Script("hot", 2), {9}),
           [script : {Script("other", 0)}, value : {9}, labelled : BOOLEAN]}
MCOutputLists == {<<>>} \cup {<<o>> : o \in MCOutput} \cup {<<o, p>> : o, p \in MCOutput}

MCSymmetry == Permutations(Nonces) \cup Permutations(SpendHandlers)

MCInit == /\ part \in {"log", "pin", "twins", "mixed", "policy"}
          /\ Init
          /\ PinInit
          /\ GateInit
          /\ PolicyInit
          /\ part # "pin" => wall = 0

MCNext == /\ UNCHANGED part
          /\ \/ part = "log"  /\ Next     /\ UNCHANGED <<pinVars, gateVars, policyVars>>
             \/ part = "pin"  /\ PinNext  /\ UNCHANGED <<vars, gateVars, policyVars>>
             \/ part = "policy" /\ PolicyNext /\ UNCHANGED <<vars, pinVars, gateVars>>
             \/ /\ part \in {"twins", "mixed"}
                /\ GateNext
                /\ UNCHANGED <<vars, pinVars, policyVars>>
                /\ settled' \subseteq HotSpends
                /\ Cardinality(refused') <= 1
                /\ \A h \in SpendHandlers :
                      <<handler'[h].commitment, handler'[h].instance>> #
                          (IF part = "twins" THEN <<"s2", 1>> ELSE <<"s1", 2>>)

MCSpec == MCInit /\ [][MCNext]_<<part, vars, pinVars, gateVars, policyVars>>
=============================================================================
