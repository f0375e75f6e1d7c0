---------------------------- MODULE MCEscapeSweep ----------------------------
(* The two halves of an armed escape's fire pass: the fee-bump ladder across  *)
(* the nodes, and one node's view of the vault, whose value the ladder's      *)
(* coverage is measured against.  The ladder takes that value as given and    *)
(* the view knows nothing of rungs, so they are explored one at a time        *)
(* (`part` never changes): ladder; build, the cache with the thread that      *)
(* builds the wallet; and reads, the cache with the fire pass's reader, where *)
(* that thread has not got anywhere.                                          *)
(*                                                                            *)
(* Ladder: two of three nodes and four rungs; the base is under the panic     *)
(* floor, the top one over the coverage cap, the second anchor block asks for *)
(* the top, so that the clamp decides, and the deposit puts rung 2 over the   *)
(* cap as well.  One node's quota carries a single rung.                      *)
(*                                                                            *)
(* View: c0 is old; on the a branch S spends it and D pays the vault, and the *)
(* e blocks, a reorg above that, add the accepted R; a4, longer than e3,      *)
(* drops R again and keeps D.  The b branch knows nothing of S, confirms D    *)
(* late, and its blocks carry later times.                                    *)
EXTENDS EscapeLadder, VaultCache, TLC

VARIABLE part

MCFeerate == (0 :> 1) @@ (1 :> 4) @@ (2 :> 16) @@ (3 :> 64)
MCDelivered == (0 :> 99) @@ (1 :> 96) @@ (2 :> 84) @@ (3 :> 36)
MCMedians == <<3, 47>>
MCQuota == ("n1" :> 1) @@ ("n2" :> 2) @@ ("n3" :> 2)

MCParent == ("g1" :> "g1") @@ ("a2" :> "g1") @@ ("a3" :> "a2") @@ ("e3" :> "a2")
            @@ ("a4" :> "a3") @@ ("e4" :> "e3")
            @@ ("b2" :> "g1") @@ ("b3" :> "b2") @@ ("b4" :> "b3")
MCTime == ("g1" :> 1) @@ ("a2" :> 2) @@ ("a3" :> 3) @@ ("e3" :> 3)
          @@ ("a4" :> 4) @@ ("e4" :> 4) @@ ("b2" :> 5) @@ ("b3" :> 6) @@ ("b4" :> 7)
MCIncluded == ("a2" :> {"S", "D"}) @@ ("b3" :> {"D"}) @@ ("e3" :> {"R"})
              @@ [b \in Blocks |-> {}]
MCCreates == ("D" :> {"c1"}) @@ ("R" :> {"c2"}) @@ ("S" :> {})
MCSpends == ("D" :> {}) @@ ("R" :> {"c1"}) @@ ("S" :> {"c0"})

MCInit == \/ /\ part = "ladder"
             /\ LadderInit
             /\ CacheAtRest
             /\ cache = [block |-> Root, candidates |-> RootCoins]
          \/ /\ part \in {"build", "reads"}
             /\ CacheInit
             /\ Unfired /\ live = {} /\ deposited = TRUE

MCNext == /\ UNCHANGED part
          /\ \/ part = "ladder" /\ LadderNext /\ UNCHANGED cacheVars
             \/ part # "ladder" /\ CacheNext  /\ UNCHANGED ladderVars
          /\ part = "build" => read' = NoRead /\ sequence' <= 1 + reorgs'
          /\ part = "reads" => mishaps' = 0 /\ seed'.pc \in {"idle", "ensure"}
                                            /\ handle' = NoBlock

MCFairness == /\ LadderFairness
              /\ \A running \in BOOLEAN :
                    []<>(part = "ladder" \/ (refresh.pc # "idle") = running)
              /\ []<>(part = "ladder" \/ seed.pc = "idle")
              /\ []<>(part = "ladder" \/ WalletAtTip)

MCSpec == MCInit /\ [][MCNext]_<<part, ladderVars, cacheVars>> /\ MCFairness
=============================================================================
