--------------------------- MODULE MCCarrierNode ---------------------------
(* CarrierNode on small instances, all with one nonce.  For the generations, *)
(* b1 and b3 are two requests of one generation and b2 a later one; b1 has   *)
(* the duress PIN and comes under two signatures, and one peer relays.  The  *)
(* liveness instance has both generations, one signature and two peers, both *)
(* of them needed.  The last instance is one body under two signatures.      *)
EXTENDS CarrierNode, TLC

CONSTANTS b1, b2, b3, s1, s2, n1

NonceOfAll == [b \in Bodies |-> n1]
ExpiryOfAll == [b \in Bodies |-> IF b = b2 THEN 3 ELSE 2]
ShortExpiry == [b \in Bodies |-> IF b = b2 THEN 2 ELSE 1]
Duress == {b1}

GenerationBodies == {b1, b2, b3}
GenerationCopies == {<<b1, s1>>, <<b1, s2>>, <<b2, s1>>, <<b3, s1>>}

QuorumBodies == {b1}
QuorumCopies == {<<b1, s1>>, <<b1, s2>>}

LiveBodies == {b1, b2}
LiveCopies == {<<b1, s1>>, <<b2, s1>>}

Interchangeable == Permutations(Peers) \cup Permutations(Threads)
=============================================================================
