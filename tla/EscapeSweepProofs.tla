-------------------------- MODULE EscapeSweepProofs --------------------------
(***************************************************************************)
(* Proofs about the two halves of an armed escape's fire pass.             *)
(*                                                                         *)
(* The fee-bump ladder, for any nodes, threshold, ladder, fees, coverage,  *)
(* quotas and faults: a quorum that has released anything has released a   *)
(* common rung, and no share leaves under the panic floor.  Nodes agree on *)
(* no reading: each takes its own anchor, deposit and quota.  What they    *)
(* cannot differ on is the cheapest rung over the panic floor.  A dearer   *)
(* rung delivers less, so that one is admissible whenever any rung is,     *)
(* every release floor is it, and the first release of every node contains *)
(* it.                                                                     *)
(*                                                                         *)
(* The vault's view, for any tree of blocks and transactions, where the    *)
(* chain leaves its branch at most once: the cache misses no output of its *)
(* block, and an answer is the whole vault.  A delta and a scan cover a    *)
(* block by themselves; a wallet read covers it because the wallet's       *)
(* birthday was taken from a scan at its anchor: what is unspent above an  *)
(* anchor that is still active is younger than the birthday, so that it is *)
(* watched, and a watched output is listed or hidden by a debit whose      *)
(* inputs are added back.                                                  *)
(***************************************************************************)
EXTENDS EscapeLadder, VaultCache, FiniteSetTheorems, WellFoundedInduction, TLAPS

Cheapest == Min({r \in Rungs : Reaches(r, FeeFloor)})

\* A node's first release contains the cheapest rung.
ReleasedFromCheapest ==
    \A n \in Nodes : IF sent[n] = {} THEN through[n] = None ELSE Cheapest \in sent[n]

LadderIInv == LadderTypeOK /\ live \subseteq Nodes /\ ReleasedFromCheapest
              /\ NoShareUnderFloor

-----------------------------------------------------------------------------
(* Min and Max.                                                              *)

\* A set of naturals that is not empty has a least element.
LEMMA MinOfNaturals ==
    ASSUME NEW S, S \subseteq Nat, S # {}
    PROVE  Min(S) \in S /\ \A y \in S : Min(S) <= y
<1> DEFINE R == OpToRel(<, Nat)
<1>1. IsWellFoundedOn(R, Nat)
      BY NatLessThanWellFounded
<1>2. \A x, y \in Nat : y < x => <<y, x>> \in R
      BY DEF OpToRel
<1> HIDE DEF R
<1>3. PICK m \in S : \A y \in S : ~ (<<y, m>> \in R)
      BY <1>1, WFMin
<1>4. \A y \in S : ~ (y < m)
      BY <1>2, <1>3
<1>5. \A y \in S : m <= y
      BY <1>3, <1>4
<1> QED BY <1>3, <1>5 DEF Min

\* One of naturals under a bound has a greatest one.
LEMMA MaxOfBounded ==
    ASSUME NEW k \in Nat, NEW S, S \subseteq 0 .. k, S # {}
    PROVE  Max(S) \in S /\ \A y \in S : Max(S) >= y
<1> DEFINE T == {x \in 0 .. k : k - x \in S}
<1>1. T \subseteq Nat
      OBVIOUS
<1>2. T # {}
  <2>1. PICK x \in S : TRUE
        OBVIOUS
  <2>2. x \in 0 .. k /\ k - x \in 0 .. k /\ k - (k - x) = x
        BY <2>1
  <2>3. k - x \in T
        BY <2>1, <2>2
  <2> QED BY <2>3
<1>3. Min(T) \in T /\ \A y \in T : Min(T) <= y
      BY <1>1, <1>2, MinOfNaturals
<1> DEFINE m == k - Min(T)
<1>4. m \in S /\ Min(T) \in 0 .. k
      BY <1>3
<1>5. ASSUME NEW y \in S PROVE m >= y
  <2>1. y \in 0 .. k /\ k - y \in 0 .. k /\ k - (k - y) = y
        OBVIOUS
  <2>2. k - y \in T
        BY <2>1
  <2>3. Min(T) <= k - y
        BY <2>2, <1>3
  <2> QED BY <2>1, <2>3, <1>4
<1> HIDE DEF m
<1> QED BY <1>4, <1>5 DEF Max

LEMMA MaxOfTwo ==
    ASSUME NEW a \in Int, NEW b \in Int
    PROVE  Max({a, b}) = IF a >= b THEN a ELSE b
BY DEF Max

LEMMA MinOfTwo ==
    ASSUME NEW a \in Int, NEW b \in Int
    PROVE  Min({a, b}) = IF a <= b THEN a ELSE b
BY DEF Min

-----------------------------------------------------------------------------
(* Admissible rungs.                                                         *)

\* What a preflight may see is Balance or more.
LEMMA SeenProtects ==
    ASSUME NEW protected \in ProtectedSeen
    PROVE  protected \in Nat /\ Admissible(protected) \subseteq Admissible(Balance)
<1>1. protected \in Nat /\ protected >= Balance /\ Balance \in Nat /\ CoveragePct \in Nat
      BY LadderAssumption DEF ProtectedSeen
<1>2. Balance * CoveragePct <= protected * CoveragePct
      /\ Balance * CoveragePct \in Nat /\ protected * CoveragePct \in Nat
      BY <1>1
<1>3. \A r \in Rungs : Delivered[r] * 100 \in Nat
      BY LadderAssumption
<1> QED BY <1>1, <1>2, <1>3 DEF Admissible

\* If any rung is admissible, the cheapest over the floor is, and it is the least.
LEMMA CheapestIsLeast ==
    ASSUME NEW protected \in Nat, Admissible(protected) # {}
    PROVE  /\ Cheapest \in Rungs /\ Reaches(Cheapest, FeeFloor)
           /\ Min(Admissible(protected)) = Cheapest
           /\ \A r \in Admissible(protected) : Cheapest <= r
<1> DEFINE A == Admissible(protected)
           F == {r \in Rungs : Reaches(r, FeeFloor)}
<1>1. Rungs \subseteq Nat
      BY LadderAssumption DEF Rungs
<1>2. A \subseteq F /\ F \subseteq Nat /\ F # {} /\ A # {} /\ A \subseteq Nat
      BY <1>1 DEF Admissible
<1>3. Cheapest \in F /\ \A r \in F : Cheapest <= r
      BY <1>2, MinOfNaturals DEF Cheapest
<1>4. Min(A) \in A /\ \A r \in A : Min(A) <= r
      BY <1>2, MinOfNaturals
<1> DEFINE c == Cheapest
           m == Min(A)
<1>5. c \in A
  <2>1. c <= m /\ c \in Rungs /\ m \in Rungs
        BY <1>2, <1>3, <1>4
  <2>2. Delivered[m] <= Delivered[c] /\ Delivered[m] \in Nat /\ Delivered[c] \in Nat
        BY <2>1, LadderAssumption
  <2>3. Delivered[m] * 100 >= protected * CoveragePct
        BY <1>4 DEF Admissible
  <2>4. protected * CoveragePct \in Nat
        BY LadderAssumption
  <2>5. Delivered[c] * 100 >= protected * CoveragePct
    <3> HIDE DEF c, m
    <3> DEFINE p == protected * CoveragePct
               dc == Delivered[c]
               dm == Delivered[m]
    <3>1. p \in Nat /\ dc \in Nat /\ dm \in Nat /\ dm <= dc /\ dm * 100 >= p
          BY <2>2, <2>3, <2>4
    <3> HIDE DEF p, dc, dm
    <3>2. dc * 100 >= p
          BY <3>1
    <3> QED BY <3>2 DEF p, dc
  <2> QED BY <2>1, <2>5, <1>3 DEF Admissible
<1>6. m = c
  <2>1. m <= c /\ c <= m /\ m \in Nat /\ c \in Nat
        BY <1>2, <1>3, <1>4, <1>5
  <2> QED BY <2>1
<1> QED BY <1>2, <1>3, <1>6

-----------------------------------------------------------------------------
(* A preflight, and the release that follows it.                             *)

LEMMA PreflightTypes ==
    ASSUME LadderTypeOK, NEW n \in Nodes, NEW target, NEW protected \in ProtectedSeen,
           Preflight(n, target, protected)
    PROVE  /\ latch' \in [Nodes -> {0} \cup Admissible(Balance)]
           /\ floor' \in [Nodes -> Rungs]
           /\ floor'[n] = Cheapest /\ latch'[n] \in Rungs /\ Cheapest <= latch'[n]
           /\ Cheapest \in Rungs /\ Reaches(Cheapest, FeeFloor)
<1> DEFINE A == Admissible(protected)
           rung == Selected(n, target, A)
<1>1. /\ A # {} /\ rung \in A
      /\ latch' = [latch EXCEPT ![n] = Max({latch[n], rung})]
      /\ floor' = [floor EXCEPT ![n] = Min(A \cup {rung})]
      BY DEF Preflight, Latched
<1>2. protected \in Nat /\ A \subseteq Admissible(Balance)
      BY SeenProtects
<1>3. /\ Cheapest \in Rungs /\ Reaches(Cheapest, FeeFloor)
      /\ Min(A) = Cheapest /\ \A r \in A : Cheapest <= r
      BY <1>1, <1>2, CheapestIsLeast
<1>4. A \cup {rung} = A
      BY <1>1
<1>5. Rungs \subseteq Nat /\ 0 \in Rungs /\ Admissible(Balance) \subseteq Rungs
      BY LadderAssumption DEF Rungs, Admissible
<1> HIDE DEF rung
<1>6. latch[n] \in {0} \cup Admissible(Balance) /\ latch[n] \in Int /\ rung \in Int
  <2>1. latch[n] \in {0} \cup Admissible(Balance)
        BY DEF LadderTypeOK
  <2>2. latch[n] \in Rungs /\ rung \in Rungs
        BY <2>1, <1>1, <1>2, <1>5
  <2>3. latch[n] \in Nat /\ rung \in Nat
        BY <2>2, <1>5
  <2>4. latch[n] \in Int /\ rung \in Int
        BY ONLY <2>3
  <2> QED BY <2>1, <2>4
<1>7. Max({latch[n], rung}) = IF latch[n] >= rung THEN latch[n] ELSE rung
      BY <1>6, MaxOfTwo
<1> DEFINE x == Max({latch[n], rung})
<1>8. x \in {0} \cup Admissible(Balance) /\ x \in Rungs /\ Cheapest <= x
  <2>1. CASE latch[n] >= rung
    <3>1. x = latch[n]
          BY <2>1, <1>7
    <3>2. Cheapest <= rung /\ Cheapest \in Int
          BY <1>1, <1>3, <1>5
    <3> HIDE DEF x
    <3>3. Cheapest <= latch[n]
          BY <2>1, <3>2, <1>6
    <3> QED BY <3>1, <3>3, <1>6, <1>5
  <2>2. CASE ~ (latch[n] >= rung)
    <3>1. x = rung
          BY <2>2, <1>7
    <3> HIDE DEF x
    <3> QED BY <3>1, <1>1, <1>2, <1>3, <1>5
  <2> QED BY <2>1, <2>2
<1>9. latch' = [latch EXCEPT ![n] = x]
      BY <1>1
<1>10. floor' = [floor EXCEPT ![n] = Cheapest]
       BY <1>1, <1>3, <1>4
<1> HIDE DEF x
<1>11. latch' \in [Nodes -> {0} \cup Admissible(Balance)] /\ latch'[n] = x
       BY <1>8, <1>9 DEF LadderTypeOK
<1>12. floor' \in [Nodes -> Rungs] /\ floor'[n] = Cheapest
       BY <1>3, <1>10 DEF LadderTypeOK
<1> QED BY <1>3, <1>8, <1>11, <1>12

LEMMA ReleaseFromCheapest ==
    ASSUME LadderIInv, NEW n \in Nodes, Release(n),
           floor'[n] = Cheapest, latch'[n] \in Rungs, Cheapest <= latch'[n],
           Cheapest \in Rungs, Reaches(Cheapest, FeeFloor)
    PROVE  /\ through' \in [Nodes -> Rungs \cup {None}]
           /\ sent' \in [Nodes -> SUBSET Rungs]
           /\ ReleasedFromCheapest' /\ NoShareUnderFloor'
<1> DEFINE c == Cheapest
           top == Authorized(n)
           low == Max({through[n] + 1, floor'[n]})
<1>1. /\ Rungs \subseteq Nat /\ Rungs = 0 .. Top /\ Top \in Nat /\ None = -1
      /\ ReleaseQuota[n] \in Nat \ {0} /\ through[n] \in Int /\ through[n] >= -1
      /\ through \in [Nodes -> Rungs \cup {None}] /\ sent \in [Nodes -> SUBSET Rungs]
      BY LadderAssumption DEF Rungs, None, LadderIInv, LadderTypeOK
<1>2. c \in Nat /\ latch'[n] \in Nat /\ latch'[n] <= Top
      BY <1>1
<1>3. top \in Int /\ c <= top /\ top <= Top
  <2>1. c + ReleaseQuota[n] - 1 \in Int
        BY <1>1, <1>2
  <2>2. top = IF latch'[n] <= c + ReleaseQuota[n] - 1 THEN latch'[n]
              ELSE c + ReleaseQuota[n] - 1
        BY <2>1, <1>2, MinOfTwo DEF Authorized
  <2> HIDE DEF top
  <2> QED BY <2>2, <1>1, <1>2
<1>4. low \in Int /\ c <= low /\ (through[n] = None => low = c)
  <2>1. low = IF through[n] + 1 >= c THEN through[n] + 1 ELSE c
        BY <1>1, <1>2, MaxOfTwo
  <2> HIDE DEF low, c
  <2> QED BY <2>1, <1>1, <1>2
<1>5. Released(n) = low .. top
      BY DEF Released
<1>6. /\ through' = IF low .. top = {} THEN through ELSE [through EXCEPT ![n] = top]
      /\ sent' = [sent EXCEPT ![n] = @ \cup (low .. top)]
      BY <1>5 DEF Release
<1> HIDE DEF low, top, c
<1>7. top \in Rungs /\ low .. top \subseteq Rungs /\ \A r \in low .. top : c <= r
      BY <1>1, <1>2, <1>3, <1>4
<1>8. through' \in [Nodes -> Rungs \cup {None}]
      BY <1>1, <1>6, <1>7
<1>9. sent' \in [Nodes -> SUBSET Rungs]
      BY <1>1, <1>6, <1>7
<1>10. ReleasedFromCheapest'
  <2> SUFFICES ASSUME NEW i \in Nodes
               PROVE  IF sent'[i] = {} THEN through'[i] = None ELSE c \in sent'[i]
      BY DEF ReleasedFromCheapest, c, Cheapest, Reaches
  <2>1. IF sent[i] = {} THEN through[i] = None ELSE c \in sent[i]
        BY DEF LadderIInv, ReleasedFromCheapest, c
  <2>2. CASE i # n
    <3>1. sent'[i] = sent[i] /\ through'[i] = through[i]
          BY <2>2, <1>1, <1>6
    <3> QED BY <2>1, <3>1
  <2>3. CASE i = n
    <3>1. sent'[n] = sent[n] \cup (low .. top)
          BY <1>1, <1>6
    <3>2. CASE sent[n] = {}
      <4>1. low = c
            BY <2>1, <2>3, <3>2, <1>4
      <4>2. c \in low .. top
            BY <4>1, <1>2, <1>3
      <4> QED BY <2>3, <3>1, <4>2
    <3>3. CASE sent[n] # {}
          BY <2>1, <2>3, <3>1, <3>3
    <3> QED BY <3>2, <3>3
  <2> QED BY <2>2, <2>3
<1>11. NoShareUnderFloor'
  <2> SUFFICES ASSUME NEW i \in Nodes, NEW r \in sent'[i]
               PROVE  Reaches(r, FeeFloor)
      BY DEF NoShareUnderFloor, Reaches
  <2>1. CASE r \in sent[i]
        BY <2>1 DEF LadderIInv, NoShareUnderFloor
  <2>2. CASE r \notin sent[i]
    <3>1. r \in low .. top
          BY <2>2, <1>1, <1>6
    <3>2. r \in Rungs /\ c \in Rungs /\ c <= r
          BY <3>1, <1>7 DEF c
    <3>3. /\ Feerate[c] <= Feerate[r] /\ Feerate[c] \in Nat /\ Feerate[r] \in Nat
          /\ FeeFloor \in Nat
          BY <3>2, LadderAssumption
    <3>4. Feerate[c] >= FeeFloor
          BY DEF Reaches, c
    <3> QED BY <3>3, <3>4 DEF Reaches
  <2> QED BY <2>1, <2>2
<1> QED BY <1>8, <1>9, <1>10, <1>11

-----------------------------------------------------------------------------
(* The invariant.                                                            *)

LEMMA LadderInitial ==
    ASSUME LadderInit PROVE LadderIInv
<1>1. Rungs = 0 .. Top /\ Top \in Nat /\ 0 \in Rungs
      BY LadderAssumption DEF Rungs
<1>2. LadderTypeOK
      BY <1>1 DEF LadderInit, Unfired, LadderTypeOK
<1>3. ReleasedFromCheapest /\ NoShareUnderFloor
      BY DEF LadderInit, Unfired, ReleasedFromCheapest, NoShareUnderFloor
<1>4. live \subseteq Nodes
      BY DEF LadderInit
<1> QED BY <1>2, <1>3, <1>4 DEF LadderIInv

\* A step that releases nothing and keeps the types keeps the invariant.
LEMMA NothingReleased ==
    ASSUME LadderIInv, LadderTypeOK', UNCHANGED <<live, through, sent>>
    PROVE  LadderIInv'
<1>1. ReleasedFromCheapest' /\ NoShareUnderFloor'
      BY DEF LadderIInv, ReleasedFromCheapest, NoShareUnderFloor, Cheapest, Reaches
<1> QED BY <1>1 DEF LadderIInv

LEMMA FirePassKeeps ==
    ASSUME LadderIInv, NEW n \in live, FirePass(n) PROVE LadderIInv'
<1>1. n \in Nodes /\ LadderTypeOK
      BY DEF LadderIInv
<1>2. PICK target \in Targets, protected \in ProtectedSeen :
          Preflight(n, target, protected) /\ Release(n)
      BY DEF FirePass
<1>3. /\ latch' \in [Nodes -> {0} \cup Admissible(Balance)]
      /\ floor' \in [Nodes -> Rungs]
      /\ floor'[n] = Cheapest /\ latch'[n] \in Rungs /\ Cheapest <= latch'[n]
      /\ Cheapest \in Rungs /\ Reaches(Cheapest, FeeFloor)
      BY <1>1, <1>2, PreflightTypes
<1>4. /\ through' \in [Nodes -> Rungs \cup {None}]
      /\ sent' \in [Nodes -> SUBSET Rungs]
      /\ ReleasedFromCheapest' /\ NoShareUnderFloor'
      BY <1>1, <1>2, <1>3, ReleaseFromCheapest
<1>5. UNCHANGED <<live, mempool, confirmed, shares>>
      BY DEF FirePass, chainVars
<1>6. LadderTypeOK'
      BY <1>1, <1>3, <1>4, <1>5 DEF LadderTypeOK, Admissible, Reaches
<1> QED BY <1>4, <1>5, <1>6 DEF LadderIInv

LEMMA LatePreflightKeeps ==
    ASSUME LadderIInv, NEW n \in live, LatePreflight(n) PROVE LadderIInv'
<1>1. n \in Nodes /\ LadderTypeOK
      BY DEF LadderIInv
<1>2. UNCHANGED <<live, mempool, confirmed, through, shares, sent>>
      BY DEF LatePreflight, chainVars
<1>3. /\ latch' \in [Nodes -> {0} \cup Admissible(Balance)]
      /\ floor' \in [Nodes -> Rungs]
  <2>1. CASE UNCHANGED <<latch, floor>>
        BY <2>1, <1>1 DEF LadderTypeOK
  <2>2. CASE \E target \in Targets, protected \in ProtectedSeen :
                 Preflight(n, target, protected)
        BY <2>2, <1>1, PreflightTypes
  <2> QED BY <2>1, <2>2 DEF LatePreflight
<1>4. LadderTypeOK'
      BY <1>1, <1>2, <1>3 DEF LadderTypeOK, Admissible, Reaches
<1> QED BY <1>2, <1>4, NothingReleased

LEMMA CombineSendsKeeps ==
    ASSUME LadderIInv, NEW n \in live, CombineSends(n) PROVE LadderIInv'
<1>1. n \in Nodes /\ LadderTypeOK
      BY DEF LadderIInv
<1>2. Rungs = 0 .. Top /\ Top \in Nat /\ Admissible(Balance) \subseteq Rungs
      BY LadderAssumption DEF Rungs, Admissible
<1>3. latch[n] \in Rungs
      BY <1>1, <1>2 DEF LadderTypeOK
<1>4. Complete(n) \subseteq 0 .. Top /\ Complete(n) # {}
      BY <1>2, <1>3 DEF Complete, CombineSends
<1>5. mempool' = Max(Complete(n))
      BY DEF CombineSends
<1>6. mempool' \in Rungs
      BY <1>2, <1>4, <1>5, MaxOfBounded
<1>7. UNCHANGED <<live, confirmed, latch, floor, through, shares, sent>>
      BY DEF CombineSends
<1>8. LadderTypeOK'
      BY <1>1, <1>6, <1>7 DEF LadderTypeOK, Admissible, Reaches
<1> QED BY <1>7, <1>8, NothingReleased

LEMMA DeliverKeeps ==
    ASSUME LadderIInv, NEW from \in live, NEW to \in live, NEW r \in Rungs,
           Deliver(from, to, r)
    PROVE  LadderIInv'
<1>1. from \in Nodes /\ to \in Nodes /\ LadderTypeOK
      BY DEF LadderIInv
<1>2. UNCHANGED <<live, mempool, confirmed, latch, floor, through, sent>>
      BY DEF Deliver, chainVars
<1>3. shares \in [Nodes -> [Rungs -> SUBSET Nodes]]
      BY <1>1 DEF LadderTypeOK
<1> DEFINE row == [shares[to] EXCEPT ![r] = @ \cup {from}]
<1>4. row \in [Rungs -> SUBSET Nodes]
      BY <1>1, <1>3
<1>5. shares' = [shares EXCEPT ![to] = row]
      BY DEF Deliver
<1> HIDE DEF row
<1>6. shares' \in [Nodes -> [Rungs -> SUBSET Nodes]]
      BY <1>3, <1>4, <1>5
<1>7. LadderTypeOK'
      BY <1>1, <1>2, <1>6 DEF LadderTypeOK, Admissible, Reaches
<1> QED BY <1>2, <1>7, NothingReleased

\* Every other step leaves the nodes alone, but for where a pass stands.
LEMMA RestKeeps ==
    ASSUME LadderIInv,
           \/ \E n \in live : \/ FirePassInadmissible(n) \/ CombineSettled(n)
                              \/ CombineWaits(n) \/ FirePassFails(n) \/ CombineFails(n)
           \/ NewAnchor \/ DepositConfirms \/ Mine \/ Reorg \/ Evict
           \/ UNCHANGED ladderVars
    PROVE  LadderIInv'
<1>1. LadderTypeOK /\ None \in Rungs \cup {None}
      BY DEF LadderIInv
<1>2. /\ UNCHANGED <<live, latch, floor, through, shares, sent>>
      /\ mempool' \in {mempool, confirmed, None}
      /\ confirmed' \in {mempool, confirmed, None}
  <2>1. CASE \E n \in live : \/ FirePassInadmissible(n) \/ CombineSettled(n)
                             \/ CombineWaits(n) \/ FirePassFails(n) \/ CombineFails(n)
        BY <2>1 DEF FirePassInadmissible, CombineSettled, CombineWaits, FirePassFails,
                    CombineFails, chainVars
  <2>2. CASE NewAnchor \/ DepositConfirms \/ Mine \/ Reorg \/ Evict
        BY <2>2 DEF NewAnchor, DepositConfirms, Mine, Reorg, Evict, nodeVars
  <2>3. CASE UNCHANGED ladderVars
        BY <2>3 DEF ladderVars, chainVars, nodeVars
  <2> QED BY <2>1, <2>2, <2>3
<1>3. LadderTypeOK'
      BY <1>1, <1>2 DEF LadderTypeOK, Admissible, Reaches
<1> QED BY <1>2, <1>3, NothingReleased

\* The inductive invariant of latch and release: types, and a release that starts at
\* the cheapest rung over the panic floor.
THEOREM LadderInductive == LadderSpec => []LadderIInv
<1>1. LadderInit => LadderIInv
      BY LadderInitial
<1>2. LadderIInv /\ [LadderNext]_ladderVars => LadderIInv'
  <2> SUFFICES ASSUME LadderIInv, [LadderNext]_ladderVars PROVE LadderIInv'
      OBVIOUS
  <2>1. CASE \E n \in live : FirePass(n)
        BY <2>1, FirePassKeeps
  <2>2. CASE \E n \in live : LatePreflight(n)
        BY <2>2, LatePreflightKeeps
  <2>3. CASE \E n \in live : CombineSends(n)
        BY <2>3, CombineSendsKeeps
  <2>4. CASE Delivery
        BY <2>4, DeliverKeeps DEF Delivery
  <2>5. CASE \/ \E n \in live : \/ FirePassInadmissible(n) \/ CombineSettled(n)
                                \/ CombineWaits(n) \/ FirePassFails(n) \/ CombineFails(n)
             \/ NewAnchor \/ DepositConfirms \/ Mine \/ Reorg \/ Evict
             \/ UNCHANGED ladderVars
        BY <2>5, RestKeeps
  <2> QED BY <2>1, <2>2, <2>3, <2>4, <2>5 DEF LadderNext, PassStep
<1> QED BY <1>1, <1>2, PTL DEF LadderSpec

\* LadderInv: any Threshold nodes that released shares (release_partials) released
\* those of a common rung, no share left for a rung under the panic floor, and a
\* latch is the base rung or one that sweep_rung_admissible passed.
THEOREM LadderInvHolds == LadderSpec => []LadderInv
<1>1. LadderIInv => LadderInv
  <2> SUFFICES ASSUME LadderIInv PROVE LadderInv
      OBVIOUS
  <2>1. CommonRung
    <3> SUFFICES ASSUME NEW Q \in SUBSET {n \in Nodes : sent[n] # {}},
                        Cardinality(Q) = Threshold
                 PROVE  \E r \in Rungs : \A n \in Q : r \in sent[n]
        BY DEF CommonRung
    <3>1. Q # {}
          BY FS_EmptySet, LadderAssumption
    <3>2. \A n \in Q : Cheapest \in sent[n] /\ sent[n] \subseteq Rungs
          BY DEF LadderIInv, ReleasedFromCheapest, LadderTypeOK
    <3> QED BY <3>1, <3>2
  <2> QED BY <2>1 DEF LadderInv, LadderIInv
<1> QED BY <1>1, LadderInductive, PTL

-----------------------------------------------------------------------------
(* VaultCache: the tree of blocks.  Branch is a recursion along Parent; it    *)
(* exists because the set of blocks that every parent-closed set with b has   *)
(* obeys the same equation, and it is what one expects because times rise.    *)

\* A set of blocks with the root and with every block whose parent it has is all blocks.
LEMMA BlockInduction ==
    ASSUME NEW T, Root \in T, \A b \in Blocks \ {Root} : Parent[b] \in T => b \in T
    PROVE  Blocks \subseteq T
<1> DEFINE R == OpToRel(<, Nat)
           U == {Time[b] : b \in Blocks \ T}
<1>1. IsWellFoundedOn(R, Nat)
      BY NatLessThanWellFounded
<1>2. \A x, y \in Nat : y < x => <<y, x>> \in R
      BY DEF OpToRel
<1> HIDE DEF R
<1> SUFFICES ASSUME Blocks \ T # {} PROVE FALSE
    OBVIOUS
<1>3. U \subseteq Nat /\ U # {}
      BY CacheAssumption
<1>4. PICK m \in U : \A y \in U : ~ (<<y, m>> \in R)
      BY <1>1, <1>3, WFMin
<1>5. PICK b \in Blocks \ T : Time[b] = m
      BY <1>4
<1>6. b \in Blocks \ {Root} /\ Parent[b] \in Blocks /\ Time[Parent[b]] < Time[b]
      /\ Time[b] \in Nat /\ Time[Parent[b]] \in Nat
      BY <1>5, CacheAssumption
<1>7. Time[Parent[b]] \notin U
      BY <1>2, <1>4, <1>5, <1>6
<1> QED BY <1>5, <1>6, <1>7

\* Branch obeys its recursion.
LEMMA BranchSteps ==
    /\ Branch[Root] = {Root}
    /\ \A b \in Blocks \ {Root} : Branch[b] = {b} \cup Branch[Parent[b]]
<1> DEFINE Unfold(f) == [b \in Blocks |-> {b} \cup (IF b = Root THEN {} ELSE f[Parent[b]])]
           Closed(A) == \A x \in A : x # Root => Parent[x] \in A
           Up(b) == {x \in Blocks :
                        \A A \in SUBSET Blocks : Closed(A) /\ b \in A => x \in A}
           g == [b \in Blocks |-> Up(b)]
<1>1. \A b \in Blocks : b \in Up(b) /\ Closed(Up(b)) /\ Up(b) \in SUBSET Blocks
      BY CacheAssumption
<1>2. Up(Root) = {Root}
  <2>1. {Root} \in SUBSET Blocks /\ Closed({Root})
        BY CacheAssumption
  <2>2. Up(Root) \subseteq {Root}
        BY <2>1
  <2>3. Root \in Up(Root)
        BY <1>1, CacheAssumption
  <2> QED BY <2>2, <2>3
<1>3. ASSUME NEW b \in Blocks, b # Root PROVE Up(b) = {b} \cup Up(Parent[b])
  <2>1. Parent[b] \in Blocks
        BY CacheAssumption
  <2> DEFINE A == {b} \cup Up(Parent[b])
  <2>2. A \in SUBSET Blocks /\ b \in A
        BY <1>1, <2>1
  <2>3. Closed(A)
        BY <1>1, <2>1
  <2>4. Up(b) \subseteq A
        BY <2>2, <2>3
  <2>5. A \subseteq Up(b)
        BY <1>1, <1>3, <2>1
  <2> QED BY <2>4, <2>5
<1>4. g = Unfold(g)
  <2>1. ASSUME NEW b \in Blocks
        PROVE  Up(b) = {b} \cup (IF b = Root THEN {} ELSE g[Parent[b]])
    <3>1. CASE b = Root
          BY <1>2, <3>1
    <3>2. CASE b # Root
      <4>1. Parent[b] \in Blocks
            BY CacheAssumption
      <4>2. g[Parent[b]] = Up(Parent[b])
            BY <4>1
      <4> HIDE DEF g, Up
      <4> QED BY <1>3, <3>2, <4>2
    <3> QED BY <3>1, <3>2
  <2> HIDE DEF Up
  <2> QED BY <2>1
<1>5. Branch = CHOOSE f : f = Unfold(f)
      BY DEF Branch
<1> HIDE DEF g, Unfold
<1>6. \E f : f = Unfold(f)
      BY <1>4
<1>7. Branch = Unfold(Branch)
      BY <1>5, <1>6
<1> USE DEF Unfold
<1>8. \A b \in Blocks : Branch[b] = {b} \cup (IF b = Root THEN {} ELSE Branch[Parent[b]])
      BY <1>7
<1> QED BY <1>8, CacheAssumption

\* A branch is a finite set of blocks that ends in its block, with rising times.
LEMMA BranchFacts ==
    \A b \in Blocks :
        /\ b \in Branch[b] /\ Branch[b] \subseteq Blocks /\ IsFiniteSet(Branch[b])
        /\ Root \in Branch[b]
        /\ \A x \in Branch[b] : /\ Time[x] <= Time[b]
                                /\ x # b => Time[x] < Time[b]
                                /\ Branch[x] \subseteq Branch[b]
<1> DEFINE P(b) ==
        /\ b \in Branch[b] /\ Branch[b] \subseteq Blocks
        /\ Root \in Branch[b]
        /\ \A x \in Branch[b] : /\ Time[x] <= Time[b]
                                /\ x # b => Time[x] < Time[b]
                                /\ Branch[x] \subseteq Branch[b]
           T == {b \in Blocks : P(b)}
<1>1. Root \in T
      BY BranchSteps, CacheAssumption
<1>2. ASSUME NEW b \in Blocks \ {Root}, Parent[b] \in T PROVE b \in T
  <2>1. Branch[b] = {b} \cup Branch[Parent[b]] /\ P(Parent[b])
        BY <1>2, BranchSteps
  <2>2. /\ Time[b] \in Nat /\ Time[Parent[b]] \in Nat /\ Time[Parent[b]] < Time[b]
        /\ \A x \in Branch[Parent[b]] : Time[x] \in Nat
        BY <2>1, CacheAssumption
  <2>3. \A x \in Branch[Parent[b]] : Time[x] < Time[b] /\ Branch[x] \subseteq Branch[b]
        BY <2>1, <2>2
  <2>4. \A x \in Branch[b] : /\ Time[x] <= Time[b]
                             /\ x # b => Time[x] < Time[b]
                             /\ Branch[x] \subseteq Branch[b]
        BY <2>1, <2>2, <2>3
  <2> QED BY <2>1, <2>4
<1>3. Blocks \subseteq T
      BY <1>1, <1>2, BlockInduction
<1>4. \A b \in Blocks : IsFiniteSet(Branch[b])
      BY <1>3, CacheAssumption, FS_Subset
<1> QED BY <1>3, <1>4

\* Heights count from 1 at the root.
LEMMA HeightSteps ==
    /\ Height[Root] = 1
    /\ \A b \in Blocks : Height[b] \in Nat
    /\ \A b \in Blocks \ {Root} : /\ Parent[b] \in Blocks
                                  /\ Height[b] = Height[Parent[b]] + 1
<1>1. \A b \in Blocks : Height[b] = Cardinality(Branch[b])
      BY DEF Height
<1>2. \A b \in Blocks : Height[b] \in Nat
      BY <1>1, BranchFacts, FS_CardinalityType
<1>3. Height[Root] = 1
      BY <1>1, BranchSteps, FS_Singleton, CacheAssumption
<1>4. ASSUME NEW b \in Blocks \ {Root} PROVE Height[b] = Height[Parent[b]] + 1
  <2>1. Parent[b] \in Blocks /\ Time[Parent[b]] < Time[b] /\ Time[Parent[b]] \in Nat
        /\ Time[b] \in Nat
        BY CacheAssumption
  <2>2. b \notin Branch[Parent[b]]
        BY <2>1, BranchFacts
  <2>3. Branch[b] = Branch[Parent[b]] \cup {b} /\ IsFiniteSet(Branch[Parent[b]])
        BY <2>1, BranchSteps, BranchFacts
  <2>4. Cardinality(Branch[b]) = Cardinality(Branch[Parent[b]]) + 1
        BY <2>2, <2>3, FS_AddElement
  <2> QED BY <1>1, <2>1, <2>4
<1> QED BY <1>2, <1>3, <1>4, CacheAssumption

\* A branch has one block of every height up to its own.
LEMMA BranchLine ==
    ASSUME NEW b \in Blocks
    PROVE  /\ Height[b] \in Nat /\ Height[b] >= 1
           /\ \A x \in Branch[b] : /\ Height[x] <= Height[b]
                                   /\ Height[x] = Height[b] => x = b
           /\ \A x, y \in Branch[b] : Height[x] <= Height[y] => x \in Branch[y]
           /\ \A h \in 1 .. Height[b] : \E x \in Branch[b] : Height[x] = h
<1> DEFINE P(a) ==
           /\ Height[a] \in Nat /\ Height[a] >= 1
           /\ \A x \in Branch[a] : /\ Height[x] <= Height[a]
                                   /\ Height[x] = Height[a] => x = a
           /\ \A x, y \in Branch[a] : Height[x] <= Height[y] => x \in Branch[y]
           /\ \A h \in 1 .. Height[a] : \E x \in Branch[a] : Height[x] = h
           T == {a \in Blocks : P(a)}
<1>1. Root \in T
      BY BranchSteps, HeightSteps, CacheAssumption
<1>2. ASSUME NEW a \in Blocks \ {Root}, Parent[a] \in T PROVE a \in T
  <2> DEFINE p == Parent[a]
  <2>1. Branch[a] = {a} \cup Branch[p] /\ Height[a] = Height[p] + 1 /\ P(p)
        BY <1>2, BranchSteps, HeightSteps
  <2>2. \A x \in Branch[a] : x \in Blocks /\ Height[x] \in Nat
        BY BranchFacts, HeightSteps
  <2>3. \A x \in Branch[p] : Height[x] < Height[a]
        BY <2>1, <2>2
  <2>4. \A x \in Branch[a] : /\ Height[x] <= Height[a]
                             /\ Height[x] = Height[a] => x = a
        BY <2>1, <2>2, <2>3
  <2>5. ASSUME NEW x \in Branch[a], NEW y \in Branch[a], Height[x] <= Height[y]
        PROVE  x \in Branch[y]
    <3>1. CASE y = a
          BY <3>1
    <3>2. CASE y # a
      <4>1. y \in Branch[p] /\ x # a
            BY <2>1, <2>2, <2>3, <2>5, <3>2
      <4> QED BY <2>1, <2>5, <4>1
    <3> QED BY <3>1, <3>2
  <2>6. ASSUME NEW h \in 1 .. Height[a] PROVE \E x \in Branch[a] : Height[x] = h
    <3>1. CASE h = Height[a]
          BY <3>1, BranchFacts
    <3>2. CASE h # Height[a]
      <4>1. h \in 1 .. Height[p]
            BY <2>1, <2>6, <3>2
      <4> QED BY <2>1, <4>1
    <3> QED BY <3>1, <3>2
  <2>7. Height[a] \in Nat /\ Height[a] >= 1
        BY <2>1
  <2>8. P(a)
        BY <2>4, <2>5, <2>6, <2>7
  <2> QED BY <2>8
<1>3. Blocks \subseteq T
      BY <1>1, <1>2, BlockInduction
<1> QED BY <1>3

-----------------------------------------------------------------------------
(* Outputs along a branch.                                                    *)

\* What a block's branch has confirmed, its descendants' branches have.
LEMMA BranchGrows ==
    ASSUME NEW b \in Blocks, NEW a \in Branch[b]
    PROVE  /\ a \in Blocks /\ TxsOf[a] \subseteq TxsOf[b]
           /\ Made[a] \subseteq Made[b] /\ Spent[a] \subseteq Spent[b]
<1>1. a \in Blocks /\ Branch[a] \subseteq Branch[b]
      BY BranchFacts
<1>2. TxsOf[a] \subseteq TxsOf[b]
      BY <1>1 DEF TxsOf
<1> QED BY <1>1, <1>2 DEF Made, Spent

\* What a branch confirms is transactions, and what it makes and spends is coins.
LEMMA CoinTypes ==
    ASSUME NEW b \in Blocks
    PROVE  /\ TxsOf[b] \subseteq Txs
           /\ Made[b] \subseteq Coins /\ Spent[b] \subseteq Coins
           /\ Unspent[b] \subseteq Coins
<1>1. \A x \in Branch[b] : Included[x] \subseteq Txs
      BY BranchFacts, CacheAssumption
<1>2. TxsOf[b] \subseteq Txs
      BY <1>1 DEF TxsOf
<1>3. Made[b] \subseteq Coins
      BY <1>2 DEF Made, Coins
<1>4. Spent[b] \subseteq Coins
      BY <1>2, CacheAssumption DEF Spent
<1> QED BY <1>2, <1>3, <1>4 DEF Unspent

\* A made output has one block on the branch that made it.
LEMMA MadeAtFacts ==
    ASSUME NEW b \in Blocks, NEW c \in Made[b]
    PROVE  /\ MadeAt(c, b) \in Branch[b]
           /\ c \in Made[MadeAt(c, b)]
           /\ \A a \in Branch[b] : c \in Made[a] => MadeAt(c, a) = MadeAt(c, b)
<1>1. CASE c \in RootCoins
  <2>1. Root \in Branch[b] /\ Root \in Blocks
        BY BranchFacts, CacheAssumption
  <2> QED BY <1>1, <2>1 DEF MadeAt, Made
<1>2. CASE c \notin RootCoins
  <2> DEFINE Makes(x) == \E tx \in Included[x] : c \in Creates[tx]
  <2>1. ASSUME NEW d \in Blocks, c \in Made[d]
        PROVE  MadeAt(c, d) \in Branch[d] /\ Makes(MadeAt(c, d))
    <3>1. PICK tx \in TxsOf[d] : c \in Creates[tx]
          BY <1>2, <2>1 DEF Made
    <3>2. PICK x \in Branch[d] : tx \in Included[x]
          BY <3>1 DEF TxsOf
    <3>3. \E y \in Branch[d] : Makes(y)
          BY <3>1, <3>2
    <3>4. MadeAt(c, d) = CHOOSE y \in Branch[d] : Makes(y)
          BY <1>2 DEF MadeAt
    <3> HIDE DEF Makes
    <3> QED BY <3>3, <3>4
  <2>2. ASSUME NEW x \in Branch[b], NEW y \in Branch[b], Makes(x), Makes(y) PROVE x = y
    <3>1. PICK s \in Included[x] : c \in Creates[s]
          BY <2>2
    <3>2. PICK t \in Included[y] : c \in Creates[t]
          BY <2>2
    <3>3. s \in Txs /\ t \in Txs
          BY <3>1, <3>2, BranchFacts, CacheAssumption
    <3>4. s = t
          BY <3>1, <3>2, <3>3, MadeOnce
    <3> QED BY <3>1, <3>2, <3>4, MadeOnce
  <2>3. MadeAt(c, b) \in Branch[b] /\ Makes(MadeAt(c, b))
        BY <2>1
  <2>4. MadeAt(c, b) \in Blocks
        BY <2>3, BranchFacts
  <2>5. MadeAt(c, b) \in Branch[MadeAt(c, b)]
        BY <2>4, BranchFacts
  <2>6. c \in Made[MadeAt(c, b)]
        BY <2>3, <2>4, <2>5 DEF Made, TxsOf
  <2>7. ASSUME NEW a \in Branch[b], c \in Made[a] PROVE MadeAt(c, a) = MadeAt(c, b)
    <3>1. a \in Blocks /\ Branch[a] \subseteq Branch[b]
          BY BranchFacts
    <3>2. MadeAt(c, a) \in Branch[a] /\ Makes(MadeAt(c, a))
          BY <2>1, <2>7, <3>1
    <3> HIDE DEF Makes
    <3> QED BY <2>2, <2>3, <3>1, <3>2
  <2> QED BY <2>3, <2>6, <2>7
<1> QED BY <1>1, <1>2

\* getblockhash by height names the one block of that height on the branch.
LEMMA AtFacts ==
    ASSUME NEW b \in Blocks, NEW h \in 1 .. Height[b]
    PROVE  /\ At(b, h) \in Branch[b] /\ At(b, h) \in Blocks /\ Height[At(b, h)] = h
           /\ \A x \in Branch[b] : h <= Height[x] => At(b, h) \in Branch[x]
           /\ \A x \in Branch[b] : h >= Height[x] => x \in Branch[At(b, h)]
<1>1. At(b, h) \in Branch[b] /\ Height[At(b, h)] = h
      BY BranchLine DEF At
<1> HIDE DEF At
<1> QED BY <1>1, BranchLine, BranchFacts

\* A birthday under which every output unspent at m, and all that m's descendants make,
\* is watched.
BirthdayOK(m, t) == Time[m] >= t /\ \A c \in Unspent[m] : Time[MadeAt(c, m)] >= t

\* The height a scan's wallet is imported from is on the scan's branch, at or below every
\* output the scan found.
LEMMA OldestFacts ==
    ASSUME NEW b \in Blocks
    PROVE  /\ OldestUnspent(b) \in 1 .. Height[b]
           /\ \A c \in Unspent[b] : OldestUnspent(b) <= Height[MadeAt(c, b)]
<1>1. Height[b] \in Nat /\ Height[b] >= 1
      BY BranchLine
<1>2. \A c \in Unspent[b] : MadeAt(c, b) \in Branch[b]
      BY MadeAtFacts DEF Unspent
<1>3. \A x \in Branch[b] : x \in Blocks /\ Height[x] \in 1 .. Height[b]
      BY BranchLine, BranchFacts
<1>4. CASE Unspent[b] = {}
      BY <1>1, <1>4 DEF OldestUnspent
<1>5. CASE Unspent[b] # {}
  <2> DEFINE S == {Height[MadeAt(c, b)] : c \in Unspent[b]}
  <2>1. S \subseteq 1 .. Height[b] /\ S # {}
        BY <1>2, <1>3, <1>5
  <2>2. S \subseteq Nat
        BY <2>1
  <2>3. Min(S) \in S /\ \A y \in S : Min(S) <= y
        BY <2>1, <2>2, MinOfNaturals
  <2>4. OldestUnspent(b) = Min(S)
        BY <1>5 DEF OldestUnspent
  <2> HIDE DEF Min
  <2>5. OldestUnspent(b) \in 1 .. Height[b]
        BY <2>1, <2>3, <2>4
  <2> QED BY <2>3, <2>4, <2>5
<1> QED BY <1>4, <1>5

\* The time at that height is such a birthday as long as the scan's block is active.
LEMMA ScanBirthday ==
    ASSUME NEW t \in Blocks, NEW b \in Blocks, Height[b] <= Height[t]
    PROVE  /\ Time[At(t, OldestUnspent(b))] \in Nat
           /\ b \in Branch[t] => BirthdayOK(b, Time[At(t, OldestUnspent(b))])
<1> DEFINE h == OldestUnspent(b)
           x == At(t, h)
<1>1. h \in 1 .. Height[b] /\ \A c \in Unspent[b] : h <= Height[MadeAt(c, b)]
      BY OldestFacts
<1>2. Height[b] \in Nat /\ Height[t] \in Nat
      BY BranchLine
<1>3. h \in 1 .. Height[t]
      BY <1>1, <1>2
<1> HIDE DEF h
<1>4. /\ x \in Branch[t] /\ x \in Blocks
      /\ \A y \in Branch[t] : h <= Height[y] => x \in Branch[y]
      BY <1>3, AtFacts
<1> HIDE DEF x
<1>5. \A y \in Branch[t] : h <= Height[y] => Time[x] <= Time[y]
      BY <1>4, BranchFacts
<1>6. Time[x] \in Nat
      BY <1>4, CacheAssumption
<1>7. ASSUME b \in Branch[t] PROVE BirthdayOK(b, Time[x])
  <2>1. Time[b] \in Nat /\ h <= Height[b]
        BY <1>1, <1>2, CacheAssumption
  <2>2. Time[b] >= Time[x]
        BY <1>5, <1>6, <1>7, <2>1
  <2>3. ASSUME NEW c \in Unspent[b] PROVE Time[MadeAt(c, b)] >= Time[x]
    <3>1. MadeAt(c, b) \in Branch[b]
          BY MadeAtFacts DEF Unspent
    <3>2. MadeAt(c, b) \in Branch[t] /\ MadeAt(c, b) \in Blocks
          BY <1>7, <3>1, BranchFacts
    <3>3. Time[MadeAt(c, b)] \in Nat
          BY <3>2, CacheAssumption
    <3> QED BY <1>1, <1>5, <1>6, <3>2, <3>3
  <2> QED BY <2>2, <2>3 DEF BirthdayOK
<1> QED BY <1>6, <1>7 DEF x, h

\* A wallet of such a birthday watches every output unspent at a descendant.
LEMMA WatchesAll ==
    ASSUME NEW b \in Blocks, NEW m \in Branch[b], NEW t \in Nat, BirthdayOK(m, t)
    PROVE  Unspent[b] \subseteq WatchedOn(b, t)
<1>1. m \in Blocks /\ Made[m] \subseteq Made[b] /\ Spent[m] \subseteq Spent[b]
      BY BranchGrows
<1>2. SUFFICES ASSUME NEW c \in Unspent[b] PROVE Time[MadeAt(c, b)] >= t
      BY DEF WatchedOn, Unspent
<1>3. c \in Made[b] /\ c \notin Spent[b]
      BY <1>2 DEF Unspent
<1> DEFINE x == MadeAt(c, b)
<1>4. /\ x \in Branch[b] /\ c \in Made[x]
      /\ \A a \in Branch[b] : c \in Made[a] => MadeAt(c, a) = x
      BY <1>3, MadeAtFacts
<1> HIDE DEF x
<1>5. x \in Blocks /\ Time[x] \in Nat /\ Time[m] \in Nat
      BY <1>1, <1>4, BranchFacts, CacheAssumption
<1>6. CASE c \in Made[m]
  <2>1. c \in Unspent[m] /\ MadeAt(c, m) = x
        BY <1>1, <1>3, <1>4, <1>6 DEF Unspent
  <2> QED BY <2>1 DEF BirthdayOK, x
<1>7. CASE c \notin Made[m]
  <2>1. ~ x \in Branch[m]
        BY <1>1, <1>4, <1>7, BranchGrows
  <2>2. ~ Height[x] <= Height[m]
        BY <1>4, <2>1, BranchLine
  <2>3. Height[x] \in Nat /\ Height[m] \in Nat
        BY <1>1, <1>5, BranchLine
  <2>4. m \in Branch[x]
        BY <1>4, <2>2, <2>3, BranchLine
  <2>5. Time[m] <= Time[x]
        BY <1>5, <2>4, BranchFacts
  <2> QED BY <1>5, <2>5 DEF BirthdayOK, x
<1> QED BY <1>6, <1>7

\* advance_confirmed_scan: a covering cache and the transactions of the blocks above it
\* cover the block the walk ends on.
LEMMA DeltaCovers ==
    ASSUME NEW b \in Blocks, NEW a \in Branch[b], NEW found, Unspent[a] \subseteq found
    PROVE  \A c \in Unspent[b] :
               /\ c \in found \/ \E t \in TxsOf[b] \ TxsOf[a] : c \in Creates[t]
               /\ \A t \in TxsOf[b] \ TxsOf[a] : c \notin Spends[t]
<1>1. a \in Blocks /\ TxsOf[a] \subseteq TxsOf[b] /\ Spent[a] \subseteq Spent[b]
      BY BranchGrows
<1>2. ASSUME NEW c \in Unspent[b]
      PROVE  /\ c \in found \/ \E t \in TxsOf[b] \ TxsOf[a] : c \in Creates[t]
             /\ \A t \in TxsOf[b] \ TxsOf[a] : c \notin Spends[t]
  <2>1. c \in Made[b] /\ c \notin Spent[b]
        BY DEF Unspent
  <2>2. \A t \in TxsOf[b] : c \notin Spends[t]
        BY <2>1 DEF Spent
  <2>3. CASE c \in Made[a]
        BY <1>1, <2>1, <2>2, <2>3 DEF Unspent
  <2>4. CASE c \notin Made[a]
    <3>1. PICK t \in TxsOf[b] : c \in Creates[t]
          BY <1>1, <2>1, <2>4 DEF Made
    <3>2. t \notin TxsOf[a]
          BY <1>1, <2>4, <3>1 DEF Made
    <3> QED BY <2>2, <3>1, <3>2
  <2> QED BY <2>3, <2>4
<1> QED BY <1>2

-----------------------------------------------------------------------------
(* The inductive invariant of the cache.                                      *)

Anchors == Blocks \cup {NoBlock}
CacheRecord == [block : Anchors, candidates : SUBSET Coins]
WalletRecord == [birthday : Nat, markers : SUBSET Blocks, at : Blocks, seen : SUBSET Txs]

\* The phases of a wallet read, and those that have opened the wallet.
Opened == {"best", "list", "since", "check", "confirm", "held"}
WalletPhases == {"wallet"} \cup Opened

RefreshPcs == WalletPhases \cup {"idle", "base", "delta", "walk", "cold", "scanned"}
SeedPcs == {"idle", "ensure", "pending", "birthday", "anchor", "import", "mark", "verify"}
ReadPcs == {"idle", "again", "done", "tip", "cache", "confirmed", "authorized", "check"}

CoreTypes ==
    /\ tip \in Blocks /\ reorgs \in 0 .. MaxReorgs
    /\ pool \subseteq Txs /\ sequence \in Nat
    /\ wallet \in WalletRecord

BackendTypes ==
    /\ handle \in Anchors
    /\ latched \in BOOLEAN
    /\ importing = (seed.pc # "idle")
    /\ cache \in CacheRecord

RefreshTypes ==
    refresh \in [pc : RefreshPcs, cached : CacheRecord, repair : BOOLEAN, started : BOOLEAN,
                 attempt : 0 .. 1, best : Anchors, block : Anchors,
                 candidates : SUBSET Coins, through : Nat]

SeedTypes ==
    seed \in [pc : SeedPcs, block : Anchors, oldest : Nat, birthday : Nat,
              via : {"none", "create", "repair", "reimport"}]

ReadTypes ==
    read \in [pc : ReadPcs, attempt : 0 .. 1, resident : SUBSET Txs, sequence : Nat,
              tip : Anchors, candidates : SUBSET Coins, found : SUBSET Coins]

\* A block that was once the tip is the tip, or lower: heights of tips only rise.
WasTip(b) == b \in Blocks /\ (b = tip \/ Height[b] < Height[tip])

\* A block that left the chain after the last reorg does not come back, and one that
\* was active is active or gone for good.
Gone(b) == reorgs >= MaxReorgs /\ ~ Active(b) /\ Height[b] <= Height[tip]
Standing(b) == b \in Blocks /\ (Active(b) \/ Gone(b))

CoversAt(b, found) == b # NoBlock => Unspent[b] \subseteq found

\* The wallet is at a block that was a tip, and every marker's outputs are younger than
\* its birthday; the handle is a marker.
WalletOK ==
    /\ WasTip(wallet.at)
    /\ \A m \in wallet.markers : BirthdayOK(m, wallet.birthday)
    /\ handle # NoBlock => handle \in wallet.markers

\* What the wallet has been asked so far, if the tip has not moved.
WatchedUnspent == Unspent[tip] \cap WatchedOn(tip, wallet.birthday)
ListedOK ==
    /\ wallet.at = tip
    /\ WatchedUnspent \subseteq
           refresh.candidates \cup UNION {Spends[t] : t \in wallet.seen}
SinceOK == refresh.block = tip /\ WatchedUnspent \subseteq refresh.candidates

RefreshOK ==
    /\ CoversAt(refresh.cached.block, refresh.cached.candidates)
    /\ refresh.pc \in WalletPhases => seed.pc = "idle"
    /\ refresh.pc = "wallet" /\ handle # NoBlock => Standing(handle)
    /\ refresh.pc \in Opened => Standing(handle)
    /\ refresh.pc \in {"list", "since", "check"} => WasTip(refresh.best)
    /\ refresh.pc = "since" /\ refresh.best = tip => ListedOK
    /\ refresh.pc = "check" /\ refresh.best = tip => SinceOK
    /\ refresh.pc \in {"confirm", "held"} =>
           refresh.block \in Blocks
           /\ (Gone(handle) \/ Unspent[refresh.block] \subseteq refresh.candidates)
    /\ refresh.pc \in {"delta", "walk"} => refresh.cached.block \in Blocks
    /\ refresh.pc = "walk" => /\ Height[refresh.cached.block] < refresh.through
                              /\ refresh.through <= Height[tip]
    /\ refresh.pc = "scanned" => /\ refresh.block \in Blocks
                                 /\ refresh.candidates = Unspent[refresh.block]

SeedOK ==
    /\ seed.pc # "idle" => /\ Standing(seed.block)
                           /\ seed.oldest = OldestUnspent(seed.block)
    /\ seed.pc = "anchor" => Gone(seed.block) \/ BirthdayOK(seed.block, seed.birthday)
    /\ seed.pc \in {"import", "mark"} => BirthdayOK(seed.block, seed.birthday)
    /\ seed.pc = "mark" => wallet.birthday <= seed.birthday
    /\ seed.pc = "verify" => seed.block \in wallet.markers

\* The reader: nothing has left the mempool for anything but a block since the snapshot
\* if the sequence is the same, and what it has found so far is exact if the tip is too.
SeenTip == {"cache", "confirmed", "authorized", "check"}
ReadOK ==
    /\ read.pc \in {"tip"} \cup SeenTip =>
           /\ read.sequence <= sequence
           /\ read.sequence = sequence => pool \subseteq read.resident
    /\ read.pc \in SeenTip => WasTip(read.tip)
    /\ read.pc = "confirmed" => Unspent[read.tip] \subseteq read.candidates
    /\ read.pc = "authorized" /\ StableRead => read.found = Unspent[tip] \ Hidden
    /\ read.pc = "check" /\ StableRead => read.found = Protected

CacheTypes == CoreTypes /\ BackendTypes /\ RefreshTypes /\ SeedTypes /\ ReadTypes
CacheIInv == CacheTypes /\ CacheCovers /\ WalletOK /\ RefreshOK /\ SeedOK /\ ReadOK

-----------------------------------------------------------------------------
(* What the steps leave alone.                                                *)

LEMMA ReadStays ==
    ASSUME ReadOK, UNCHANGED <<tip, pool, sequence, read>> PROVE ReadOK'
BY DEF ReadOK, SeenTip, WasTip, StableRead, Hidden, Protected

LEMMA SeedStays ==
    ASSUME SeedOK, UNCHANGED <<tip, reorgs, wallet, seed>> PROVE SeedOK'
BY DEF SeedOK, Standing, Gone, Active

LEMMA WalletStays ==
    ASSUME WalletOK, UNCHANGED <<tip, wallet>>,
           handle' = handle \/ handle' = NoBlock \/ handle' \in wallet.markers
    PROVE  WalletOK'
BY DEF WalletOK, WasTip

LEMMA RefreshStays ==
    ASSUME RefreshOK, UNCHANGED <<tip, reorgs, wallet, refresh>>,
           refresh.pc \in WalletPhases => handle' = handle /\ seed'.pc = "idle"
    PROVE  RefreshOK'
<1>1. \A b : Active(b)' = Active(b) /\ Gone(b)' = Gone(b) /\ WasTip(b)' = WasTip(b)
             /\ Standing(b)' = Standing(b)
      BY DEF Active, Gone, WasTip, Standing
<1>2. ListedOK' = ListedOK /\ SinceOK' = SinceOK
      BY DEF ListedOK, SinceOK, WatchedUnspent
<1>3. CASE refresh.pc \in WalletPhases
      BY <1>1, <1>2, <1>3 DEF RefreshOK
<1>4. CASE refresh.pc \notin WalletPhases
      BY <1>1, <1>2, <1>4 DEF RefreshOK, WalletPhases, Opened
<1> QED BY <1>3, <1>4

\* A refresher that is not reading the wallet, and is not in the middle of a delta or a
\* scan, owes nothing but its cached copy.
LEMMA RefreshRests ==
    ASSUME refresh'.pc \in {"idle", "base", "cold"},
           CoversAt(refresh'.cached.block, refresh'.cached.candidates)
    PROVE  RefreshOK'
BY DEF RefreshOK, WalletPhases, Opened, CoversAt

LEMMA NoPassFacts ==
    /\ NoPass.pc = "idle" /\ NoPass.cached = NoCache
    /\ NoPass.cached.block = NoBlock /\ NoPass.cached.candidates = {}
    /\ NoCache \in CacheRecord
    /\ NoPass \in [pc : RefreshPcs, cached : CacheRecord, repair : BOOLEAN,
                   started : BOOLEAN, attempt : 0 .. 1, best : Anchors, block : Anchors,
                   candidates : SUBSET Coins, through : Nat]
BY DEF NoPass, NoCache, CacheRecord, Anchors, RefreshPcs

LEMMA RefreshEndsOK ==
    ASSUME RefreshEnds PROVE RefreshOK' /\ RefreshTypes'
<1>1. refresh' = NoPass
      BY DEF RefreshEnds
<1>2. RefreshTypes'
      BY <1>1, NoPassFacts DEF RefreshTypes
<1>3. CoversAt(refresh'.cached.block, refresh'.cached.candidates)
      BY <1>1, NoPassFacts DEF CoversAt
<1> QED BY <1>1, <1>2, <1>3, NoPassFacts, RefreshRests

\* The pass falls back.
LEMMA WalletErrOK ==
    ASSUME CacheIInv, WalletErr, UNCHANGED <<coreVars, seed>>
    PROVE  RefreshOK' /\ RefreshTypes' /\ WalletOK' /\ handle' \in Anchors
<1>1. handle' = NoBlock /\ refresh' = [refresh EXCEPT !.pc = "base"]
      BY DEF WalletErr, Refreshing
<1>2. refresh'.pc = "base" /\ refresh'.cached = refresh.cached /\ RefreshTypes'
      BY <1>1 DEF CacheIInv, CacheTypes, RefreshTypes, RefreshPcs
<1>3. CoversAt(refresh'.cached.block, refresh'.cached.candidates)
      BY <1>2 DEF CacheIInv, RefreshOK
<1>4. RefreshOK'
      BY <1>2, <1>3, RefreshRests
<1>5. WalletOK'
      BY <1>1, WalletStays DEF CacheIInv, coreVars
<1> QED BY <1>1, <1>2, <1>4, <1>5 DEF Anchors

\* The step of a refresher that leaves Core, the seed thread and the reader alone.
LEMMA RefresherFrame ==
    ASSUME CacheIInv, UNCHANGED <<coreVars, importing, seed, read>>,
           latched' \in BOOLEAN, handle' \in Anchors, cache' \in CacheRecord,
           RefreshTypes', RefreshOK', WalletOK',
           CoversAt(cache'.block, cache'.candidates)
    PROVE  CacheIInv'
<1>1. ReadOK' /\ SeedOK'
      BY ReadStays, SeedStays DEF CacheIInv, coreVars
<1>2. CoreTypes' /\ SeedTypes' /\ ReadTypes'
      BY DEF CacheIInv, CacheTypes, CoreTypes, WalletRecord, SeedTypes, ReadTypes,
             coreVars
<1>3. BackendTypes'
      BY DEF CacheIInv, CacheTypes, BackendTypes
<1>4. CacheCovers'
      BY DEF CacheCovers, CoversAt
<1> QED BY <1>1, <1>2, <1>3, <1>4 DEF CacheIInv, CacheTypes

\* One where the cache and the latch stay too.
LEMMA ReaderFrame ==
    ASSUME CacheIInv, UNCHANGED <<coreVars, latched, importing, cache, seed, read>>,
           handle' \in Anchors, RefreshTypes', RefreshOK', WalletOK'
    PROVE  CacheIInv'
<1>1. latched' \in BOOLEAN /\ cache' \in CacheRecord
      BY DEF CacheIInv, CacheTypes, BackendTypes
<1>2. CoversAt(cache'.block, cache'.candidates)
      BY DEF CacheIInv, CacheCovers, CoversAt
<1> QED BY <1>1, <1>2, RefresherFrame

-----------------------------------------------------------------------------
(* The refresher's steps.                                                     *)

LEMMA StartRefreshOK == ASSUME CacheIInv, StartRefresh PROVE CacheIInv'
<1> DEFINE fix == latched \/ (handle # NoBlock /\ ~ Active(handle))
           pc == IF fix \/ importing THEN "base" ELSE "wallet"
<1>1. /\ latched' = fix
      /\ refresh' = [NoPass EXCEPT !.pc = pc, !.cached = cache, !.repair = fix,
                                   !.started = importing]
      /\ UNCHANGED <<coreVars, mishaps, handle, importing, cache, seed, read>>
      BY DEF StartRefresh
<1>2. /\ fix \in BOOLEAN /\ importing \in BOOLEAN
      /\ cache \in CacheRecord /\ handle \in Anchors
      BY DEF CacheIInv, CacheTypes, BackendTypes
<1>3. refresh'.pc = pc /\ refresh'.cached = cache
      BY <1>1, NoPassFacts
<1>4. RefreshTypes'
      BY <1>1, <1>2, NoPassFacts DEF RefreshTypes, RefreshPcs, WalletPhases
<1>5. CoversAt(cache.block, cache.candidates)
      BY DEF CacheIInv, CacheCovers, CoversAt
<1>6. WalletOK'
      BY <1>1, WalletStays DEF CacheIInv, coreVars
<1>7. RefreshOK'
  <2>1. CASE pc = "base"
        BY <1>3, <1>5, <2>1, RefreshRests
  <2>2. CASE pc = "wallet"
    <3>1. ~ importing /\ (handle # NoBlock => Active(handle))
          BY <2>2
    <3>2. seed'.pc = "idle"
          BY <1>1, <3>1 DEF CacheIInv, CacheTypes, BackendTypes
    <3>3. handle' # NoBlock => Standing(handle)'
          BY <1>1, <1>2, <3>1 DEF Standing, Active, Anchors, coreVars
    <3> QED BY <1>3, <1>5, <2>2, <3>2, <3>3 DEF RefreshOK, WalletPhases, Opened
  <2> QED BY <2>1, <2>2
<1> QED BY <1>1, <1>2, <1>4, <1>5, <1>6, <1>7, RefresherFrame

\* A step of the read that goes on to a phase which owes no more than the open handle.
LEMMA PhaseOK ==
    ASSUME CacheIInv, refresh.pc \in WalletPhases, UNCHANGED <<coreVars, seed>>,
           refresh'.pc = "best", refresh'.cached = refresh.cached, Standing(handle')
    PROVE  RefreshOK'
<1>1. Standing(handle)'
      BY DEF Standing, Gone, Active, coreVars
<1>2. seed'.pc = "idle" /\ CoversAt(refresh'.cached.block, refresh'.cached.candidates)
      BY DEF CacheIInv, RefreshOK
<1> QED BY <1>1, <1>2 DEF RefreshOK, WalletPhases, Opened, CoversAt

LEMMA OpenWalletOK == ASSUME CacheIInv, OpenWallet PROVE CacheIInv'
<1>1. /\ refresh.pc = "wallet" /\ refresh.pc \in WalletPhases
      /\ UNCHANGED <<coreVars, mishaps, latched, importing, cache, seed, read>>
      BY DEF OpenWallet, WalletPhases
<1>2. RefreshTypes /\ handle \in Anchors /\ wallet.markers \subseteq Blocks
      BY DEF CacheIInv, CacheTypes, BackendTypes, CoreTypes, WalletRecord
<1>3. ASSUME refresh' = [refresh EXCEPT !.pc = "best"], Standing(handle'),
             handle' = handle \/ handle' \in wallet.markers, handle' \in Anchors
      PROVE  CacheIInv'
  <2>1. refresh'.pc = "best" /\ refresh'.cached = refresh.cached /\ RefreshTypes'
        BY <1>2, <1>3 DEF RefreshTypes, RefreshPcs, WalletPhases, Opened
  <2>2. RefreshOK'
        BY <1>1, <1>3, <2>1, PhaseOK
  <2>3. WalletOK'
        BY <1>1, <1>3, WalletStays DEF CacheIInv, coreVars
  <2> QED BY <1>1, <1>3, <2>1, <2>2, <2>3, ReaderFrame
<1>4. CASE handle # NoBlock /\ Refreshing("best") /\ UNCHANGED handle
  <2>1. Standing(handle)
        BY <1>1, <1>4 DEF CacheIInv, RefreshOK
  <2> QED BY <1>2, <1>3, <1>4, <2>1 DEF Refreshing
<1>5. CASE \E m \in wallet.markers : Active(m) /\ handle' = m /\ Refreshing("best")
      BY <1>2, <1>3, <1>5 DEF Refreshing, Standing, Anchors
<1>6. CASE WalletErr
      BY <1>1, <1>6, WalletErrOK, ReaderFrame
<1> QED BY <1>4, <1>5, <1>6 DEF OpenWallet

LEMMA ReadBestOK == ASSUME CacheIInv, ReadBest PROVE CacheIInv'
<1>1. /\ refresh.pc = "best"
      /\ refresh' = [refresh EXCEPT !.pc = "list", !.best = tip]
      /\ UNCHANGED <<coreVars, latched, importing, cache, seed, read, handle>>
      BY DEF ReadBest, backendVars
<1>2. RefreshTypes /\ handle \in Anchors /\ tip \in Blocks
      BY DEF CacheIInv, CacheTypes, BackendTypes, CoreTypes, WalletRecord
<1>3. /\ refresh'.pc = "list" /\ refresh'.cached = refresh.cached /\ RefreshTypes'
      /\ refresh'.best = tip
      BY <1>1, <1>2 DEF RefreshTypes, RefreshPcs, WalletPhases, Opened, Anchors
<1>4. WalletOK'
      BY <1>1, WalletStays DEF CacheIInv, coreVars
<1>5. Standing(handle)'
      BY <1>1 DEF CacheIInv, RefreshOK, Opened, Standing, Gone, Active, coreVars
<1>6. WasTip(refresh.best)'
      BY <1>1, <1>2, <1>3 DEF WasTip, coreVars
<1>7. seed'.pc = "idle" /\ CoversAt(refresh'.cached.block, refresh'.cached.candidates)
      BY <1>1, <1>3 DEF CacheIInv, RefreshOK, WalletPhases, Opened
<1>8. RefreshOK'
      BY <1>3, <1>5, <1>6, <1>7 DEF RefreshOK, WalletPhases, Opened
<1> QED BY <1>1, <1>2, <1>3, <1>4, <1>8, ReaderFrame

\* A wallet that has caught up with the block that is still the tip is at the tip.
LEMMA CaughtUpIsTip ==
    ASSUME CacheIInv, CaughtUp, refresh.best = tip
    PROVE  wallet.at = tip
<1>1. tip \in Blocks /\ WasTip(wallet.at)
      BY DEF CacheIInv, CacheTypes, CoreTypes, WalletRecord, WalletOK
<1>2. Height[wallet.at] \in Nat /\ Height[tip] \in Nat
      BY <1>1, BranchLine DEF WasTip
<1> QED BY <1>1, <1>2 DEF WasTip, CaughtUp

LEMMA ListUnspentOK == ASSUME CacheIInv, ListUnspent PROVE CacheIInv'
<1>1. /\ refresh.pc = "list" /\ CaughtUp
      /\ refresh' = [refresh EXCEPT !.pc = "since",
                                    !.candidates = Listed \cup refresh.cached.candidates]
      /\ UNCHANGED <<coreVars, latched, importing, cache, seed, read, handle>>
      BY DEF ListUnspent, backendVars
<1>2. /\ RefreshTypes /\ handle \in Anchors /\ tip \in Blocks /\ wallet.at \in Blocks
      /\ refresh.cached.candidates \subseteq Coins
      BY DEF CacheIInv, CacheTypes, BackendTypes, CoreTypes, WalletRecord,
             RefreshTypes, CacheRecord
<1>3. Listed \subseteq Coins
      BY <1>2, CoinTypes DEF Listed
<1>4. /\ refresh'.pc = "since" /\ refresh'.cached = refresh.cached
      /\ refresh'.best = refresh.best
      /\ refresh'.candidates = Listed \cup refresh.cached.candidates
      BY <1>1, <1>2 DEF RefreshTypes
<1>5. RefreshTypes'
      BY <1>1, <1>2, <1>3 DEF RefreshTypes, RefreshPcs, WalletPhases, Opened
<1>6. WalletOK'
      BY <1>1, WalletStays DEF CacheIInv, coreVars
<1>7. Standing(handle)' /\ WasTip(refresh.best)'
      BY <1>1, <1>4 DEF CacheIInv, RefreshOK, Opened, Standing, Gone, Active, WasTip,
                        coreVars
<1>8. seed'.pc = "idle" /\ CoversAt(refresh'.cached.block, refresh'.cached.candidates)
      BY <1>1, <1>4 DEF CacheIInv, RefreshOK, WalletPhases, Opened
<1>9. ASSUME refresh'.best = tip' PROVE ListedOK'
  <2>1. wallet.at = tip /\ wallet' = wallet /\ tip' = tip
        BY <1>1, <1>4, <1>9, CaughtUpIsTip DEF coreVars
  <2>2. ASSUME NEW c \in Unspent[tip] \cap WatchedOn(tip, wallet.birthday)
        PROVE  c \in Listed \cup UNION {Spends[t] : t \in wallet.seen}
        BY <2>1 DEF Listed, Watched
  <2>3. (WatchedUnspent \subseteq
             refresh.candidates \cup UNION {Spends[t] : t \in wallet.seen})'
        BY <1>4, <2>1, <2>2 DEF WatchedUnspent
  <2> QED BY <2>1, <2>3 DEF ListedOK
<1>10. RefreshOK'
       BY <1>4, <1>7, <1>8, <1>9 DEF RefreshOK, WalletPhases, Opened
<1> QED BY <1>1, <1>2, <1>5, <1>6, <1>10, ReaderFrame

\* Reconciled adds what an unconfirmed debit hides and drops only what the branch spent.
LEMMA ReconciledFacts ==
    ASSUME CacheIInv, NEW found, found \subseteq Coins
    PROVE  /\ Reconciled(found) \subseteq Coins
           /\ \A c \in Unspent[wallet.at] :
                  c \in found \cup UNION {Spends[t] : t \in wallet.seen} =>
                      c \in Reconciled(found)
<1>1. wallet.at \in Blocks /\ wallet.seen \subseteq Txs
      BY DEF CacheIInv, CacheTypes, CoreTypes, WalletRecord
<1>2. Watched \subseteq Coins
      BY <1>1, CoinTypes DEF Watched, WatchedOn
<1>3. PendingInputs \subseteq Coins
      BY <1>1, CacheAssumption DEF PendingInputs
<1>4. Debited \subseteq Spent[wallet.at]
  <2>1. Recent \subseteq Branch[wallet.at]
        BY DEF Recent
  <2>2. UNION {Included[b] : b \in Recent} \subseteq TxsOf[wallet.at]
        BY <1>1, <2>1 DEF TxsOf
  <2> QED BY <1>1, <2>2 DEF Debited, Spent
<1>5. Reconciled(found) \subseteq Coins
      BY <1>2, <1>3 DEF Reconciled, Credits
<1>6. ASSUME NEW c \in Unspent[wallet.at],
             c \in found \cup UNION {Spends[t] : t \in wallet.seen}
      PROVE  c \in Reconciled(found)
  <2>1. c \notin Spent[wallet.at]
        BY <1>1 DEF Unspent
  <2>2. \A t \in wallet.seen : c \in Spends[t] => t \notin TxsOf[wallet.at]
        BY <1>1, <2>1 DEF Spent
  <2>3. c \in found \cup PendingInputs
        BY <1>6, <2>2 DEF PendingInputs
  <2> QED BY <1>4, <2>1, <2>3 DEF Reconciled
<1> QED BY <1>5, <1>6

LEMMA ListSinceBlockOK == ASSUME CacheIInv, ListSinceBlock PROVE CacheIInv'
<1>1. /\ refresh.pc = "since" /\ CaughtUp
      /\ refresh' = [refresh EXCEPT !.pc = "check", !.block = wallet.at,
                                    !.candidates = Reconciled(refresh.candidates)]
      /\ UNCHANGED <<coreVars, latched, importing, cache, seed, read, handle>>
      BY DEF ListSinceBlock, backendVars
<1>2. /\ RefreshTypes /\ handle \in Anchors /\ tip \in Blocks /\ wallet.at \in Blocks
      /\ refresh.candidates \subseteq Coins
      BY DEF CacheIInv, CacheTypes, BackendTypes, CoreTypes, WalletRecord, RefreshTypes
<1>3. Reconciled(refresh.candidates) \subseteq Coins
      BY <1>2, ReconciledFacts
<1>4. /\ refresh'.pc = "check" /\ refresh'.cached = refresh.cached
      /\ refresh'.best = refresh.best /\ refresh'.block = wallet.at
      /\ refresh'.candidates = Reconciled(refresh.candidates)
      BY <1>1, <1>2 DEF RefreshTypes
<1>5. RefreshTypes'
      BY <1>1, <1>2, <1>3 DEF RefreshTypes, RefreshPcs, WalletPhases, Opened, Anchors
<1>6. WalletOK'
      BY <1>1, WalletStays DEF CacheIInv, coreVars
<1>7. Standing(handle)' /\ WasTip(refresh.best)'
      BY <1>1, <1>4 DEF CacheIInv, RefreshOK, Opened, Standing, Gone, Active, WasTip,
                        coreVars
<1>8. seed'.pc = "idle" /\ CoversAt(refresh'.cached.block, refresh'.cached.candidates)
      BY <1>1, <1>4 DEF CacheIInv, RefreshOK, WalletPhases, Opened
<1>9. ASSUME refresh'.best = tip' PROVE SinceOK'
  <2>1. wallet' = wallet /\ tip' = tip /\ ListedOK
        BY <1>1, <1>4, <1>9 DEF coreVars, CacheIInv, RefreshOK
  <2>2. \A c \in Unspent[tip] \cap WatchedOn(tip, wallet.birthday) :
            c \in Reconciled(refresh.candidates)
        BY <1>2, <2>1, ReconciledFacts DEF ListedOK, WatchedUnspent
  <2>3. wallet.at = tip
        BY <2>1 DEF ListedOK
  <2> QED BY <1>4, <2>1, <2>2, <2>3 DEF SinceOK, WatchedUnspent
<1>10. RefreshOK'
       BY <1>4, <1>7, <1>8, <1>9 DEF RefreshOK, WalletPhases, Opened
<1> QED BY <1>1, <1>2, <1>5, <1>6, <1>10, ReaderFrame

\* The bracket holds: the answer covers the tip, or the anchor has left it for good.
LEMMA BracketCovers ==
    ASSUME CacheIInv, refresh.pc = "check", tip = refresh.best
    PROVE  /\ refresh.block = tip
           /\ Gone(handle) \/ Unspent[tip] \subseteq refresh.candidates
<1>1. Standing(handle) /\ SinceOK
      BY DEF CacheIInv, RefreshOK, Opened
<1>2. ASSUME Active(handle) PROVE Unspent[tip] \subseteq refresh.candidates
  <2>1. /\ tip \in Blocks /\ wallet.birthday \in Nat /\ handle \in Branch[tip]
        /\ BirthdayOK(handle, wallet.birthday)
        BY <1>1, <1>2, CacheAssumption
           DEF CacheIInv, CacheTypes, CoreTypes, WalletRecord, WalletOK, Standing,
              Active
  <2>2. Unspent[tip] \subseteq WatchedOn(tip, wallet.birthday)
        BY <2>1, WatchesAll
  <2> QED BY <1>1, <2>2 DEF SinceOK, WatchedUnspent
<1> QED BY <1>1, <1>2 DEF Standing, SinceOK

LEMMA CheckBestOK == ASSUME CacheIInv, CheckBest PROVE CacheIInv'
<1>1. /\ refresh.pc = "check" /\ refresh.pc \in WalletPhases
      /\ UNCHANGED <<coreVars, latched, importing, cache, seed, read>>
      BY DEF CheckBest, WalletPhases, Opened
<1>2. RefreshTypes /\ handle \in Anchors /\ tip \in Blocks
      BY DEF CacheIInv, CacheTypes, BackendTypes, CoreTypes, WalletRecord
<1>3. Standing(handle)
      BY <1>1 DEF CacheIInv, RefreshOK, Opened
<1>4. CASE /\ tip = refresh.best
           /\ refresh' = [refresh EXCEPT !.pc = "confirm", !.best = NoBlock]
           /\ UNCHANGED handle
  <2>1. /\ refresh'.pc = "confirm" /\ refresh'.cached = refresh.cached
        /\ refresh'.block = refresh.block /\ refresh'.candidates = refresh.candidates
        /\ RefreshTypes'
        BY <1>2, <1>4 DEF RefreshTypes, RefreshPcs, WalletPhases, Opened, Anchors
  <2>2. refresh.block = tip /\ (Gone(handle) \/ Unspent[tip] \subseteq refresh.candidates)
        BY <1>1, <1>4, BracketCovers
  <2>3. Gone(handle)' = Gone(handle) /\ Standing(handle)'
        BY <1>1, <1>3, <1>4 DEF Gone, Standing, Active, coreVars
  <2>4. seed'.pc = "idle" /\ CoversAt(refresh'.cached.block, refresh'.cached.candidates)
        BY <1>1, <2>1 DEF CacheIInv, RefreshOK
  <2>5. RefreshOK'
        BY <1>2, <2>1, <2>2, <2>3, <2>4 DEF RefreshOK, WalletPhases, Opened
  <2>6. WalletOK'
        BY <1>1, <1>4, WalletStays DEF CacheIInv, coreVars
  <2> QED BY <1>1, <1>2, <1>4, <2>1, <2>5, <2>6, ReaderFrame
<1>5. CASE /\ refresh' = [refresh EXCEPT !.pc = "best", !.attempt = 1, !.best = NoBlock,
                                         !.block = NoBlock, !.candidates = {}]
           /\ UNCHANGED handle
  <2>1. refresh'.pc = "best" /\ refresh'.cached = refresh.cached /\ RefreshTypes'
    <3>1. refresh'.pc = "best" /\ refresh'.cached = refresh.cached
          BY <1>2, <1>5 DEF RefreshTypes
    <3>2. "best" \in RefreshPcs /\ 1 \in 0 .. 1 /\ NoBlock \in Anchors
          /\ {} \in SUBSET Coins
          BY DEF RefreshPcs, WalletPhases, Opened, Anchors
    <3>3. RefreshTypes'
          BY <1>2, <1>5, <3>2 DEF RefreshTypes
    <3> QED BY <3>1, <3>3
  <2>2. RefreshOK'
        BY <1>1, <1>3, <1>5, <2>1, PhaseOK
  <2>3. WalletOK'
        BY <1>1, <1>5, WalletStays DEF CacheIInv, coreVars
  <2> QED BY <1>1, <1>2, <1>5, <2>1, <2>2, <2>3, ReaderFrame
<1>6. CASE WalletErr
      BY <1>1, <1>6, WalletErrOK, ReaderFrame
<1> QED BY <1>4, <1>5, <1>6 DEF CheckBest

LEMMA ConfirmWalletBlockOK == ASSUME CacheIInv, ConfirmWalletBlock PROVE CacheIInv'
<1>1. /\ refresh.pc = "confirm"
      /\ UNCHANGED <<coreVars, latched, importing, cache, seed, read>>
      BY DEF ConfirmWalletBlock
<1>2. RefreshTypes /\ handle \in Anchors
      BY DEF CacheIInv, CacheTypes, BackendTypes
<1>3. CASE Refreshing("held") /\ UNCHANGED handle
  <2>1. /\ refresh'.pc = "held" /\ refresh'.cached = refresh.cached
        /\ refresh'.block = refresh.block /\ refresh'.candidates = refresh.candidates
        /\ RefreshTypes'
        BY <1>2, <1>3 DEF Refreshing, RefreshTypes, RefreshPcs, WalletPhases, Opened
  <2>2. Gone(handle)' = Gone(handle) /\ Standing(handle)' = Standing(handle)
        BY <1>1, <1>3 DEF Gone, Standing, Active, coreVars
  <2>3. RefreshOK'
        BY <1>1, <2>1, <2>2 DEF CacheIInv, RefreshOK, WalletPhases, Opened
  <2>4. WalletOK'
        BY <1>1, <1>3, WalletStays DEF CacheIInv, coreVars
  <2> QED BY <1>1, <1>2, <1>3, <2>1, <2>3, <2>4, ReaderFrame
<1>4. CASE WalletErr
      BY <1>1, <1>4, WalletErrOK, ReaderFrame
<1> QED BY <1>3, <1>4 DEF ConfirmWalletBlock

LEMMA PublishReadOK == ASSUME CacheIInv, PublishRead PROVE CacheIInv'
<1>1. /\ refresh.pc = "held"
      /\ UNCHANGED <<coreVars, handle, importing, seed, read>>
      BY DEF PublishRead
<1>2. RefreshTypes /\ handle \in Anchors /\ latched \in BOOLEAN /\ cache \in CacheRecord
      BY DEF CacheIInv, CacheTypes, BackendTypes
<1>3. WalletOK'
      BY <1>1, WalletStays DEF CacheIInv, coreVars
<1>4. CASE /\ AnchorHeld
           /\ cache' = [block |-> refresh.block, candidates |-> refresh.candidates]
           /\ RefreshEnds /\ UNCHANGED latched
  <2>1. Unspent[refresh.block] \subseteq refresh.candidates
        BY <1>1, <1>4 DEF CacheIInv, RefreshOK, AnchorHeld, Gone
  <2>2. cache' \in CacheRecord /\ CoversAt(cache'.block, cache'.candidates)
        BY <1>2, <1>4, <2>1 DEF RefreshTypes, CacheRecord, CoversAt
  <2> QED BY <1>1, <1>2, <1>3, <1>4, <2>2, RefreshEndsOK, RefresherFrame
<1>5. CASE /\ latched' = TRUE
           /\ refresh' = [refresh EXCEPT !.pc = "base", !.repair = TRUE]
           /\ UNCHANGED cache
  <2>1. refresh'.pc = "base" /\ refresh'.cached = refresh.cached /\ RefreshTypes'
        BY <1>2, <1>5 DEF RefreshTypes, RefreshPcs
  <2>2. RefreshOK'
        BY <2>1, RefreshRests DEF CacheIInv, RefreshOK
  <2>3. CoversAt(cache'.block, cache'.candidates)
        BY <1>5 DEF CacheIInv, CacheCovers, CoversAt
  <2> QED BY <1>1, <1>2, <1>3, <1>5, <2>1, <2>2, <2>3, RefresherFrame
<1> QED BY <1>4, <1>5 DEF PublishRead

LEMMA ChooseBaseOK == ASSUME CacheIInv, ChooseBase PROVE CacheIInv'
<1> DEFINE pc == IF DeltaBase THEN "delta" ELSE "cold"
           from == IF DeltaBase THEN refresh.cached ELSE NoCache
<1>1. /\ refresh' = [NoPass EXCEPT !.pc = pc, !.cached = from]
      /\ UNCHANGED <<coreVars, latched, importing, cache, seed, read, handle>>
      BY DEF ChooseBase, backendVars
<1>2. RefreshTypes /\ handle \in Anchors /\ from \in CacheRecord
      BY NoPassFacts DEF CacheIInv, CacheTypes, BackendTypes, RefreshTypes
<1>3. /\ refresh'.pc = pc /\ refresh'.cached = from
      /\ RefreshTypes'
      BY <1>1, <1>2, NoPassFacts DEF RefreshTypes, RefreshPcs
<1>4. CoversAt(from.block, from.candidates)
      BY NoPassFacts DEF CacheIInv, RefreshOK, CoversAt
<1>5. DeltaBase => from.block \in Blocks
      BY <1>2 DEF DeltaBase, CacheRecord, Anchors
<1>6. RefreshOK'
      BY <1>3, <1>4, <1>5 DEF RefreshOK, WalletPhases, Opened
<1>7. WalletOK'
      BY <1>1, WalletStays DEF CacheIInv, coreVars
<1> QED BY <1>1, <1>2, <1>3, <1>6, <1>7, ReaderFrame

LEMMA ReadTipHeightOK == ASSUME CacheIInv, ReadTipHeight PROVE CacheIInv'
<1>1. /\ refresh.pc = "delta"
      /\ UNCHANGED <<coreVars, handle, latched, importing, seed, read>>
      BY DEF ReadTipHeight
<1>2. /\ RefreshTypes /\ handle \in Anchors /\ latched \in BOOLEAN /\ cache \in CacheRecord
      /\ tip \in Blocks /\ refresh.cached \in CacheRecord
      BY DEF CacheIInv, CacheTypes, BackendTypes, CoreTypes, WalletRecord, RefreshTypes
<1>3. /\ refresh.cached.block \in Blocks
      /\ CoversAt(refresh.cached.block, refresh.cached.candidates)
      BY <1>1 DEF CacheIInv, RefreshOK
<1>4. WalletOK'
      BY <1>1, WalletStays DEF CacheIInv, coreVars
<1>5. CASE cache' = refresh.cached /\ RefreshEnds
      BY <1>1, <1>2, <1>3, <1>4, <1>5, RefreshEndsOK, RefresherFrame
<1>6. CASE /\ Height[tip] > Height[refresh.cached.block]
           /\ refresh' = [refresh EXCEPT !.pc = "walk",
                              !.through = Min({Height[tip],
                                               Height[refresh.cached.block] + MaxDelta})]
           /\ UNCHANGED cache
  <2> DEFINE S == {Height[tip], Height[refresh.cached.block] + MaxDelta}
  <2>1. /\ Height[tip] \in Nat /\ Height[refresh.cached.block] \in Nat
        /\ MaxDelta \in Nat /\ MaxDelta >= 1
        BY <1>2, <1>3, BranchLine, CacheAssumption
  <2>2. S \subseteq Nat /\ S # {}
        BY <2>1
  <2>3. Min(S) \in S /\ \A y \in S : Min(S) <= y
        BY <2>2, MinOfNaturals
  <2> HIDE DEF Min
  <2>4. /\ Min(S) \in Nat /\ Min(S) <= Height[tip]
        /\ Height[refresh.cached.block] < Min(S)
        BY <1>6, <2>1, <2>3
  <2>5. /\ refresh'.pc = "walk" /\ refresh'.cached = refresh.cached
        /\ refresh'.through = Min(S)
        BY <1>2, <1>6 DEF RefreshTypes
  <2>6. RefreshTypes'
        BY <1>2, <1>6, <2>4 DEF RefreshTypes, RefreshPcs
  <2>7. tip' = tip
        BY <1>1 DEF coreVars
  <2>8. RefreshOK'
        BY <1>3, <2>4, <2>5, <2>7 DEF RefreshOK, WalletPhases, Opened
  <2> QED BY <1>1, <1>2, <1>4, <1>6, <2>6, <2>8, ReaderFrame
<1> QED BY <1>5, <1>6 DEF ReadTipHeight

LEMMA WalkBlocksOK == ASSUME CacheIInv, WalkBlocks PROVE CacheIInv'
<1>1. /\ refresh.pc = "walk" /\ RefreshEnds
      /\ UNCHANGED <<coreVars, handle, latched, importing, seed, read>>
      BY DEF WalkBlocks
<1>2. /\ handle \in Anchors /\ latched \in BOOLEAN /\ cache \in CacheRecord
      /\ tip \in Blocks /\ refresh.cached \in CacheRecord /\ refresh.through \in Nat
      BY DEF CacheIInv, CacheTypes, BackendTypes, CoreTypes, WalletRecord, RefreshTypes
<1> DEFINE a == refresh.cached.block
           found == refresh.cached.candidates
<1>3. /\ a \in Blocks /\ Unspent[a] \subseteq found /\ found \subseteq Coins
      /\ Height[a] < refresh.through /\ refresh.through <= Height[tip]
      BY <1>1, <1>2, CacheAssumption DEF CacheIInv, RefreshOK, CoversAt, CacheRecord
<1>4. cache' \in CacheRecord /\ CoversAt(cache'.block, cache'.candidates)
  <2>1. CASE ~ Active(a)
    <3>1. cache' = cache
          BY <2>1 DEF WalkBlocks
    <3> QED BY <1>2, <3>1 DEF CacheIInv, CacheCovers, CoversAt
  <2>2. CASE Active(a)
    <3> DEFINE b == At(tip, refresh.through)
               txs == TxsOf[b] \ TxsOf[a]
               new == (found \cup UNION {Creates[t] : t \in txs})
                          \ UNION {Spends[t] : t \in txs}
    <3>1. Height[a] \in Nat /\ Height[a] >= 1 /\ Height[tip] \in Nat
          BY <1>2, <1>3, BranchLine
    <3>2. refresh.through \in 1 .. Height[tip] /\ refresh.through >= Height[a]
          BY <1>2, <1>3, <3>1
    <3>3. b \in Blocks /\ a \in Branch[b]
          BY <1>2, <2>2, <3>2, AtFacts DEF Active
    <3>4. cache' = [block |-> b, candidates |-> new]
          BY <2>2 DEF WalkBlocks
    <3> HIDE DEF b
    <3>5. Unspent[b] \subseteq new
      <4>1. \A c \in Unspent[b] : /\ c \in found \/ \E t \in txs : c \in Creates[t]
                                  /\ \A t \in txs : c \notin Spends[t]
            BY <1>3, <3>3, DeltaCovers
      <4> HIDE DEF txs, found
      <4> QED BY <4>1
    <3>6. new \subseteq Coins
      <4>1. txs \subseteq Txs
            BY <3>3, CoinTypes
      <4> QED BY <1>3, <4>1, CacheAssumption
    <3> HIDE DEF new
    <3> QED BY <3>3, <3>4, <3>5, <3>6 DEF CacheRecord, CoversAt, Anchors
  <2> QED BY <2>1, <2>2
<1>5. WalletOK'
      BY <1>1, WalletStays DEF CacheIInv, coreVars
<1> QED BY <1>1, <1>2, <1>4, <1>5, RefreshEndsOK, RefresherFrame

LEMMA ColdScanOK == ASSUME CacheIInv, ColdScan PROVE CacheIInv'
<1>1. /\ refresh.pc = "cold"
      /\ refresh' = [refresh EXCEPT !.pc = "scanned", !.block = tip,
                                    !.candidates = Unspent[tip]]
      /\ UNCHANGED <<coreVars, latched, importing, cache, seed, read, handle>>
      BY DEF ColdScan, backendVars
<1>2. RefreshTypes /\ handle \in Anchors /\ tip \in Blocks /\ Unspent[tip] \subseteq Coins
      BY CoinTypes DEF CacheIInv, CacheTypes, BackendTypes, CoreTypes, WalletRecord
<1>3. /\ refresh'.pc = "scanned" /\ refresh'.cached = refresh.cached
      /\ refresh'.block = tip /\ refresh'.candidates = Unspent[tip]
      BY <1>1, <1>2 DEF RefreshTypes
<1>4. RefreshTypes'
      BY <1>1, <1>2 DEF RefreshTypes, RefreshPcs, Anchors
<1>5. RefreshOK'
      BY <1>2, <1>3 DEF CacheIInv, RefreshOK, WalletPhases, Opened
<1>6. WalletOK'
      BY <1>1, WalletStays DEF CacheIInv, coreVars
<1> QED BY <1>1, <1>2, <1>4, <1>5, <1>6, ReaderFrame

LEMMA PublishScanOK == ASSUME CacheIInv, PublishScan PROVE CacheIInv'
<1>1. /\ refresh.pc = "scanned" /\ RefreshEnds
      /\ UNCHANGED <<coreVars, handle, latched, read>>
      BY DEF PublishScan
<1>2. /\ RefreshTypes /\ handle \in Anchors /\ latched \in BOOLEAN /\ cache \in CacheRecord
      /\ SeedTypes /\ importing = (seed.pc # "idle") /\ CoreTypes /\ ReadTypes
      BY DEF CacheIInv, CacheTypes, BackendTypes
<1>3. /\ refresh.block \in Blocks /\ refresh.candidates = Unspent[refresh.block]
      BY <1>1 DEF CacheIInv, RefreshOK
<1>4. WalletOK' /\ RefreshOK' /\ RefreshTypes'
      BY <1>1, WalletStays, RefreshEndsOK DEF CacheIInv, coreVars
<1>5. ReadOK' /\ CoreTypes' /\ ReadTypes'
      BY <1>1, <1>2, ReadStays DEF CacheIInv, coreVars, CoreTypes, WalletRecord,
              ReadTypes
<1>6. CASE UNCHANGED <<cache, importing, seed>>
  <2>1. CoversAt(cache'.block, cache'.candidates)
        BY <1>6 DEF CacheIInv, CacheCovers, CoversAt
  <2> QED BY <1>1, <1>2, <1>4, <1>6, <2>1, RefresherFrame
<1>7. CASE /\ Active(refresh.block)
           /\ cache' = [block |-> refresh.block, candidates |-> refresh.candidates]
           /\ importing' = TRUE
           /\ seed' = IF importing THEN seed
                      ELSE [NoSeed EXCEPT !.pc = "ensure", !.block = refresh.block,
                                          !.oldest = OldestUnspent(refresh.block)]
  <2>1. cache' \in CacheRecord /\ CacheCovers'
        BY <1>2, <1>3, <1>7 DEF RefreshTypes, CacheRecord, CacheCovers
  <2>2. CASE importing
    <3>1. seed' = seed /\ seed.pc # "idle"
          BY <1>2, <1>7, <2>2
    <3>2. SeedOK' /\ SeedTypes'
          BY <1>1, <1>2, <3>1, SeedStays DEF CacheIInv, coreVars, SeedTypes
    <3>3. BackendTypes'
          BY <1>1, <1>2, <1>7, <2>1, <3>1 DEF BackendTypes
    <3> QED BY <1>4, <1>5, <2>1, <3>2, <3>3 DEF CacheIInv, CacheTypes
  <2>3. CASE ~ importing
    <3>1. /\ seed' = [NoSeed EXCEPT !.pc = "ensure", !.block = refresh.block,
                                    !.oldest = OldestUnspent(refresh.block)]
          /\ OldestUnspent(refresh.block) \in Nat
          BY <1>3, <1>7, <2>3, OldestFacts, BranchLine
    <3>2. /\ seed'.pc = "ensure" /\ seed'.block = refresh.block
          /\ seed'.oldest = OldestUnspent(refresh.block)
          BY <3>1 DEF NoSeed
    <3>3. SeedTypes'
          BY <1>3, <3>1 DEF NoSeed, SeedTypes, SeedPcs, Anchors
    <3>4. Standing(seed.block)'
          BY <1>1, <1>3, <1>7, <3>2 DEF Standing, Active, coreVars
    <3>5. SeedOK'
          BY <3>2, <3>4 DEF SeedOK
    <3>6. BackendTypes'
          BY <1>1, <1>2, <1>7, <2>1, <3>2 DEF BackendTypes
    <3> QED BY <1>4, <1>5, <2>1, <3>3, <3>5, <3>6 DEF CacheIInv, CacheTypes
  <2> QED BY <2>2, <2>3
<1> QED BY <1>6, <1>7 DEF PublishScan

LEMMA RefreshFailsOK == ASSUME CacheIInv, RefreshFails PROVE CacheIInv'
<1>1. UNCHANGED <<coreVars, latched, importing, cache, seed, read>>
      BY DEF RefreshFails
<1>2. CASE WalletErr
      BY <1>1, <1>2, WalletErrOK, ReaderFrame
<1>3. CASE RefreshEnds /\ UNCHANGED handle
  <2>1. handle' \in Anchors
        BY <1>3 DEF CacheIInv, CacheTypes, BackendTypes
  <2>2. WalletOK'
        BY <1>1, <1>3, WalletStays DEF CacheIInv, coreVars
  <2> QED BY <1>1, <1>3, <2>1, <2>2, RefreshEndsOK, ReaderFrame
<1> QED BY <1>2, <1>3 DEF RefreshFails

LEMMA RefreshStepOK == ASSUME CacheIInv, RefreshStep PROVE CacheIInv'
BY StartRefreshOK, OpenWalletOK, ReadBestOK, ListUnspentOK, ListSinceBlockOK, CheckBestOK,
   ConfirmWalletBlockOK, PublishReadOK, ChooseBaseOK, ReadTipHeightOK, WalkBlocksOK,
   ColdScanOK, PublishScanOK
   DEF RefreshStep

-----------------------------------------------------------------------------
(* The wallet-building thread.  While it runs no pass reads the wallet.       *)

\* A pass that does not read the wallet does not depend on it.
LEMMA RefreshApart ==
    ASSUME RefreshOK, UNCHANGED <<tip, reorgs, refresh>>, refresh.pc \notin WalletPhases
    PROVE  RefreshOK'
BY DEF RefreshOK, WalletPhases, Opened

\* The step of the thread that leaves the chain, the cache, the pass and the reader alone.
LEMMA SeederFrame ==
    ASSUME CacheIInv, seed.pc # "idle",
           UNCHANGED <<tip, reorgs, pool, sequence, cache, refresh, read>>,
           CoreTypes', handle' \in Anchors, latched' \in BOOLEAN,
           importing' = (seed'.pc # "idle"), SeedTypes', SeedOK', WalletOK'
    PROVE  CacheIInv'
<1>1. refresh.pc \notin WalletPhases
      BY DEF CacheIInv, RefreshOK
<1>2. RefreshOK' /\ ReadOK'
      BY <1>1, RefreshApart, ReadStays DEF CacheIInv
<1>3. RefreshTypes' /\ ReadTypes' /\ BackendTypes' /\ CacheCovers'
      BY DEF CacheIInv, CacheTypes, RefreshTypes, ReadTypes, BackendTypes, CacheCovers
<1> QED BY <1>2, <1>3 DEF CacheIInv, CacheTypes

\* One that leaves the wallet alone.
LEMMA SeederRests ==
    ASSUME CacheIInv, seed.pc # "idle", UNCHANGED <<coreVars, cache, refresh, read>>,
           handle' = handle \/ handle' \in wallet.markers, latched' \in BOOLEAN,
           importing' = (seed'.pc # "idle"), SeedTypes', SeedOK'
    PROVE  CacheIInv'
<1>1. UNCHANGED <<tip, reorgs, pool, sequence, cache, refresh, read, wallet>>
      BY DEF coreVars
<1>2. CoreTypes' /\ handle' \in Anchors
      BY <1>1 DEF CacheIInv, CacheTypes, CoreTypes, WalletRecord, BackendTypes, Anchors
<1>3. WalletOK'
      BY <1>1, WalletStays DEF CacheIInv
<1> QED BY <1>1, <1>2, <1>3, SeederFrame

LEMMA NoSeedFacts ==
    /\ NoSeed.pc = "idle"
    /\ NoSeed \in [pc : SeedPcs, block : Anchors, oldest : Nat, birthday : Nat,
                   via : {"none", "create", "repair", "reimport"}]
BY DEF NoSeed, SeedPcs, Anchors

LEMMA SeedEndsOK ==
    ASSUME SeedEnds
    PROVE  SeedTypes' /\ SeedOK' /\ importing' = (seed'.pc # "idle")
<1>1. seed' = NoSeed /\ importing' = FALSE
      BY DEF SeedEnds
<1>2. seed'.pc = "idle" /\ SeedTypes'
      BY <1>1, NoSeedFacts DEF SeedTypes
<1> QED BY <1>1, <1>2 DEF SeedOK

\* The thread goes on, with the same scan, to a phase that owes nothing more.
LEMMA SeedGoesOn ==
    ASSUME CacheIInv, seed.pc # "idle", UNCHANGED <<tip, reorgs>>,
           SeedTypes', seed'.block = seed.block, seed'.oldest = seed.oldest,
           seed'.pc \in {"ensure", "pending", "birthday"}
    PROVE  SeedOK'
<1>1. Standing(seed.block)' /\ seed'.oldest = OldestUnspent(seed'.block)
      BY DEF CacheIInv, SeedOK, Standing, Gone, Active
<1> QED BY <1>1 DEF SeedOK

LEMMA EnsureWalletOK == ASSUME CacheIInv, EnsureWallet PROVE CacheIInv'
<1>1. /\ seed.pc # "idle"
      /\ UNCHANGED <<coreVars, latched, importing, cache, refresh, read>>
      BY DEF EnsureWallet
<1>2. /\ SeedTypes /\ latched \in BOOLEAN /\ importing = (seed.pc # "idle")
      /\ UNCHANGED <<tip, reorgs>>
      BY <1>1 DEF CacheIInv, CacheTypes, BackendTypes, coreVars
<1>3. handle' = handle \/ handle' \in wallet.markers
      BY DEF EnsureWallet
<1>4. \/ seed' = [seed EXCEPT !.pc = "pending"]
      \/ seed' = [seed EXCEPT !.pc = "birthday",
                      !.via = IF wallet.birthday = Never THEN "create" ELSE "repair"]
      BY DEF EnsureWallet, Seeding
<1>5. /\ SeedTypes' /\ seed'.block = seed.block /\ seed'.oldest = seed.oldest
      /\ seed'.pc \in {"pending", "birthday"}
      BY <1>2, <1>4 DEF SeedTypes, SeedPcs
<1>6. SeedOK'
      BY <1>1, <1>2, <1>5, SeedGoesOn
<1> QED BY <1>1, <1>2, <1>3, <1>5, <1>6, SeederRests

LEMMA ReimportIfPendingOK == ASSUME CacheIInv, ReimportIfPending PROVE CacheIInv'
<1>1. /\ seed.pc # "idle"
      /\ UNCHANGED <<coreVars, handle, latched, cache, refresh, read>>
      BY DEF ReimportIfPending
<1>2. /\ SeedTypes /\ latched \in BOOLEAN /\ importing = (seed.pc # "idle")
      /\ UNCHANGED <<tip, reorgs>>
      BY <1>1 DEF CacheIInv, CacheTypes, BackendTypes, coreVars
<1>3. CASE SeedEnds
      BY <1>1, <1>2, <1>3, SeedEndsOK, SeederRests
<1>4. CASE /\ seed' = [seed EXCEPT !.pc = "birthday", !.via = "reimport"]
           /\ UNCHANGED importing
  <2>1. /\ SeedTypes' /\ seed'.block = seed.block /\ seed'.oldest = seed.oldest
        /\ seed'.pc = "birthday"
        BY <1>2, <1>4 DEF SeedTypes, SeedPcs
  <2>2. SeedOK'
        BY <1>1, <1>2, <2>1, SeedGoesOn
  <2> QED BY <1>1, <1>2, <1>4, <2>1, <2>2, SeederRests
<1> QED BY <1>3, <1>4 DEF ReimportIfPending

LEMMA ReadBirthdayOK == ASSUME CacheIInv, ReadBirthday PROVE CacheIInv'
<1> DEFINE t == Time[At(tip, seed.oldest)]
<1>1. /\ seed.pc # "idle" /\ seed' = [seed EXCEPT !.pc = "anchor", !.birthday = t]
      /\ UNCHANGED <<coreVars, handle, latched, importing, cache, refresh, read>>
      BY DEF ReadBirthday, backendVars
<1>2. /\ SeedTypes /\ latched \in BOOLEAN /\ importing = (seed.pc # "idle")
      /\ UNCHANGED <<tip, reorgs>> /\ tip \in Blocks
      BY <1>1 DEF CacheIInv, CacheTypes, BackendTypes, coreVars, CoreTypes, WalletRecord
<1>3. Standing(seed.block) /\ seed.oldest = OldestUnspent(seed.block)
      BY <1>1 DEF CacheIInv, SeedOK
<1>4. seed.block \in Blocks /\ Height[seed.block] <= Height[tip]
      BY <1>2, <1>3, BranchLine DEF Standing, Gone, Active
<1>5. t \in Nat /\ (Active(seed.block) => BirthdayOK(seed.block, t))
      BY <1>2, <1>3, <1>4, ScanBirthday DEF Active
<1> HIDE DEF t
<1>6. /\ SeedTypes' /\ seed'.block = seed.block /\ seed'.oldest = seed.oldest
      /\ seed'.pc = "anchor" /\ seed'.birthday = t
      BY <1>1, <1>2, <1>5 DEF SeedTypes, SeedPcs
<1>7. Standing(seed.block)' /\ (Gone(seed.block)' \/ BirthdayOK(seed.block, t))
      BY <1>2, <1>3, <1>5, <1>6 DEF Standing, Gone, Active
<1>8. SeedOK'
      BY <1>3, <1>6, <1>7 DEF SeedOK
<1> QED BY <1>1, <1>2, <1>6, <1>8, SeederRests

LEMMA CheckAnchorOK == ASSUME CacheIInv, CheckAnchor PROVE CacheIInv'
<1>1. /\ seed.pc = "anchor"
      /\ UNCHANGED <<coreVars, handle, latched, cache, refresh, read>>
      BY DEF CheckAnchor
<1>2. /\ SeedTypes /\ latched \in BOOLEAN /\ importing = (seed.pc # "idle")
      /\ UNCHANGED <<tip, reorgs>>
      BY <1>1 DEF CacheIInv, CacheTypes, BackendTypes, coreVars
<1>3. CASE SeedEnds
      BY <1>1, <1>2, <1>3, SeedEndsOK, SeederRests
<1>4. CASE ScanStillActive /\ Seeding("import") /\ UNCHANGED importing
  <2>1. /\ SeedTypes' /\ seed'.block = seed.block /\ seed'.oldest = seed.oldest
        /\ seed'.pc = "import" /\ seed'.birthday = seed.birthday
        BY <1>2, <1>4 DEF SeedTypes, SeedPcs, Seeding
  <2>2. BirthdayOK(seed.block, seed.birthday)
        BY <1>1, <1>4 DEF CacheIInv, SeedOK, ScanStillActive, Gone
  <2>3. Standing(seed.block)' /\ seed'.oldest = OldestUnspent(seed'.block)
        BY <1>1, <1>2, <2>1 DEF CacheIInv, SeedOK, Standing, Gone, Active
  <2>4. SeedOK'
        BY <2>1, <2>2, <2>3 DEF SeedOK
  <2> QED BY <1>1, <1>2, <1>4, <2>1, <2>4, SeederRests
<1> QED BY <1>3, <1>4 DEF CheckAnchor

\* Catching up keeps the wallet's type, its markers and its birthday.
LEMMA SyncedFacts ==
    ASSUME CoreTypes, NEW w \in WalletRecord
    PROVE  /\ Synced(w) \in WalletRecord
           /\ Synced(w).birthday = w.birthday /\ Synced(w).markers = w.markers
           /\ Synced(w).at = tip /\ w.seen \subseteq Synced(w).seen
<1> DEFINE more == {tx \in TxsOf[tip] \cup pool :
                       Spends[tx] \cap WatchedOn(tip, w.birthday) # {}}
<1>1. more \subseteq Txs /\ tip \in Blocks
      BY CoinTypes DEF CoreTypes, WalletRecord
<1>2. Synced(w) = [w EXCEPT !.at = tip, !.seen = w.seen \cup more]
      BY DEF Synced
<1> HIDE DEF more
<1> QED BY <1>1, <1>2 DEF WalletRecord

LEMMA ImportDescriptorsOK == ASSUME CacheIInv, ImportDescriptors PROVE CacheIInv'
<1> DEFINE early == Min({wallet.birthday, seed.birthday})
           w == [wallet EXCEPT !.birthday = early]
<1>1. /\ seed.pc = "import" /\ wallet' = Synced(w) /\ Seeding("mark")
      /\ UNCHANGED <<tip, reorgs, pool, sequence, handle, latched, importing, cache,
                     refresh, read>>
      BY DEF ImportDescriptors, backendVars
<1>2. /\ SeedTypes /\ latched \in BOOLEAN /\ importing = (seed.pc # "idle")
      /\ CoreTypes /\ handle \in Anchors /\ wallet.birthday \in Nat /\ seed.birthday \in Nat
      BY DEF CacheIInv, CacheTypes, BackendTypes, CoreTypes, WalletRecord, SeedTypes
<1>3. early \in Nat /\ early <= wallet.birthday /\ early <= seed.birthday
      BY <1>2, MinOfNaturals
<1> HIDE DEF early
<1>4. /\ w \in WalletRecord
      /\ w.birthday = early /\ w.markers = wallet.markers
      BY <1>2, <1>3 DEF CoreTypes, WalletRecord
<1> HIDE DEF w
<1>5. /\ wallet' \in WalletRecord
      /\ wallet'.birthday = early /\ wallet'.markers = wallet.markers /\ wallet'.at = tip
      BY <1>1, <1>2, <1>4, SyncedFacts
<1>6. CoreTypes'
      BY <1>1, <1>2, <1>5 DEF CoreTypes, WalletRecord
<1>7. /\ SeedTypes' /\ seed'.block = seed.block /\ seed'.oldest = seed.oldest
      /\ seed'.pc = "mark" /\ seed'.birthday = seed.birthday
      BY <1>1, <1>2 DEF SeedTypes, SeedPcs, Seeding
<1>8. Standing(seed.block)' /\ seed'.oldest = OldestUnspent(seed'.block)
      BY <1>1, <1>7 DEF CacheIInv, SeedOK, Standing, Gone, Active
<1>9. SeedOK'
      BY <1>1, <1>3, <1>5, <1>7, <1>8 DEF CacheIInv, SeedOK
<1>10. WalletOK'
  <2>1. WasTip(wallet.at)'
        BY <1>1, <1>2, <1>5 DEF WasTip, CoreTypes, WalletRecord
  <2>2. ASSUME NEW m \in wallet.markers PROVE BirthdayOK(m, early)
    <3>1. BirthdayOK(m, wallet.birthday) /\ m \in Blocks
          BY <1>2 DEF CacheIInv, WalletOK, CoreTypes, WalletRecord
    <3>2. \A c \in Unspent[m] : Time[MadeAt(c, m)] \in Nat
          BY <3>1, MadeAtFacts, BranchFacts, CacheAssumption DEF Unspent
    <3>3. Time[m] \in Nat
          BY <3>1, CacheAssumption
    <3> QED BY <1>2, <1>3, <3>1, <3>2, <3>3 DEF BirthdayOK
  <2>3. handle' # NoBlock => handle' \in wallet'.markers
        BY <1>1, <1>5 DEF CacheIInv, WalletOK
  <2> QED BY <1>5, <2>1, <2>2, <2>3 DEF WalletOK
<1> QED BY <1>1, <1>2, <1>6, <1>7, <1>9, <1>10, SeederFrame

LEMMA ImportMarkerOK == ASSUME CacheIInv, ImportMarker PROVE CacheIInv'
<1>1. /\ seed.pc = "mark"
      /\ wallet' = [wallet EXCEPT !.markers = wallet.markers \cup {seed.block}]
      /\ UNCHANGED <<tip, reorgs, pool, sequence, cache, refresh, read>>
      BY DEF ImportMarker
<1>2. /\ SeedTypes /\ latched \in BOOLEAN /\ importing = (seed.pc # "idle")
      /\ CoreTypes /\ handle \in Anchors /\ wallet.birthday \in Nat /\ seed.birthday \in Nat
      BY DEF CacheIInv, CacheTypes, BackendTypes, CoreTypes, WalletRecord, SeedTypes
<1>3. /\ Standing(seed.block) /\ seed.oldest = OldestUnspent(seed.block)
      /\ BirthdayOK(seed.block, seed.birthday) /\ wallet.birthday <= seed.birthday
      BY <1>1 DEF CacheIInv, SeedOK
<1>4. seed.block \in Blocks /\ Standing(seed.block)' = Standing(seed.block')
      BY <1>1, <1>3 DEF Standing, Gone, Active
<1>5. /\ wallet'.markers = wallet.markers \cup {seed.block}
      /\ wallet'.birthday = wallet.birthday /\ wallet'.at = wallet.at /\ CoreTypes'
      BY <1>1, <1>2, <1>4 DEF CoreTypes, WalletRecord
<1>6. BirthdayOK(seed.block, wallet.birthday)
  <2>1. \A c \in Unspent[seed.block] : Time[MadeAt(c, seed.block)] \in Nat
        BY <1>4, MadeAtFacts, BranchFacts, CacheAssumption DEF Unspent
  <2>2. Time[seed.block] \in Nat
        BY <1>4, CacheAssumption
  <2> QED BY <1>2, <1>3, <2>1, <2>2 DEF BirthdayOK
<1>7. ASSUME handle' = handle \/ handle' = seed.block \/ handle' = NoBlock PROVE WalletOK'
  <2>1. WasTip(wallet.at)'
        BY <1>1, <1>5 DEF CacheIInv, WalletOK, WasTip
  <2> QED BY <1>5, <1>6, <1>7, <2>1 DEF CacheIInv, WalletOK
<1>8. ASSUME NEW pc \in {"verify", "pending"}, seed' = [seed EXCEPT !.pc = pc]
      PROVE  SeedTypes' /\ SeedOK' /\ seed'.pc # "idle"
  <2>1. /\ SeedTypes' /\ seed'.block = seed.block /\ seed'.oldest = seed.oldest
        /\ seed'.pc = pc
        BY <1>2, <1>8 DEF SeedTypes, SeedPcs
  <2>2. Standing(seed.block)'
        BY <1>3, <1>4, <2>1
  <2> QED BY <1>3, <1>5, <2>1, <2>2 DEF SeedOK
<1>9. CASE Seeding("verify") /\ UNCHANGED <<handle, latched, importing>>
      BY <1>1, <1>2, <1>5, <1>7, <1>8, <1>9, SeederFrame DEF Seeding
<1>10. CASE handle' = seed.block /\ latched' = FALSE /\ Seeding("pending")
            /\ UNCHANGED importing
       BY <1>1, <1>2, <1>4, <1>5, <1>7, <1>8, <1>10, SeederFrame DEF Seeding, Anchors
<1>11. CASE handle' = (IF handle = NoBlock THEN NoBlock ELSE seed.block) /\ latched' = FALSE
            /\ SeedEnds
       BY <1>1, <1>2, <1>4, <1>5, <1>7, <1>11, SeedEndsOK, SeederFrame DEF Anchors
<1> QED BY <1>9, <1>10, <1>11 DEF ImportMarker

LEMMA VerifyCreatedOK == ASSUME CacheIInv, VerifyCreated PROVE CacheIInv'
<1>1. /\ seed.pc = "verify"
      /\ UNCHANGED <<coreVars, latched, importing, cache, refresh, read>>
      BY DEF VerifyCreated
<1>2. /\ SeedTypes /\ latched \in BOOLEAN /\ importing = (seed.pc # "idle")
      /\ UNCHANGED <<tip, reorgs>>
      BY <1>1 DEF CacheIInv, CacheTypes, BackendTypes, coreVars
<1>3. handle' = handle \/ handle' \in wallet.markers
      BY <1>1 DEF VerifyCreated, CacheIInv, SeedOK
<1>4. \/ seed' = [seed EXCEPT !.pc = "pending"]
      \/ seed' = [seed EXCEPT !.pc = "birthday", !.via = "repair"]
      BY DEF VerifyCreated, Seeding
<1>5. /\ SeedTypes' /\ seed'.block = seed.block /\ seed'.oldest = seed.oldest
      /\ seed'.pc \in {"pending", "birthday"}
      BY <1>2, <1>4 DEF SeedTypes, SeedPcs
<1>6. SeedOK'
      BY <1>1, <1>2, <1>5, SeedGoesOn
<1> QED BY <1>1, <1>2, <1>3, <1>5, <1>6, SeederRests

LEMMA SeedFailsOK == ASSUME CacheIInv, SeedFails PROVE CacheIInv'
<1>1. /\ seed.pc # "idle" /\ SeedEnds
      /\ UNCHANGED <<coreVars, handle, latched, cache, refresh, read>>
      BY DEF SeedFails
<1>2. latched \in BOOLEAN
      BY DEF CacheIInv, CacheTypes, BackendTypes
<1> QED BY <1>1, <1>2, SeedEndsOK, SeederRests

LEMMA SeedStepOK == ASSUME CacheIInv, SeedStep PROVE CacheIInv'
BY EnsureWalletOK, ReimportIfPendingOK, ReadBirthdayOK, CheckAnchorOK, ImportDescriptorsOK,
   ImportMarkerOK, VerifyCreatedOK DEF SeedStep

-----------------------------------------------------------------------------
(* Core's steps.                                                              *)

\* A tip is higher than every tip before it; with no more than one reorg, a block that
\* was active stays, or leaves for good.
LEMMA TipMoves ==
    ASSUME MaxReorgs \in 0 .. 1, CacheIInv, NEW b \in Blocks, NewTip(b)
    PROVE  /\ tip' = b /\ reorgs' \in 0 .. MaxReorgs
           /\ \A x : WasTip(x) => WasTip(x)' /\ x # tip' /\ Height[x] < Height[tip']
           /\ \A x \in Blocks : Gone(x) => Gone(x)'
           /\ \A x : Standing(x) => Standing(x)'
<1>1. tip \in Blocks /\ reorgs \in 0 .. MaxReorgs
      BY DEF CacheIInv, CacheTypes, CoreTypes, WalletRecord
<1>2. /\ Height[b] > Height[tip] /\ tip' = b
      /\ Parent[b] = tip \/ (tip \notin Branch[b] /\ reorgs < MaxReorgs)
      /\ reorgs' = IF tip \in Branch[b] THEN reorgs ELSE reorgs + 1
      BY DEF NewTip
<1>3. \A x \in Blocks : Height[x] \in Nat
      BY BranchLine
<1>4. b # Root
  <2>1. Height[tip] >= 1 /\ Height[Root] = 1
        BY <1>1, BranchLine, HeightSteps
  <2> QED BY <1>1, <1>2, <1>3, <2>1
<1>5. Parent[b] = tip => Branch[b] = {b} \cup Branch[tip] /\ tip \in Branch[b]
      BY <1>1, <1>4, BranchSteps, BranchFacts
<1>6. reorgs' \in 0 .. MaxReorgs
      BY <1>1, <1>2, <1>5
<1>7. ASSUME NEW x, WasTip(x) PROVE WasTip(x)' /\ x # tip' /\ Height[x] < Height[tip']
      BY <1>1, <1>2, <1>3, <1>7 DEF WasTip
<1>8. ASSUME NEW x \in Blocks, Gone(x) PROVE Gone(x)'
  <2>1. Parent[b] = tip /\ reorgs' = reorgs
        BY <1>1, <1>2, <1>5, <1>8 DEF Gone
  <2>2. Height[x] < Height[b] /\ x \notin Branch[b]
        BY <1>1, <1>2, <1>3, <1>5, <1>8, <2>1 DEF Gone, Active
  <2> QED BY <1>1, <1>2, <1>3, <1>8, <2>1, <2>2 DEF Gone, Active
<1>9. ASSUME NEW x, Standing(x) PROVE Standing(x)'
  <2>1. x \in Blocks
        BY <1>9 DEF Standing
  <2>2. CASE Gone(x)
        BY <1>8, <2>1, <2>2 DEF Standing
  <2>3. CASE Active(x)
    <3>1. Height[x] <= Height[tip]
          BY <1>1, <2>3, BranchLine DEF Active
    <3>2. CASE Parent[b] = tip
          BY <1>2, <1>5, <2>1, <2>3, <3>2 DEF Standing, Active
    <3>3. CASE Parent[b] # tip
      <4>1. reorgs' >= MaxReorgs
            BY <1>1, <1>2, <3>3
      <4>2. Height[x] <= Height[tip']
            BY <1>1, <1>2, <1>3, <2>1, <3>1
      <4> QED BY <2>1, <4>1, <4>2 DEF Standing, Gone, Active
    <3> QED BY <3>2, <3>3
  <2> QED BY <1>9, <2>2, <2>3 DEF Standing
<1> QED BY <1>2, <1>6, <1>7, <1>8, <1>9

LEMMA NewTipOK ==
    ASSUME MaxReorgs \in 0 .. 1, CacheIInv, NEW b \in Blocks, NewTip(b)
    PROVE  CacheIInv'
<1>1. UNCHANGED <<wallet, handle, latched, importing, cache, refresh, seed, read>>
      BY DEF NewTip, backendVars
<1>2. /\ tip' = b /\ reorgs' \in 0 .. MaxReorgs
      /\ \A x : WasTip(x) => WasTip(x)' /\ x # tip' /\ Height[x] < Height[tip']
      /\ \A x \in Blocks : Gone(x) => Gone(x)'
      /\ \A x : Standing(x) => Standing(x)'
      BY TipMoves
<1>3. CacheTypes
      BY DEF CacheIInv
<1>4. /\ pool' = {tx \in pool \cup (TxsOf[tip] \ TxsOf[b]) :
                     tx \notin TxsOf[b] /\ Spends[tx] \cap Spent[b] = {}}
      /\ sequence' = IF pool' = pool \ TxsOf[b] THEN sequence ELSE sequence + 1
      BY DEF NewTip
<1>5. CoreTypes'
  <2>1. TxsOf[tip] \subseteq Txs
        BY <1>3, CoinTypes DEF CacheTypes, CoreTypes, WalletRecord
  <2>2. pool' \subseteq Txs
        BY <1>3, <1>4, <2>1 DEF CacheTypes, CoreTypes, WalletRecord
  <2> QED BY <1>1, <1>2, <1>3, <1>4, <2>2 DEF CacheTypes, CoreTypes, WalletRecord
<1>6. CacheTypes' /\ CacheCovers'
      BY <1>1, <1>3, <1>5 DEF CacheIInv, CacheTypes, BackendTypes, RefreshTypes,
              SeedTypes,
                              ReadTypes, CacheCovers
<1>7. WalletOK'
      BY <1>1, <1>2 DEF CacheIInv, WalletOK
<1>8. SeedOK'
  <2>1. seed.pc # "idle" => seed.block \in Blocks
        BY DEF CacheIInv, SeedOK, Standing
  <2> QED BY <1>1, <1>2, <2>1 DEF CacheIInv, SeedOK
<1>9. RefreshOK'
  <2>1. refresh.pc \in {"list", "since", "check"} =>
            WasTip(refresh.best)' /\ refresh'.best # tip'
        BY <1>1, <1>2 DEF CacheIInv, RefreshOK
  <2>2. refresh.pc \in Opened => Standing(handle)' /\ handle \in Blocks
        BY <1>1, <1>2 DEF CacheIInv, RefreshOK, Standing
  <2>3. refresh.pc = "wallet" /\ handle # NoBlock => Standing(handle)'
        BY <1>1, <1>2 DEF CacheIInv, RefreshOK
  <2>4. refresh.pc = "walk" => refresh.through <= Height[tip']
    <3>1. Height[tip] < Height[b] /\ Height[tip] \in Nat /\ Height[b] \in Nat
          /\ refresh.through \in Nat
          BY <1>3, BranchLine DEF NewTip, CacheTypes, CoreTypes, WalletRecord,
              RefreshTypes
    <3> QED BY <1>2, <3>1 DEF CacheIInv, RefreshOK
  <2>5. refresh.pc \in {"confirm", "held"} =>
            /\ refresh'.block \in Blocks
            /\ Gone(handle)' \/ Unspent[refresh'.block] \subseteq refresh'.candidates
        BY <1>1, <1>2, <2>2 DEF CacheIInv, RefreshOK, Opened
  <2> QED BY <1>1, <2>1, <2>2, <2>3, <2>4, <2>5 DEF CacheIInv, RefreshOK
<1>10. ReadOK'
  <2>1. read.pc \in SeenTip => WasTip(read.tip)' /\ read'.tip # tip'
        BY <1>1, <1>2 DEF CacheIInv, ReadOK
  <2>2. /\ sequence' \in Nat /\ sequence \in Nat /\ read.sequence \in Nat
        /\ sequence' = sequence \/ sequence' = sequence + 1
        BY <1>3, <1>4, <1>5 DEF CacheTypes, CoreTypes, WalletRecord, ReadTypes
  <2>3. sequence' = sequence => pool' \subseteq pool
        BY <1>4, <2>2
  <2>4. read.pc \in {"tip"} \cup SeenTip =>
            /\ read.sequence <= sequence'
            /\ read.sequence = sequence' => pool' \subseteq read.resident
        BY <2>2, <2>3 DEF CacheIInv, ReadOK
  <2> QED BY <1>1, <2>1, <2>4 DEF CacheIInv, ReadOK, StableRead, SeenTip
<1> QED BY <1>6, <1>7, <1>8, <1>9, <1>10 DEF CacheIInv

\* A move of the mempool is counted.
LEMMA PoolMovesOK ==
    ASSUME CacheIInv, pool' \subseteq Txs, sequence' = sequence + 1,
           UNCHANGED <<tip, reorgs, wallet, backendVars, refresh, seed, read>>
    PROVE  CacheIInv'
<1>1. UNCHANGED <<handle, latched, importing, cache>>
      BY DEF backendVars
<1>2. CacheTypes' /\ CacheCovers'
      BY <1>1 DEF CacheIInv, CacheTypes, CoreTypes, WalletRecord, BackendTypes,
              RefreshTypes, SeedTypes,
                  ReadTypes, CacheCovers
<1>3. WalletOK' /\ SeedOK'
      BY <1>1, WalletStays, SeedStays DEF CacheIInv
<1>4. RefreshOK'
      BY <1>1, RefreshStays DEF CacheIInv, RefreshOK
<1>5. ReadOK'
  <2>1. sequence \in Nat /\ read.sequence \in Nat
        BY DEF CacheIInv, CacheTypes, CoreTypes, WalletRecord, ReadTypes
  <2>2. read.pc \in {"tip"} \cup SeenTip => read.sequence < sequence'
        BY <2>1 DEF CacheIInv, ReadOK
  <2>3. read.pc \in SeenTip => WasTip(read.tip)'
        BY DEF CacheIInv, ReadOK, WasTip
  <2> QED BY <2>1, <2>2, <2>3 DEF CacheIInv, ReadOK, StableRead, SeenTip
<1> QED BY <1>2, <1>3, <1>4, <1>5 DEF CacheIInv

LEMMA WalletSyncOK == ASSUME CacheIInv, WalletSync PROVE CacheIInv'
<1>1. /\ wallet' = Synced(wallet)
      /\ UNCHANGED <<tip, reorgs, pool, sequence, handle, latched, importing, cache,
                     refresh, seed, read>>
      BY DEF WalletSync, backendVars
<1>2. CacheTypes /\ CoreTypes /\ tip \in Blocks
      BY DEF CacheIInv, CacheTypes, CoreTypes, WalletRecord
<1>3. /\ wallet' \in WalletRecord
      /\ wallet'.birthday = wallet.birthday /\ wallet'.markers = wallet.markers
      /\ wallet'.at = tip /\ wallet.seen \subseteq wallet'.seen
      BY <1>1, <1>2, SyncedFacts DEF CoreTypes, WalletRecord
<1>4. CacheTypes' /\ CacheCovers'
      BY <1>1, <1>2, <1>3 DEF CacheIInv, CacheTypes, CoreTypes, WalletRecord,
              BackendTypes, RefreshTypes,
                              SeedTypes, ReadTypes, CacheCovers
<1>5. WalletOK'
      BY <1>1, <1>2, <1>3 DEF CacheIInv, WalletOK, WasTip
<1>6. SeedOK'
      BY <1>1, <1>3 DEF CacheIInv, SeedOK, Standing, Gone, Active
<1>7. ReadOK'
      BY <1>1, ReadStays DEF CacheIInv
<1>8. RefreshOK'
  <2>1. \A x : Gone(x)' = Gone(x) /\ WasTip(x)' = WasTip(x) /\ Standing(x)' = Standing(x)
        BY <1>1 DEF Active, Gone, WasTip, Standing
  <2>2. WatchedUnspent' = WatchedUnspent
        BY <1>1, <1>3 DEF WatchedUnspent
  <2>3. ListedOK => ListedOK'
        BY <1>1, <1>3, <2>2 DEF ListedOK
  <2>4. SinceOK => SinceOK'
        BY <1>1, <2>2 DEF SinceOK
  <2> QED BY <1>1, <2>1, <2>3, <2>4 DEF CacheIInv, RefreshOK
<1> QED BY <1>4, <1>5, <1>6, <1>7, <1>8 DEF CacheIInv

LEMMA CoreStepOK ==
    ASSUME MaxReorgs \in 0 .. 1, CacheIInv, CoreStep PROVE CacheIInv'
<1>1. CASE \E b \in Blocks : NewTip(b)
      BY <1>1, NewTipOK
<1>2. CASE \E tx \in Txs : Enter(tx) \/ Leave(tx)
  <2>1. pool \subseteq Txs
        BY DEF CacheIInv, CacheTypes, CoreTypes, WalletRecord
  <2>2. pool' \subseteq Txs /\ sequence' = sequence + 1
        /\ UNCHANGED <<tip, reorgs, wallet, backendVars, refresh, seed, read>>
        BY <1>2, <2>1 DEF Enter, Leave
  <2> QED BY <2>2, PoolMovesOK
<1>3. CASE WalletSync
      BY <1>3, WalletSyncOK
<1> QED BY <1>1, <1>2, <1>3 DEF CoreStep

-----------------------------------------------------------------------------
(* The fire-time reader's steps.                                              *)

LEMMA ReadFrame ==
    ASSUME CacheIInv, UNCHANGED <<coreVars, backendVars, refresh, seed>>,
           ReadTypes', ReadOK'
    PROVE  CacheIInv'
<1>1. UNCHANGED <<tip, reorgs, pool, sequence, wallet, handle, latched, importing, cache>>
      BY DEF coreVars, backendVars
<1>2. CacheTypes' /\ CacheCovers'
      BY <1>1 DEF CacheIInv, CacheTypes, CoreTypes, WalletRecord, BackendTypes,
              RefreshTypes, SeedTypes,
                  CacheCovers
<1>3. WalletOK' /\ SeedOK'
      BY <1>1, WalletStays, SeedStays DEF CacheIInv
<1>4. RefreshOK'
      BY <1>1, RefreshStays DEF CacheIInv, RefreshOK
<1> QED BY <1>2, <1>3, <1>4 DEF CacheIInv

LEMMA NoReadFacts ==
    /\ NoRead.pc = "idle"
    /\ NoRead \in [pc : ReadPcs, attempt : 0 .. 1, resident : SUBSET Txs, sequence : Nat,
                   tip : Anchors, candidates : SUBSET Coins, found : SUBSET Coins]
BY DEF NoRead, ReadPcs, Anchors

LEMMA ReadRests ==
    ASSUME read'.pc \in {"idle", "again", "done"} PROVE ReadOK'
BY DEF ReadOK, SeenTip

LEMMA SnapshotMempoolOK == ASSUME CacheIInv, SnapshotMempool PROVE CacheIInv'
<1>1. /\ UNCHANGED <<coreVars, backendVars, refresh, seed>>
      /\ read' = [NoRead EXCEPT !.pc = "tip", !.resident = pool, !.sequence = sequence,
                                !.attempt = IF read.pc = "again" THEN 1 ELSE 0]
      BY DEF SnapshotMempool
<1>2. pool \subseteq Txs /\ sequence \in Nat
      BY DEF CacheIInv, CacheTypes, CoreTypes, WalletRecord
<1>3. read'.pc = "tip" /\ read'.resident = pool /\ read'.sequence = sequence
      BY <1>1, NoReadFacts
<1>4. ReadTypes'
  <2>1. (IF read.pc = "again" THEN 1 ELSE 0) \in 0 .. 1 /\ "tip" \in ReadPcs
        BY DEF ReadPcs
  <2> QED BY <1>1, <1>2, <2>1, NoReadFacts DEF ReadTypes
<1>5. ReadOK'
      BY <1>1, <1>2, <1>3 DEF ReadOK, SeenTip, coreVars
<1> QED BY <1>1, <1>4, <1>5, ReadFrame

LEMMA ReadTipOK == ASSUME CacheIInv, ReadTip PROVE CacheIInv'
<1>1. /\ read.pc = "tip" /\ UNCHANGED <<coreVars, backendVars, refresh, seed>>
      /\ read' = [read EXCEPT !.pc = "cache", !.tip = tip]
      BY DEF ReadTip
<1>2. ReadTypes /\ tip \in Blocks
      BY DEF CacheIInv, CacheTypes, CoreTypes, WalletRecord
<1>3. /\ read'.pc = "cache" /\ read'.resident = read.resident
      /\ read'.sequence = read.sequence /\ read'.tip = tip /\ ReadTypes'
      BY <1>1, <1>2 DEF ReadTypes, ReadPcs, Anchors
<1>4. ReadOK'
      BY <1>1, <1>2, <1>3 DEF CacheIInv, ReadOK, SeenTip, WasTip, coreVars
<1> QED BY <1>1, <1>3, <1>4, ReadFrame

\* The reader goes on in the same attempt, at the same tip.
LEMMA ReadGoesOn ==
    ASSUME CacheIInv, UNCHANGED coreVars, read.pc \in SeenTip,
           read'.resident = read.resident, read'.sequence = read.sequence,
           read'.tip = read.tip, read'.pc \in SeenTip,
           read'.pc = "confirmed" => Unspent[read.tip] \subseteq read'.candidates,
           read'.pc = "authorized" /\ StableRead => read'.found = Unspent[tip] \ Hidden,
           read'.pc = "check" /\ StableRead => read'.found = Protected
    PROVE  ReadOK'
<1>1. StableRead' = StableRead /\ Hidden' = Hidden /\ Protected' = Protected /\ tip' = tip
      BY DEF StableRead, Hidden, Protected, coreVars
<1>2. WasTip(read.tip)' /\ UNCHANGED <<pool, sequence>>
      BY DEF CacheIInv, ReadOK, WasTip, coreVars
<1> QED BY <1>1, <1>2 DEF CacheIInv, ReadOK

LEMMA ReadCacheOK == ASSUME CacheIInv, ReadCache PROVE CacheIInv'
<1>1. /\ read.pc = "cache" /\ UNCHANGED <<coreVars, backendVars, refresh, seed>>
      /\ read' = IF CacheAtTip
                 THEN [read EXCEPT !.pc = "confirmed", !.candidates = cache.candidates]
                 ELSE NoRead
      BY DEF ReadCache
<1>2. ReadTypes /\ cache \in CacheRecord /\ read.tip \in Blocks
      BY <1>1 DEF CacheIInv, CacheTypes, BackendTypes, ReadOK, SeenTip, WasTip
<1>3. CASE ~ CacheAtTip
      BY <1>1, <1>3, NoReadFacts, ReadRests, ReadFrame DEF ReadTypes
<1>4. CASE CacheAtTip
  <2>1. /\ read'.pc = "confirmed" /\ read'.resident = read.resident
        /\ read'.sequence = read.sequence /\ read'.tip = read.tip
        /\ read'.candidates = cache.candidates /\ ReadTypes'
        BY <1>1, <1>2, <1>4 DEF ReadTypes, ReadPcs, CacheRecord
  <2>2. Unspent[read.tip] \subseteq cache.candidates
        BY <1>2, <1>4, CacheAssumption DEF CacheIInv, CacheCovers, CacheAtTip
  <2>3. ReadOK'
        BY <1>1, <2>1, <2>2, ReadGoesOn DEF SeenTip
  <2> QED BY <1>1, <2>1, <2>3, ReadFrame
<1> QED BY <1>3, <1>4

LEMMA ReadConfirmedOK == ASSUME CacheIInv, ReadConfirmed PROVE CacheIInv'
<1> DEFINE now == (read.candidates \cap Unspent[tip]) \ Hidden
<1>1. /\ read.pc = "confirmed" /\ UNCHANGED <<coreVars, backendVars, refresh, seed>>
      /\ read' = [read EXCEPT !.pc = "authorized", !.candidates = {}, !.found = now]
      BY DEF ReadConfirmed
<1>2. ReadTypes /\ now \subseteq Coins
      BY DEF CacheIInv, CacheTypes, ReadTypes
<1> HIDE DEF now
<1>3. /\ read'.pc = "authorized" /\ read'.resident = read.resident
      /\ read'.sequence = read.sequence /\ read'.tip = read.tip /\ read'.found = now
      BY <1>1, <1>2 DEF ReadTypes
<1>4. ReadTypes'
      BY <1>1, <1>2 DEF ReadTypes, ReadPcs
<1>5. StableRead => now = Unspent[tip] \ Hidden
      BY <1>1 DEF now, StableRead, CacheIInv, ReadOK
<1>6. ReadOK'
      BY <1>1, <1>3, <1>5, ReadGoesOn DEF SeenTip
<1> QED BY <1>1, <1>4, <1>6, ReadFrame

LEMMA ReadAuthorizedOK == ASSUME CacheIInv, ReadAuthorized PROVE CacheIInv'
<1> DEFINE now == read.found \cup (AcceptedOutputs \ Hidden)
<1>1. /\ read.pc = "authorized" /\ UNCHANGED <<coreVars, backendVars, refresh, seed>>
      /\ read' = [read EXCEPT !.pc = "check", !.found = now]
      BY DEF ReadAuthorized
<1>2. ReadTypes /\ AcceptedOutputs \subseteq Coins
      BY CacheAssumption DEF CacheIInv, CacheTypes, CoreTypes, WalletRecord,
              AcceptedOutputs
<1>3. now \subseteq Coins
      BY <1>2 DEF ReadTypes
<1> HIDE DEF now
<1>4. /\ read'.pc = "check" /\ read'.resident = read.resident
      /\ read'.sequence = read.sequence /\ read'.tip = read.tip /\ read'.found = now
      BY <1>1, <1>2 DEF ReadTypes
<1>5. ReadTypes'
      BY <1>1, <1>2, <1>3 DEF ReadTypes, ReadPcs
<1>6. StableRead => now = Protected
  <2> SUFFICES ASSUME StableRead PROVE now = Protected
      OBVIOUS
  <2>1. pool \subseteq read.resident /\ read.found = Unspent[tip] \ Hidden
        BY <1>1 DEF StableRead, CacheIInv, ReadOK, SeenTip
  <2>2. read.resident \cap Accepted \cap pool = pool \cap Accepted
        BY <2>1
  <2> QED BY <2>1, <2>2 DEF now, Protected, AcceptedOutputs
<1>7. ReadOK'
      BY <1>1, <1>4, <1>6, ReadGoesOn DEF SeenTip
<1> QED BY <1>1, <1>5, <1>7, ReadFrame

LEMMA CheckReadOK == ASSUME CacheIInv, CheckRead PROVE CacheIInv'
<1>1. /\ UNCHANGED <<coreVars, backendVars, refresh, seed>>
      /\ \/ read' = [NoRead EXCEPT !.pc = "done", !.found = read.found]
         \/ read' = [NoRead EXCEPT !.pc = "again"]
         \/ read' = NoRead
      BY DEF CheckRead
<1>2. read.found \subseteq Coins
      BY DEF CacheIInv, CacheTypes, ReadTypes
<1>3. read'.pc \in {"idle", "again", "done"} /\ ReadTypes'
      BY <1>1, <1>2, NoReadFacts DEF ReadTypes, ReadPcs
<1> QED BY <1>1, <1>3, ReadRests, ReadFrame

LEMMA ReadStepOK == ASSUME CacheIInv, ReadStep PROVE CacheIInv'
BY SnapshotMempoolOK, ReadTipOK, ReadCacheOK, ReadConfirmedOK, ReadAuthorizedOK, CheckReadOK
   DEF ReadStep

-----------------------------------------------------------------------------

\* The process and what it kept in memory are gone; Core's wallet keeps its invariant.
LEMMA RestartOK == ASSUME CacheIInv, Restart PROVE CacheIInv'
<1>1. /\ handle' = NoBlock /\ latched' = FALSE /\ importing' = FALSE /\ cache' = NoCache
      /\ refresh' = NoPass /\ seed' = NoSeed /\ read' = NoRead
      /\ UNCHANGED <<tip, reorgs, pool, sequence, wallet>>
      BY DEF Restart, coreVars
<1>2. CoreTypes' /\ RefreshTypes' /\ SeedTypes' /\ ReadTypes'
      BY <1>1, NoPassFacts, NoSeedFacts, NoReadFacts
         DEF CacheIInv, CacheTypes, CoreTypes, WalletRecord, RefreshTypes, SeedTypes,
             ReadTypes
<1>3. BackendTypes' /\ CacheCovers'
      BY <1>1, NoPassFacts, NoSeedFacts DEF BackendTypes, CacheCovers, Anchors, NoCache
<1>4. WalletOK'
      BY <1>1, WalletStays DEF CacheIInv
<1>5. SeedOK' /\ ReadOK'
      BY <1>1, NoSeedFacts, NoReadFacts, ReadRests DEF SeedOK
<1>6. RefreshOK'
      BY <1>1, RefreshEndsOK DEF RefreshEnds
<1> QED BY <1>2, <1>3, <1>4, <1>5, <1>6 DEF CacheIInv, CacheTypes

\* Times are bounded: Never is a time after all of them.
LEMMA NeverType == Never \in Nat
<1> DEFINE R == OpToRel(<, Nat)
           S == {Time[b] : b \in Blocks}
<1>1. PICK n \in Nat : ExistsSurjection(1 .. n, Blocks)
      BY CacheAssumption, FS_NatSurjection
<1>2. PICK f \in [1 .. n -> Blocks] : \A b \in Blocks : \E i \in 1 .. n : f[i] = b
      BY <1>1 DEF ExistsSurjection, Surjection
<1> DEFINE g == [i \in 1 .. n |-> Time[f[i]]]
<1>3. g \in [1 .. n -> Nat] /\ \A b \in Blocks : \E i \in 1 .. n : g[i] = Time[b]
      BY <1>2, CacheAssumption
<1> HIDE DEF g
<1> DEFINE Under(k) == \E m \in Nat : \A i \in 1 .. k : g[i] <= m
           U == {k \in 0 .. n : ~ Under(k)}
<1>4. U = {}
  <2>1. IsWellFoundedOn(R, Nat)
        BY NatLessThanWellFounded
  <2>2. \A x, y \in Nat : y < x => <<y, x>> \in R
        BY DEF OpToRel
  <2> HIDE DEF R
  <2> SUFFICES ASSUME U # {} PROVE FALSE
      OBVIOUS
  <2>3. U \subseteq Nat
        BY <1>1
  <2>4. PICK k \in U : \A y \in U : ~ (<<y, k>> \in R)
        BY <2>1, <2>3, WFMin
  <2>5. Under(0)
    <3>1. \A i \in 1 .. 0 : g[i] <= 0
          OBVIOUS
    <3> QED BY <3>1
  <2>6. k # 0
        BY <2>4, <2>5
  <2>7. k \in 1 .. n /\ k - 1 \in 0 .. n /\ k - 1 < k /\ k - 1 \in Nat /\ k \in Nat
        BY <1>1, <2>4, <2>6
  <2>8. Under(k - 1)
        BY <2>2, <2>4, <2>7
  <2>9. PICK m \in Nat : \A i \in 1 .. k - 1 : g[i] <= m
        BY <2>8
  <2> HIDE DEF U
  <2>10. g[k] \in Nat /\ \A i \in 1 .. k : g[i] \in Nat
        BY <1>1, <1>3, <2>7
  <2>11. \A i \in 1 .. k : g[i] <= m + g[k]
        BY <2>7, <2>9, <2>10
  <2>12. m + g[k] \in Nat
        BY <2>9, <2>10
  <2>13. Under(k)
        BY <2>11, <2>12
  <2> QED BY <2>4, <2>13 DEF U
<1>5. Under(n)
  <2>1. n \in 0 .. n
        BY <1>1
  <2> QED BY <1>4, <2>1
<1>6. PICK m \in Nat : \A i \in 1 .. n : g[i] <= m
      BY <1>5
<1> HIDE DEF U, Under
<1>7. S \subseteq 0 .. m /\ S # {}
  <2>1. \A i \in 1 .. n : g[i] \in 0 .. m
        BY <1>1, <1>3, <1>6
  <2>2. \A b \in Blocks : Time[b] \in 0 .. m
        BY <1>3, <2>1
  <2> QED BY <2>2, CacheAssumption
<1>8. Max(S) \in S
      BY <1>6, <1>7, MaxOfBounded
<1>9. Never = 1 + Max(S)
      BY DEF Never
<1> HIDE DEF S
<1>10. Max(S) \in 0 .. m
      BY <1>7, <1>8
<1> QED BY <1>6, <1>9, <1>10

LEMMA CacheInitial == ASSUME CacheInit, MaxReorgs \in 0 .. 1 PROVE CacheIInv
<1>1. /\ tip = Root /\ reorgs = 0 /\ pool = {} /\ sequence = 0 /\ wallet = NoWallet
      /\ handle = NoBlock /\ latched = FALSE /\ importing = FALSE /\ cache = NoCache
      /\ refresh = NoPass /\ seed = NoSeed /\ read = NoRead
      BY DEF CacheInit, CacheAtRest
<1>2. Root \in Blocks
      BY CacheAssumption
<1>3. CoreTypes
      BY <1>1, <1>2, NeverType DEF CoreTypes, WalletRecord, NoWallet
<1>4. RefreshTypes /\ SeedTypes /\ ReadTypes
      BY <1>1, NoPassFacts, NoSeedFacts, NoReadFacts DEF RefreshTypes, SeedTypes,
              ReadTypes
<1>5. BackendTypes /\ CacheCovers
      BY <1>1, NoPassFacts, NoSeedFacts DEF BackendTypes, CacheCovers, Anchors, NoCache
<1>6. WalletOK
      BY <1>1, <1>2 DEF WalletOK, WasTip, NoWallet
<1>7. SeedOK /\ ReadOK
      BY <1>1, NoSeedFacts, NoReadFacts DEF SeedOK, ReadOK, SeenTip
<1>8. RefreshOK
      BY <1>1, NoPassFacts DEF RefreshOK, CoversAt, WalletPhases, Opened
<1> QED BY <1>3, <1>4, <1>5, <1>6, <1>7, <1>8 DEF CacheIInv, CacheTypes

LEMMA CacheStep ==
    ASSUME MaxReorgs \in 0 .. 1, CacheIInv, [CacheNext]_cacheVars PROVE CacheIInv'
<1>1. CASE UNCHANGED cacheVars
  <2>1. UNCHANGED <<coreVars, backendVars, refresh, seed, read>>
        BY <1>1 DEF cacheVars
  <2>2. ReadTypes' /\ ReadOK'
        BY <2>1, ReadStays DEF coreVars, CacheIInv, CacheTypes, ReadTypes
  <2> QED BY <2>1, <2>2, ReadFrame
<1> QED BY <1>1, CoreStepOK, RefreshStepOK, RefreshFailsOK, SeedStepOK, SeedFailsOK,
           ReadStepOK, RestartOK DEF CacheNext

\* The inductive invariant of the cache, the wallet behind it and the reader, for any tree
\* of blocks and transactions and any bound on delta, mempool and mishaps, where the chain
\* leaves its branch at most once: refresh_vault_unspent_cache_mode, seed_vault_wallet and
\* vault_unspent between any two RPCs.
THEOREM CacheInductive == ASSUME MaxReorgs \in 0 .. 1 PROVE CacheSpec => []CacheIInv
<1>1. CacheInit => CacheIInv
      BY CacheInitial
<1>2. CacheIInv /\ [CacheNext]_cacheVars => CacheIInv'
      BY CacheStep
<1> QED BY <1>1, <1>2, PTL DEF CacheSpec

\* Under the same bound the cache holds every vault output that is unspent at the block it
\* names, whether the wallet, a delta or a scan built it and whatever reorg, lag, failure
\* or restart came in between: scan_cache never under-reports.
THEOREM CacheInvHolds == ASSUME MaxReorgs \in 0 .. 1 PROVE CacheSpec => []CacheInv
<1>1. CacheIInv => CacheInv
      BY DEF CacheIInv, CacheInv, CacheTypeOK, CacheTypes, CoreTypes, WalletRecord,
             BackendTypes,
             CacheRecord, Anchors
<1> QED BY <1>1, CacheInductive, PTL

\* Under the same bound an answer of vault_unspent is the whole vault at the instant it is
\* given: the tip and the mempool sequence that did not move vouch for every read between.
THEOREM AnswerIsWholeHolds == ASSUME MaxReorgs \in 0 .. 1 PROVE CacheSpec => AnswerIsWhole
<1>1. ASSUME CacheIInv, [CacheNext]_cacheVars
      PROVE  [read.pc # "done" /\ read'.pc = "done" => read'.found = Protected]_cacheVars
  <2> SUFFICES ASSUME read.pc # "done", read'.pc = "done" PROVE read'.found = Protected
      OBVIOUS
  <2>1. ReadTypes
        BY <1>1 DEF CacheIInv, CacheTypes
  <2>2. CheckRead
    <3>1. read' # read
          OBVIOUS
    <3>2. ReadStep
      <4>1. ~ Restart
            BY NoReadFacts DEF Restart
      <4> QED BY <1>1, <3>1, <4>1
              DEF CacheNext, cacheVars, CoreStep, NewTip, Enter, Leave, WalletSync,
                  RefreshStep, StartRefresh, OpenWallet, ReadBest, ListUnspent,
                  ListSinceBlock, CheckBest, ConfirmWalletBlock, PublishRead, ChooseBase,
                  ReadTipHeight, WalkBlocks, ColdScan, PublishScan, RefreshFails,
                  SeedStep, EnsureWallet, ReimportIfPending, ReadBirthday, CheckAnchor,
                  ImportDescriptors, ImportMarker, VerifyCreated, SeedFails
    <3>3. ~ SnapshotMempool
          BY NoReadFacts DEF SnapshotMempool
    <3>4. ~ ReadTip /\ ~ ReadConfirmed /\ ~ ReadAuthorized
          BY <2>1 DEF ReadTip, ReadConfirmed, ReadAuthorized, ReadTypes
    <3>5. ~ ReadCache
          BY <2>1, NoReadFacts DEF ReadCache, ReadTypes
    <3> QED BY <3>2, <3>3, <3>4, <3>5 DEF ReadStep
  <2>3. read.pc = "check" /\ StableRead /\ read'.found = read.found
        BY <2>2, NoReadFacts DEF CheckRead
  <2> QED BY <1>1, <2>3 DEF CacheIInv, ReadOK
<1> QED BY <1>1, CacheInductive, PTL DEF CacheSpec, AnswerIsWhole
=============================================================================
