------------------------- MODULE CandidateStoreProofs -------------------------
(***************************************************************************)
(* Proofs about CandidateStore: the registry, the Hot ledger, the Armed    *)
(* overlay and the fire driver of one node, for any requests, carriers,    *)
(* amounts, windows and clock steps.                                       *)
(*                                                                         *)
(* The argument follows one request.  It is known to the node once it was  *)
(* accepted or has expired, and between the two reserves of the handler's  *)
(* last hold nothing of it exists but the handler's own reservation        *)
(* (FreshInv).  From then on SpendIsMetered ties its candidate, its        *)
(* reservation and its exposure together, and FireInv says what the fire   *)
(* driver may assume of a candidate between two holds of the store.  Then  *)
(* the budget is a bound on the whole ledger (BudgetInv), kept by reserve  *)
(* alone.  Every step of Next is one of a few kinds (Quiet, Removal,       *)
(* Metered, Pruning, ...), and the invariant is shown for each kind.       *)
(*                                                                         *)
(* What needs more than the code guarantees is a hypothesis of the theorem:*)
(* ~ SlowSends (a send is answered before its commitment is seen to be     *)
(* over) and ~ ClockRewinds (the wall clock is not set back over an expiry *)
(* it had reached).  Types and the Armed overlay need neither.             *)
(***************************************************************************)
EXTENDS CandidateStore, TLAPS, FiniteSetTheorems, NaturalsInduction,
        WellFoundedInduction

-----------------------------------------------------------------------------
(* The inductive invariant.                                                  *)

\* r has been accepted, or can no longer be: a handler that gets as far as the
\* ledger finds neither.
Known(r) == r \in replay \/ ExpiryOf[r] <= wall

\* The clocks: an expiry that was ever reached or passed still is.
ClockInv ==
    /\ wall <= peak /\ highWater <= peak
    /\ steps = 0 => wall = peak
    /\ \A r \in Requests : /\ ExpiryOf[r] <= peak => ExpiryOf[r] <= wall
                           /\ ExpiryOf[r] < peak => ExpiryOf[r] < wall
    /\ sign.raw <= sign.now /\ sign.now <= peak

\* Whatever the store knows of a request comes after its acceptance.
KnownInv ==
    /\ \A id \in Ids : cand[id].present => Known(id[1])
    /\ armed.sweep => armed.escape \in Requests /\ Known(armed.escape)
    /\ \A k \in Carriers : intent[k].req # NoReq => Known(intent[k].req)
    /\ \A r \in Requests : exposed[r].held => Known(r)

\* Between its two reserves, a handler's request is new to the node, and a hot
\* one's reservation is the handler's own.
FreshInv == sign.pc = "reserved" =>
    LET r == ReqOf[sign.carrier] IN
    /\ r \notin replay /\ sign.now < ExpiryOf[r]
    /\ ~ cand[SpendId(r)].present /\ ~ cand[EscapeId(r)].present
    /\ ~ exposed[r].held
    /\ armed.sweep => armed.escape # r
    /\ sign.owned = (r \in Hot)

\* A hot spend, its reservation and its exposure.
SpendIsMetered(r) ==
    LET s == cand[SpendId(r)] IN
    /\ s.present => s.deadline <= ExpiryOf[r]
    /\ s.present /\ ~ s.broadcast /\ wall <= ExpiryOf[r] => ledger[r].held
    /\ s.present /\ s.released => exposed[r].held
    /\ s.present /\ ~ s.released /\ ~ s.broadcast /\ exposed[r].held =>
           fire.pc = "settle" /\ fire.id = SpendId(r)
    /\ ExposedInWindow(r) => ledger[r] = exposed[r]
    /\ ledger[r].held =>
           \/ sign.pc = "reserved" /\ r = ReqOf[sign.carrier]
           \/ s.present /\ ~ s.broadcast
           \/ exposed[r].held

SpendInv == \A r \in Hot : SpendIsMetered(r)

\* The fire driver works on candidates that are still there, releases none that
\* is settled, and sends a hot spend under its reservation.
FireInv ==
    /\ fire.pc \in {"sending", "settle"} => cand[fire.id].present
    /\ fire.pc = "sending" /\ IsHot(fire.id) =>
           /\ ledger[fire.id[1]].held
           /\ sign.pc = "reserved" => sign.raw <= ExpiryOf[fire.id[1]]
    /\ fire.pc \in {"poll", "release"} => \A id \in fire.due : ~ cand[id].broadcast
    /\ \A q \in pending : cand[SpendId(q)].broadcast =>
           fire.pc = "pending" /\ q \in fire.settled

\* All that is reserved fits the window's budget: reserve looks at the live part only,
\* but has dropped the rest first.
BudgetInv == SumOf[HeldIn(ledger)] <= MaxPerWindowSat

\* The inductive invariant.
StoreInv ==
    /\ TypeOK /\ ClockInv /\ KnownInv /\ FreshInv /\ SpendInv /\ FireInv
    /\ BudgetInv /\ LockdownBeforeHoldEnds /\ SweepCanFire

-----------------------------------------------------------------------------
(* Sums of outflows.  Induction over the size of a set is an argument about   *)
(* the least size for which a claim fails.                                    *)

\* A set of naturals with 0, closed under successor, has every natural.
LEMMA LeastNatural ==
    ASSUME NEW T \in SUBSET Nat, 0 \in T, \A n \in T : n + 1 \in T
    PROVE  T = Nat
<1> DEFINE R == OpToRel(<, Nat)
           U == Nat \ T
<1>1. IsWellFoundedOn(R, Nat)
      BY NatLessThanWellFounded
<1>2. \A x, y \in Nat : y < x => <<y, x>> \in R
      BY DEF OpToRel
<1> HIDE DEF R
<1> SUFFICES ASSUME U # {} PROVE FALSE
    OBVIOUS
<1>3. PICK m \in U : \A y \in U : ~ (<<y, m>> \in R)
      BY <1>1, WFMin
<1>4. m \in Nat /\ m # 0 /\ m - 1 \in Nat /\ m - 1 < m /\ (m - 1) + 1 = m
      BY <1>3
<1>5. m - 1 \notin U
      BY <1>2, <1>3, <1>4
<1> QED BY <1>3, <1>4, <1>5

\* What SumOf adds to the sum g has for smaller sets.
Summed(g, S) ==
    IF S = {} THEN 0
    ELSE Outflow[CHOOSE r \in S : TRUE] + g[S \ {CHOOSE r \in S : TRUE}]

\* Requests are finitely many, and so are those of every set of them.
LEMMA RequestSets ==
    ASSUME NEW S \in SUBSET Requests
    PROVE  /\ IsFiniteSet(S) /\ Cardinality(S) \in Nat
           /\ Cardinality(S) <= Cardinality(Requests)
           /\ Cardinality(Requests) \in Nat
           /\ \A x \in S : Cardinality(S \ {x}) = Cardinality(S) - 1
           /\ Cardinality(S) = 0 <=> S = {}
<1>1. IsFiniteSet(Requests)
      BY StoreAssumption
<1>2. IsFiniteSet(S) /\ Cardinality(S) <= Cardinality(Requests)
      BY <1>1, FS_Subset
<1>3. Cardinality(S) \in Nat /\ Cardinality(Requests) \in Nat
      BY <1>1, <1>2, FS_CardinalityType
<1>4. \A x \in S : Cardinality(S \ {x}) = Cardinality(S) - 1
      BY <1>2, FS_RemoveElement
<1>5. Cardinality(S) = 0 <=> S = {}
      BY <1>2, FS_EmptySet
<1> QED BY <1>2, <1>3, <1>4, <1>5

\* The recursion of SumOf is well founded: there is a function that satisfies it.
LEMMA SumExists ==
    \E g \in [SUBSET Requests -> Nat] : \A S \in SUBSET Requests : g[S] = Summed(g, S)
<1> DEFINE Upto(g, n) == \A S \in SUBSET Requests :
               Cardinality(S) <= n => g[S] = Summed(g, S)
           T == {n \in Nat : \E g \in [SUBSET Requests -> Nat] : Upto(g, n)}
<1>1. 0 \in T
  <2> DEFINE g == [S \in SUBSET Requests |-> 0]
  <2>1. ASSUME NEW S \in SUBSET Requests, Cardinality(S) <= 0
        PROVE  g[S] = Summed(g, S)
    <3>1. S = {}
          BY <2>1, RequestSets
    <3> QED BY <3>1 DEF Summed
  <2>2. g \in [SUBSET Requests -> Nat] /\ Upto(g, 0)
        BY <2>1
  <2> QED BY <2>2
<1>2. ASSUME NEW n \in T PROVE n + 1 \in T
  <2>1. PICK g \in [SUBSET Requests -> Nat] : Upto(g, n)
        BY <1>2
  <2> DEFINE h == [S \in SUBSET Requests |-> Summed(g, S)]
  <2>2. ASSUME NEW S \in SUBSET Requests, S # {}
        PROVE  /\ (CHOOSE r \in S : TRUE) \in S
               /\ S \ {CHOOSE r \in S : TRUE} \in SUBSET Requests
               /\ Cardinality(S \ {CHOOSE r \in S : TRUE}) = Cardinality(S) - 1
               /\ Outflow[CHOOSE r \in S : TRUE] \in Nat
    <3>1. (CHOOSE r \in S : TRUE) \in S
          BY <2>2
    <3>2. Outflow \in [Requests -> Nat]
          BY StoreAssumption
    <3> QED BY <3>1, <3>2, RequestSets
  <2>3. ASSUME NEW S \in SUBSET Requests PROVE Summed(g, S) \in Nat
        BY <2>1, <2>2 DEF Summed
  <2>4. h \in [SUBSET Requests -> Nat]
        BY <2>3
  <2>5. ASSUME NEW S \in SUBSET Requests, Cardinality(S) <= n PROVE h[S] = g[S]
        BY <2>1, <2>5
  <2>6. ASSUME NEW S \in SUBSET Requests, Cardinality(S) <= n + 1
        PROVE  h[S] = Summed(h, S)
    <3>1. CASE S = {}
          BY <3>1 DEF Summed
    <3>2. CASE S # {}
      <4> DEFINE c == CHOOSE r \in S : TRUE
      <4>1. S \ {c} \in SUBSET Requests /\ Cardinality(S \ {c}) <= n
        <5>1. n \in Nat /\ Cardinality(S) \in Nat
              BY RequestSets
        <5> QED BY <5>1, <2>2, <2>6, <3>2
      <4>2. h[S \ {c}] = g[S \ {c}]
            BY <4>1, <2>5
      <4>3. h[S] = Outflow[c] + g[S \ {c}]
            BY <3>2 DEF Summed
      <4>4. Summed(h, S) = Outflow[c] + h[S \ {c}]
            BY <3>2 DEF Summed
      <4> QED BY <4>2, <4>3, <4>4
    <3> QED BY <3>1, <3>2
  <2> HIDE DEF h
  <2> QED BY <2>4, <2>6
<1>3. T = Nat
  <2> HIDE DEF T
  <2>1. T \in SUBSET Nat
        BY DEF T
  <2> QED BY <1>1, <1>2, <2>1, LeastNatural
<1>4. Cardinality(Requests) \in T
      BY <1>3, RequestSets
<1>5. PICK g \in [SUBSET Requests -> Nat] : Upto(g, Cardinality(Requests))
      BY <1>4
<1>6. \A S \in SUBSET Requests : g[S] = Summed(g, S)
      BY <1>5, RequestSets
<1> QED BY <1>5, <1>6

\* SumOf satisfies its recursion.
LEMMA SumOfRecursion == \A S \in SUBSET Requests : SumOf[S] = Summed(SumOf, S)
<1>1. PICK g \in [SUBSET Requests -> Nat] :
          \A S \in SUBSET Requests : g[S] = Summed(g, S)
      BY SumExists
<1>2. g = [S \in SUBSET Requests |-> Summed(g, S)]
      BY <1>1
<1>3. SumOf = [S \in SUBSET Requests |-> Summed(SumOf, S)]
      BY <1>2 DEF SumOf, Summed
<1> QED BY <1>3

LEMMA SumOfEmpty == SumOf[{}] = 0
<1>1. {} \in SUBSET Requests
      OBVIOUS
<1> QED BY <1>1, SumOfRecursion DEF Summed

LEMMA SumOfType == \A S \in SUBSET Requests : SumOf[S] \in Nat
<1> DEFINE T == {n \in Nat : \A S \in SUBSET Requests :
                     Cardinality(S) = n => SumOf[S] \in Nat}
<1>1. 0 \in T
      BY SumOfEmpty, RequestSets
<1>2. ASSUME NEW n \in T PROVE n + 1 \in T
  <2> SUFFICES ASSUME NEW S \in SUBSET Requests, Cardinality(S) = n + 1
               PROVE  SumOf[S] \in Nat
      OBVIOUS
  <2> DEFINE c == CHOOSE r \in S : TRUE
  <2>1. n \in Nat /\ S # {}
        BY RequestSets
  <2>2. c \in S /\ S \ {c} \in SUBSET Requests
        BY <2>1
  <2>3. Cardinality(S \ {c}) = n
    <3>1. Cardinality(S \ {c}) = Cardinality(S) - 1
          BY <2>2, RequestSets
    <3> HIDE DEF c
    <3> QED BY <2>1, <3>1
  <2>4. SumOf[S \ {c}] \in Nat /\ Outflow[c] \in Nat
        BY <2>2, <2>3, StoreAssumption
  <2>5. SumOf[S] = Outflow[c] + SumOf[S \ {c}]
        BY <2>1, SumOfRecursion DEF Summed
  <2> QED BY <2>4, <2>5
<1>3. T = Nat
  <2> HIDE DEF T
  <2>1. T \in SUBSET Nat
        BY DEF T
  <2> QED BY <1>1, <1>2, <2>1, LeastNatural
<1> QED BY <1>3, RequestSets

\* The order in which SumOf takes the requests does not matter.
LEMMA SumOfAdds ==
    ASSUME NEW S \in SUBSET Requests, NEW x \in Requests, x \notin S
    PROVE  SumOf[S \cup {x}] = SumOf[S] + Outflow[x]
<1> DEFINE Adds(U, y) == SumOf[U \cup {y}] = SumOf[U] + Outflow[y]
           T == {n \in Nat : \A U \in SUBSET Requests, y \in Requests :
                     Cardinality(U) = n /\ y \notin U => Adds(U, y)}
<1>1. ASSUME NEW n \in Nat, n = 0 \/ n - 1 \in T PROVE n \in T
  <2> SUFFICES ASSUME NEW U \in SUBSET Requests, NEW y \in Requests,
                      Cardinality(U) = n, y \notin U
               PROVE  Adds(U, y)
      OBVIOUS
  <2> DEFINE V == U \cup {y}
             c == CHOOSE r \in V : TRUE
  <2>1. V \in SUBSET Requests /\ V # {} /\ c \in V
        OBVIOUS
  <2>2. SumOf[V] = Outflow[c] + SumOf[V \ {c}]
        BY <2>1, SumOfRecursion DEF Summed
  <2>3. /\ SumOf[U] \in Nat /\ SumOf[V \ {c}] \in Nat
        /\ Outflow[y] \in Nat /\ Outflow[c] \in Nat
    <3>1. U \in SUBSET Requests /\ V \ {c} \in SUBSET Requests /\ c \in Requests
          BY <2>1
    <3>2. Outflow \in [Requests -> Nat]
          BY StoreAssumption
    <3> HIDE DEF c, V
    <3> QED BY <3>1, <3>2, SumOfType
  <2>4. CASE c = y
    <3>1. V \ {c} = U
          BY <2>4
    <3> HIDE DEF c, V
    <3>2. SumOf[V] = SumOf[U] + Outflow[y]
          BY <2>2, <2>3, <2>4, <3>1
    <3> QED BY <3>2 DEF V
  <2>5. CASE c # y
    <3> DEFINE W == U \ {c}
    <3>1. c \in U /\ U # {} /\ W \in SUBSET Requests
          BY <2>1, <2>5
    <3>2. n # 0 /\ Cardinality(W) = n - 1 /\ n - 1 \in Nat
          BY <3>1, RequestSets
    <3>3. c \in Requests /\ c \notin W /\ y \notin W
          BY <3>1
    <3>4. Adds(W, c) /\ Adds(W, y)
          BY <1>1, <3>1, <3>2, <3>3
    <3>5. W \cup {c} = U /\ V \ {c} = W \cup {y}
          BY <3>1, <2>5
    <3>6. SumOf[U] = SumOf[W] + Outflow[c]
          BY <3>4, <3>5
    <3>7. SumOf[V \ {c}] = SumOf[W] + Outflow[y]
          BY <3>4, <3>5
    <3>8. SumOf[W] \in Nat
          BY <3>1, SumOfType
    <3> HIDE DEF V, c, W
    <3>9. SumOf[V] = SumOf[U] + Outflow[y]
          BY <2>2, <2>3, <3>6, <3>7, <3>8
    <3> QED BY <3>9 DEF V
  <2> QED BY <2>4, <2>5
<1>2. T = Nat
  <2> HIDE DEF T
  <2>1. T \in SUBSET Nat
        BY DEF T
  <2>2. 0 \in T
        BY <1>1
  <2>3. ASSUME NEW n \in T PROVE n + 1 \in T
    <3>1. n \in Nat /\ n + 1 \in Nat /\ (n + 1) - 1 = n
          BY <2>1
    <3> QED BY <3>1, <1>1
  <2> QED BY <2>1, <2>2, <2>3, LeastNatural
<1>3. Cardinality(S) \in T
      BY <1>2, RequestSets
<1> QED BY <1>3

\* A part of a set has at most its outflow.
LEMMA SumOfPart ==
    ASSUME NEW A \in SUBSET Requests, NEW B \in SUBSET A
    PROVE  SumOf[B] <= SumOf[A]
<1> DEFINE T == {n \in Nat : \A V \in SUBSET Requests : \A U \in SUBSET V :
                     Cardinality(V) = n => SumOf[U] <= SumOf[V]}
<1>1. 0 \in T
  <2> SUFFICES ASSUME NEW V \in SUBSET Requests, NEW U \in SUBSET V, Cardinality(V) = 0
               PROVE  SumOf[U] <= SumOf[V]
      OBVIOUS
  <2>1. V = {} /\ U = {}
        BY RequestSets
  <2> QED BY <2>1, SumOfEmpty
<1>2. ASSUME NEW n \in T PROVE n + 1 \in T
  <2> SUFFICES ASSUME NEW V \in SUBSET Requests, NEW U \in SUBSET V,
                      Cardinality(V) = n + 1
               PROVE  SumOf[U] <= SumOf[V]
      OBVIOUS
  <2>1. SumOf[U] \in Nat /\ SumOf[V] \in Nat /\ n \in Nat
    <3>1. U \in SUBSET Requests
          OBVIOUS
    <3> QED BY <3>1, SumOfType
  <2>2. CASE U = V
        BY <2>1, <2>2
  <2>3. CASE U # V
    <3>1. PICK x \in V : x \notin U
          BY <2>3
    <3> DEFINE W == V \ {x}
    <3>2. U \in SUBSET W /\ W \in SUBSET Requests /\ W \cup {x} = V /\ x \in Requests
          BY <3>1
    <3>3. Cardinality(W) = n
          BY <3>1, <2>1, RequestSets
    <3>4. SumOf[U] <= SumOf[W]
          BY <1>2, <3>2, <3>3
    <3>5. SumOf[V] = SumOf[W] + Outflow[x]
          BY <3>2, SumOfAdds
    <3>6. SumOf[W] \in Nat /\ Outflow[x] \in Nat
          BY <3>2, SumOfType, StoreAssumption
    <3> HIDE DEF W
    <3> QED BY <2>1, <3>4, <3>5, <3>6
  <2> QED BY <2>2, <2>3
<1>3. T = Nat
  <2> HIDE DEF T
  <2>1. T \in SUBSET Nat
        BY DEF T
  <2> QED BY <1>1, <1>2, <2>1, LeastNatural
<1>4. Cardinality(A) \in T
      BY <1>3, RequestSets
<1> QED BY <1>4

-----------------------------------------------------------------------------
(* The operators of the model: types, and what they keep.                    *)

Overlays == [active : BOOLEAN, fireAt : Nat, escape : Requests \cup {NoReq},
             sweep : BOOLEAN, slack : Nat]
Registries == [Ids -> Candidate]
Ledgers == [Requests -> Reservation]

\* The bounds are naturals.
LEMMA Bounds ==
    /\ HoldSecs \in Nat /\ EpsilonSecs \in Nat /\ CombineSlackSecs \in Nat
    /\ DuressDelaySecs \in Nat /\ GraceSecs \in Nat /\ MaxCommitmentAgeSecs \in Nat
    /\ DeliveryHorizonSecs \in Nat /\ HotWindowSecs \in Nat
    /\ MaxPerWindowSat \in Nat /\ MaxTime \in Nat /\ MaxWallSteps \in Nat
    /\ MaxHotReservations \in Nat /\ MaxActiveCandidates \in Nat
BY StoreAssumption

LEMMA Arithmetic ==
    ASSUME NEW a \in Nat, NEW b \in Nat
    PROVE  /\ Monus(a, b) \in Nat /\ Least(a, b) \in Nat /\ Most(a, b) \in Nat
           /\ Monus(a, b) <= a
           /\ Least(a, b) <= a /\ Least(a, b) <= b /\ Least(a, b) \in {a, b}
           /\ a <= Most(a, b) /\ b <= Most(a, b) /\ Most(a, b) \in {a, b}
BY DEF Monus, Least, Most

\* A candidate's id is its request and its role.
LEMMA IdFacts ==
    /\ \A r \in Requests : /\ SpendId(r) \in Ids /\ EscapeId(r) \in Ids
                           /\ SpendId(r)[1] = r /\ EscapeId(r)[1] = r
                           /\ ~ IsEscape(SpendId(r)) /\ IsEscape(EscapeId(r))
                           /\ IsHot(SpendId(r)) <=> r \in Hot
                           /\ SpendId(r) # EscapeId(r)
    /\ \A id \in Ids : /\ id[1] \in Requests
                       /\ IsEscape(id) => id = EscapeId(id[1]) /\ ~ IsHot(id)
                       /\ ~ IsEscape(id) => id = SpendId(id[1])
                       /\ IsHot(id) => id[1] \in Hot /\ id = SpendId(id[1])
    /\ Ids # {}
<1>1. Requests # {}
      BY StoreAssumption
<1>2. Hot \subseteq Requests
      BY StoreAssumption
<1>3. ASSUME NEW r \in Requests
      PROVE  /\ SpendId(r) \in Ids /\ EscapeId(r) \in Ids
             /\ SpendId(r)[1] = r /\ EscapeId(r)[1] = r
             /\ ~ IsEscape(SpendId(r)) /\ IsEscape(EscapeId(r))
             /\ IsHot(SpendId(r)) <=> r \in Hot
             /\ SpendId(r) # EscapeId(r)
      BY DEF SpendId, EscapeId, IsEscape, IsHot, Ids
<1>4. ASSUME NEW id \in Ids
      PROVE  /\ id[1] \in Requests
             /\ IsEscape(id) => id = EscapeId(id[1]) /\ ~ IsHot(id)
             /\ ~ IsEscape(id) => id = SpendId(id[1])
             /\ IsHot(id) => id[1] \in Hot /\ id = SpendId(id[1])
  <2>1. PICK r \in Requests, o \in {"spend", "escape"} : id = <<r, o>>
        BY DEF Ids
  <2> QED BY <2>1 DEF SpendId, EscapeId, IsEscape, IsHot
<1> QED BY <1>1, <1>3, <1>4

\* A set of naturals that is not empty has a least element.
LEMMA MinOfNaturals ==
    ASSUME NEW S, S \subseteq Nat, S # {}
    PROVE  Min(S) \in S /\ \A y \in S : Min(S) <= y
<1> DEFINE R == OpToRel(<, Nat)
<1>1. IsWellFoundedOn(R, Nat)
      BY NatLessThanWellFounded
<1>2. \A x, y \in Nat : y < x => <<y, x>> \in R
      BY DEF OpToRel
<1> HIDE DEF R
<1>3. PICK m \in S : \A y \in S : ~ (<<y, m>> \in R)
      BY <1>1, WFMin
<1>4. \A y \in S : ~ (y < m)
      BY <1>2, <1>3
<1>5. \A y \in S : m <= y
      BY <1>3, <1>4
<1> QED BY <1>3, <1>5 DEF Min

LEMMA RescheduledFacts ==
    ASSUME NEW x \in Candidate, NEW p \in Nat, NEW q \in Nat
    PROVE  LET f == [x EXCEPT !.scheduled = TRUE, !.fireAt = p, !.deadline = q] IN
           /\ f \in Candidate
           /\ f.present = x.present /\ f.quorum = x.quorum
           /\ f.released = x.released /\ f.broadcast = x.broadcast
BY DEF Candidate

\* Refreshing a window touches the times of one escape.
LEMMA RefreshedFacts ==
    ASSUME NEW c \in Registries, NEW a \in Overlays, NEW r \in Requests \cup {NoReq}
    PROVE  LET d == Refreshed(c, a, r) IN
           /\ d \in Registries
           /\ \A id \in Ids : /\ d[id].present = c[id].present
                              /\ d[id].quorum = c[id].quorum
                              /\ d[id].released = c[id].released
                              /\ d[id].broadcast = c[id].broadcast
                              /\ ~ IsEscape(id) => d[id] = c[id]
<1>1. CASE r = NoReq \/ ~ c[EscapeId(r)].present
      BY <1>1 DEF Refreshed
<1>2. CASE ~ (r = NoReq \/ ~ c[EscapeId(r)].present)
  <2> DEFINE e == EscapeId(r)
             x == c[e]
             p == a.fireAt
             q == a.fireAt + a.slack
             f == [x EXCEPT !.scheduled = TRUE, !.fireAt = p, !.deadline = q]
  <2>1. r \in Requests /\ e \in Ids /\ IsEscape(e)
        BY <1>2, IdFacts
  <2>2. Refreshed(c, a, r) = [c EXCEPT ![e] = f]
        BY <1>2 DEF Refreshed
  <2>3. x \in Candidate /\ p \in Nat /\ q \in Nat
        BY <2>1 DEF Registries, Overlays
  <2>4. /\ f \in Candidate
        /\ f.present = x.present /\ f.quorum = x.quorum
        /\ f.released = x.released /\ f.broadcast = x.broadcast
    <3> HIDE DEF x, p, q
    <3> QED BY <2>3, RescheduledFacts
  <2> HIDE DEF f, e
  <2> QED BY <2>1, <2>2, <2>4 DEF Registries
<1> QED BY <1>1, <1>2

LEMMA ScheduledFacts ==
    ASSUME NEW c \in Registries, NEW a \in Overlays, NEW r \in Requests \cup {NoReq}
    PROVE  LET d == Scheduled(c, a, r) IN
           /\ d \in Registries
           /\ \A id \in Ids : /\ d[id].present = c[id].present
                              /\ d[id].quorum = c[id].quorum
                              /\ d[id].released = c[id].released
                              /\ d[id].broadcast = c[id].broadcast
                              /\ ~ IsEscape(id) => d[id] = c[id]
<1> DEFINE f == Refreshed(c, a, r)
<1>1. a.escape \in Requests \cup {NoReq}
      BY DEF Overlays
<1>2. /\ f \in Registries
      /\ \A id \in Ids : /\ f[id].present = c[id].present
                         /\ f[id].quorum = c[id].quorum
                         /\ f[id].released = c[id].released
                         /\ f[id].broadcast = c[id].broadcast
                         /\ ~ IsEscape(id) => f[id] = c[id]
      BY RefreshedFacts
<1> HIDE DEF f
<1>3. LET d == Refreshed(f, a, a.escape) IN
      /\ d \in Registries
      /\ \A id \in Ids : /\ d[id].present = f[id].present
                         /\ d[id].quorum = f[id].quorum
                         /\ d[id].released = f[id].released
                         /\ d[id].broadcast = f[id].broadcast
                         /\ ~ IsEscape(id) => d[id] = f[id]
      BY <1>1, <1>2, RefreshedFacts
<1>4. Scheduled(c, a, r) = Refreshed(f, a, a.escape)
      BY DEF Scheduled, f
<1> HIDE DEF Refreshed
<1> QED BY <1>2, <1>3, <1>4

\* The overlay of a decision: T goes before the hot spends that are pending, and
\* moves only to the front once the node is armed.
LEMMA OverlayFacts ==
    ASSUME NEW a \in Overlays, NEW c \in Registries, NEW arm \in BOOLEAN,
           NEW seen \in Nat, NEW now \in Nat
    PROVE  LET o == Overlay(a, c, arm, seen, now) IN
           /\ o \in Overlays
           /\ o.active = (a.active \/ arm) /\ o.sweep = a.sweep /\ o.escape = a.escape
           /\ a.active => o.fireAt <= a.fireAt
           /\ ~ a.active => \A id \in Ids :
                  IsHot(id) /\ c[id].present /\ ~ c[id].broadcast /\ ExpiryOf[id[1]] >= now
                  => o.fireAt <= Most(Monus(c[id].fireAt, EpsilonSecs), now)
<1> DEFINE hot == PendingHotFire(c, now)
           own == seen + DuressDelaySecs
           t   == IF hot = {} THEN own
                  ELSE Least(own, Monus(Min(hot), EpsilonSecs))
           at  == FireAt(a, Most(t, now), arm)
<1>1. hot \subseteq Nat
      BY DEF PendingHotFire, Registries, Candidate
<1>2. hot # {} => Min(hot) \in Nat /\ \A y \in hot : Min(hot) <= y
  <2> HIDE DEF hot
  <2> QED BY <1>1, MinOfNaturals
<1>3. own \in Nat
      BY Bounds
<1>4. t \in Nat /\ (hot # {} => t <= Monus(Min(hot), EpsilonSecs))
  <2> HIDE DEF hot, own
  <2> QED BY <1>2, <1>3, Bounds, Arithmetic
<1>5. /\ at \in Nat /\ a.fireAt \in Nat
      /\ a.active => at <= a.fireAt
      /\ ~ a.active => at = Most(t, now)
  <2> HIDE DEF t
  <2>1. a.fireAt \in Nat /\ a.active \in BOOLEAN
        BY DEF Overlays
  <2>2. Most(t, now) \in Nat
        BY <1>4, Arithmetic
  <2>3. CASE a.active /\ arm
    <3>1. at = Least(a.fireAt, Most(t, now))
          BY <2>3 DEF FireAt
    <3>2. at \in Nat /\ at <= a.fireAt
          BY <2>1, <2>2, <3>1, Arithmetic
    <3> QED BY <2>1, <2>3, <3>2
  <2>4. CASE a.active /\ ~ arm
        BY <2>1, <2>4 DEF FireAt
  <2>5. CASE ~ a.active
        BY <2>1, <2>2, <2>5 DEF FireAt
  <2> QED BY <2>1, <2>3, <2>4, <2>5
<1>6. Overlay(a, c, arm, seen, now) =
          [a EXCEPT !.fireAt = at, !.slack = CombineSlackSecs,
                    !.active = a.active \/ arm]
      BY DEF Overlay
<1>7. ASSUME ~ a.active, NEW id \in Ids, IsHot(id), c[id].present, ~ c[id].broadcast,
             ExpiryOf[id[1]] >= now
      PROVE  at <= Most(Monus(c[id].fireAt, EpsilonSecs), now)
  <2>1. c[id].fireAt \in hot
        BY <1>7 DEF PendingHotFire
  <2>2. c[id].fireAt \in Nat
        BY DEF Registries, Candidate
  <2> HIDE DEF hot, t, at
  <2>3. t <= Monus(Min(hot), EpsilonSecs) /\ Min(hot) <= c[id].fireAt /\ Min(hot) \in Nat
        BY <1>2, <1>4, <2>1
  <2>4. Monus(Min(hot), EpsilonSecs) <= Monus(c[id].fireAt, EpsilonSecs)
        BY <2>2, <2>3, Bounds DEF Monus
  <2>5. /\ Monus(Min(hot), EpsilonSecs) \in Nat
        /\ Monus(c[id].fireAt, EpsilonSecs) \in Nat
        BY <2>2, <2>3, Bounds, Arithmetic
  <2>6. t <= Monus(c[id].fireAt, EpsilonSecs)
        BY <1>4, <2>3, <2>4, <2>5
  <2> QED BY <1>4, <1>5, <1>7, <2>5, <2>6 DEF Most
<1> HIDE DEF at
<1>8. /\ Overlay(a, c, arm, seen, now).fireAt = at
      /\ Overlay(a, c, arm, seen, now) \in Overlays
      /\ Overlay(a, c, arm, seen, now).active = (a.active \/ arm)
      /\ Overlay(a, c, arm, seen, now).sweep = a.sweep
      /\ Overlay(a, c, arm, seen, now).escape = a.escape
      BY <1>5, <1>6, Bounds DEF Overlays
<1> QED BY <1>5, <1>7, <1>8

\* A directive: the same for the spend of this request, and the first live sweep
\* stays.
LEMMA DirectedFacts ==
    ASSUME NEW a \in Overlays, NEW c \in Registries, NEW r \in Requests,
           NEW duress \in BOOLEAN, NEW holds \in SUBSET Nat, NEW now \in Nat
    PROVE  LET o == Directed(a, c, r, duress, holds, now) IN
           /\ o \in Overlays
           /\ o.active = a.active
           /\ a.active => /\ o.fireAt <= a.fireAt
                          /\ \A h \in holds :
                                 o.fireAt <= Most(Monus(h, EpsilonSecs), now)
           /\ a.sweep => o.sweep /\ o.escape = a.escape
           /\ ~ a.sweep /\ o.sweep => o.escape = r /\ EscapeLive(c, r)
<1> DEFINE t  == {Most(Monus(h, EpsilonSecs), now) : h \in holds}
           at == IF a.active THEN Min({a.fireAt} \cup t) ELSE a.fireAt
           sw == a.sweep \/ (a.active /\ duress /\ EscapeLive(c, r))
           es == IF a.sweep THEN a.escape ELSE r
<1>1. t \subseteq Nat
      BY Bounds, Arithmetic
<1>2. /\ a.fireAt \in Nat /\ a.active \in BOOLEAN /\ a.sweep \in BOOLEAN
      /\ a.escape \in Requests \cup {NoReq}
      BY DEF Overlays
<1>3. at \in Nat /\ (a.active => at <= a.fireAt /\ \A y \in t : at <= y)
  <2> HIDE DEF t
  <2>1. {a.fireAt} \cup t \subseteq Nat /\ {a.fireAt} \cup t # {}
        BY <1>1, <1>2
  <2>2. /\ Min({a.fireAt} \cup t) \in {a.fireAt} \cup t
        /\ \A y \in {a.fireAt} \cup t : Min({a.fireAt} \cup t) <= y
        BY <2>1, MinOfNaturals
  <2> QED BY <1>2, <2>1, <2>2
<1>4. Directed(a, c, r, duress, holds, now) =
          [a EXCEPT !.fireAt = at, !.escape = es, !.sweep = sw]
      BY DEF Directed
<1>5. EscapeLive(c, r) \in BOOLEAN
      BY IdFacts DEF EscapeLive, Registries, Candidate
<1>6. sw \in BOOLEAN /\ es \in Requests \cup {NoReq}
      BY <1>2, <1>5
<1>7. ASSUME a.active, NEW h \in holds
      PROVE  at <= Most(Monus(h, EpsilonSecs), now)
  <2>1. Most(Monus(h, EpsilonSecs), now) \in t
        OBVIOUS
  <2> HIDE DEF t, at
  <2> QED BY <1>3, <1>7, <2>1
<1>8. LET o == Directed(a, c, r, duress, holds, now) IN
      o \in Overlays /\ o.active = a.active /\ o.fireAt = at /\ o.sweep = sw /\ o.escape = es
  <2> HIDE DEF at, sw, es
  <2> QED BY <1>2, <1>3, <1>4, <1>6 DEF Overlays
<1> HIDE DEF at
<1> QED BY <1>3, <1>7, <1>8

Intents == [Carriers -> [phase : {"new", "recorded", "staged", "gone"},
                         seen : Time, req : Requests \cup {NoReq}]]

LEMMA Constants ==
    /\ Gone \in Candidate
    /\ ~ Gone.present /\ ~ Gone.released /\ ~ Gone.broadcast /\ ~ Gone.quorum
    /\ NoReservation \in Reservation /\ ~ NoReservation.held
    /\ 0 \in Time
BY Bounds DEF Gone, Candidate, NoReservation, Reservation, Time

\* Removing candidates, and giving their reservations back.
LEMMA RemovalFacts ==
    ASSUME NEW c \in Registries, NEW l \in Ledgers, NEW S
    PROVE  /\ Without(c, S) \in Registries
           /\ \A id \in Ids : Without(c, S)[id] = IF id \in S THEN Gone ELSE c[id]
           /\ Refunded(l, c, S) \in Ledgers
           /\ \A r \in Requests :
                  Refunded(l, c, S)[r] =
                      IF SpendId(r) \in S /\ UnexposedHot(SpendId(r), c)
                      THEN NoReservation ELSE l[r]
BY Constants DEF Registries, Ledgers, Without, Refunded

\* Ageing the ledger.
LEMMA PruneFacts ==
    ASSUME NEW l \in Ledgers, NEW w
    PROVE  /\ LedgerPruned(l, w) \in Ledgers
           /\ \A r \in Requests :
                  LedgerPruned(l, w)[r] =
                      IF l[r].held /\ IsLive(r, l, w) THEN l[r] ELSE NoReservation
BY Constants DEF Ledgers, LedgerPruned

\* Reserving and giving back one reservation.
LEMMA ReserveFacts ==
    ASSUME NEW l \in Ledgers, NEW r \in Requests, mono \in Time
    PROVE  /\ Reserved(l, r) \in Ledgers /\ Released(l, r) \in Ledgers
           /\ Reserved(l, r)[r].held /\ Released(l, r)[r] = NoReservation
           /\ \A q \in Requests \ {r} : Reserved(l, r)[q] = l[q] /\ Released(l, r)[q] = l[q]
<1>1. [held |-> TRUE, at |-> mono] \in Reservation
      BY DEF Reservation
<1> QED BY <1>1, Constants DEF Ledgers, Reserved, Released

LEMMA EndedFacts ==
    ASSUME NEW i \in Intents, NEW k \in Carriers, NEW s \in BOOLEAN
    PROVE  /\ Ended(i, k, s) \in Intents
           /\ \A j \in Carriers : Ended(i, k, s)[j].req = i[j].req
           /\ \A r \in Requests :
                  /\ [Ended(i, k, s) EXCEPT ![k].req = r] \in Intents
                  /\ [Ended(i, k, s) EXCEPT ![k].req = r][k].req = r
                  /\ \A j \in Carriers \ {k} :
                         [Ended(i, k, s) EXCEPT ![k].req = r][j].req = i[j].req
<1> DEFINE ph == IF s THEN "staged" ELSE "gone"
           e  == [i EXCEPT ![k].phase = ph]
<1>1. ph \in {"new", "recorded", "staged", "gone"}
      OBVIOUS
<1>2. Ended(i, k, s) = e
      BY DEF Ended
<1> HIDE DEF ph
<1>3. e \in Intents /\ \A j \in Carriers : e[j].req = i[j].req
      BY <1>1 DEF Intents
<1> HIDE DEF e
<1>4. ASSUME NEW r \in Requests
      PROVE  /\ [e EXCEPT ![k].req = r] \in Intents
             /\ [e EXCEPT ![k].req = r][k].req = r
             /\ \A j \in Carriers \ {k} : [e EXCEPT ![k].req = r][j].req = e[j].req
      BY <1>3 DEF Intents
<1> QED BY <1>2, <1>3, <1>4

\* The type invariant, with the names above.
LEMMA Types ==
    ASSUME TypeOK
    PROVE  /\ wall \in Time /\ peak \in Time /\ mono \in Time /\ highWater \in Time
           /\ wall \in Nat /\ peak \in Nat /\ mono \in Nat /\ highWater \in Nat
           /\ EffectiveNow \in Time /\ EffectiveNow \in Nat
           /\ EffectiveNow \in {wall, highWater} /\ wall <= EffectiveNow
           /\ cand \in Registries /\ ledger \in Ledgers /\ exposed \in Ledgers
           /\ armed \in Overlays /\ intent \in Intents
           /\ sign.carrier \in Carriers /\ ReqOf[sign.carrier] \in Requests
           /\ sign.now \in Time /\ sign.now \in Nat /\ sign.raw \in Time
           /\ sign.raw \in Nat /\ sign.owned \in BOOLEAN
           /\ \A k \in Carriers : /\ ReqOf[k] \in Requests
                                  /\ intent[k].req \in Requests \cup {NoReq}
                                  /\ intent[k].seen \in Nat
           /\ \A r \in Requests : ExpiryOf[r] \in Nat /\ Outflow[r] \in Nat
<1>1. wall \in Time /\ peak \in Time /\ mono \in Time /\ highWater \in Time
      BY DEF TypeOK
<1>2. wall \in Nat /\ peak \in Nat /\ mono \in Nat /\ highWater \in Nat
      BY <1>1, Bounds DEF Time
<1>3. EffectiveNow \in {wall, highWater} /\ wall <= EffectiveNow
      BY <1>2, Arithmetic DEF EffectiveNow
<1>4. EffectiveNow \in Time /\ EffectiveNow \in Nat
      BY <1>1, <1>2, <1>3
<1>5. /\ cand \in Registries /\ ledger \in Ledgers /\ exposed \in Ledgers
      /\ armed \in Overlays /\ intent \in Intents
      BY DEF TypeOK, Registries, Ledgers, Overlays, Intents
<1>6. /\ sign.carrier \in Carriers /\ sign.now \in Time /\ sign.raw \in Time
      /\ sign.owned \in BOOLEAN
      BY DEF TypeOK
<1>7. \A k \in Carriers : /\ ReqOf[k] \in Requests
                          /\ intent[k].req \in Requests \cup {NoReq}
                          /\ intent[k].seen \in Nat
      BY <1>5, StoreAssumption, Bounds DEF Intents, Time
<1>8. \A r \in Requests : ExpiryOf[r] \in Nat /\ Outflow[r] \in Nat
      BY StoreAssumption
<1>9. sign.now \in Nat /\ sign.raw \in Nat
      BY <1>6, Bounds DEF Time
<1> QED BY <1>1, <1>2, <1>3, <1>4, <1>5, <1>6, <1>7, <1>8, <1>9

\* What register makes of a pair.
LEMMA InsertedFacts ==
    ASSUME TypeOK, NEW r \in Requests, NEW now \in Nat
    PROVE  /\ Inserted(r, now) \in Registries
           /\ Window(r, now).at \in Nat /\ Window(r, now).deadline <= ExpiryOf[r]
           /\ \A id \in Ids : IF id[1] # r \/ cand[id].present
                              THEN Inserted(r, now)[id] = cand[id]
                              ELSE /\ Inserted(r, now)[id].present
                                   /\ ~ Inserted(r, now)[id].released
                                   /\ ~ Inserted(r, now)[id].broadcast
                                   /\ ~ Inserted(r, now)[id].quorum
                                   /\ ~ IsEscape(id) =>
                                        /\ Inserted(r, now)[id].fireAt = Window(r, now).at
                                        /\ Inserted(r, now)[id].deadline =
                                               Window(r, now).deadline
<1> DEFINE at == IF r \in Hot THEN now + HoldSecs ELSE now
           dl == Least(ExpiryOf[r], at + CombineSlackSecs)
           e  == [Gone EXCEPT !.present = TRUE]
           s  == [Gone EXCEPT !.present = TRUE, !.scheduled = TRUE,
                              !.fireAt = at, !.deadline = dl]
<1>1. at \in Nat
      BY Bounds
<1>2. dl \in Nat /\ dl <= ExpiryOf[r]
  <2> HIDE DEF at
  <2>1. ExpiryOf[r] \in Nat /\ at + CombineSlackSecs \in Nat
        BY <1>1, Bounds, StoreAssumption
  <2> QED BY <2>1, Arithmetic
<1>3. Window(r, now).at = at /\ Window(r, now).deadline = dl
      BY DEF Window
<1> HIDE DEF at, dl
<1>4. /\ e \in Candidate /\ e.present /\ ~ e.released /\ ~ e.broadcast /\ ~ e.quorum
      BY DEF Gone, Candidate
<1>5. /\ s \in Candidate /\ s.present /\ ~ s.released /\ ~ s.broadcast /\ ~ s.quorum
      /\ s.fireAt = at /\ s.deadline = dl
      BY <1>1, <1>2 DEF Gone, Candidate
<1>6. Inserted(r, now) = [id \in Ids |->
          IF id[1] # r \/ cand[id].present THEN cand[id]
          ELSE IF IsEscape(id) THEN e ELSE s]
      BY <1>3 DEF Inserted
<1> HIDE DEF e, s
<1>7. cand \in Registries
      BY Types
<1> QED BY <1>1, <1>2, <1>3, <1>4, <1>5, <1>6, <1>7 DEF Registries

LEMMA RestFacts ==
    /\ Free \in [pc : {"free", "reserved"}, carrier : Carriers,
                 owned : BOOLEAN, now : Time, raw : Time]
    /\ Free.pc = "free" /\ Free.now = 0 /\ Free.raw = 0
    /\ Resting \in [pc : {"idle", "poll", "release", "combine", "next",
                          "finalized", "sending", "settle", "pending"},
                    now : Time, due : SUBSET Ids, id : Ids, settled : SUBSET Requests]
    /\ Resting.pc = "idle"
<1>1. (CHOOSE k \in Carriers : TRUE) \in Carriers
      BY StoreAssumption
<1>2. (CHOOSE id \in Ids : TRUE) \in Ids
      BY IdFacts
<1> QED BY <1>1, <1>2, Constants DEF Free, Resting

-----------------------------------------------------------------------------
(* Types.                                                                    *)

Signs == [pc : {"free", "reserved"}, carrier : Carriers,
          owned : BOOLEAN, now : Time, raw : Time]
Fires == [pc : {"idle", "poll", "release", "combine", "next",
                "finalized", "sending", "settle", "pending"},
          now : Time, due : SUBSET Ids, id : Ids, settled : SUBSET Requests]

\* The type invariant from its parts.
LEMMA TypeParts ==
    ASSUME TypeOK,
           wall' \in Time, peak' \in Time, mono' \in Time, highWater' \in Time,
           steps' \in 0 .. MaxWallSteps,
           cand' \in Registries, ledger' \in Ledgers, exposed' \in Ledgers,
           armed' \in Overlays, intent' \in Intents, sign' \in Signs, fire' \in Fires,
           replay' \subseteq Requests, pending' \subseteq Requests, locked' \in BOOLEAN
    PROVE  TypeOK'
BY DEF TypeOK, Registries, Ledgers, Overlays, Intents, Signs, Fires

LEMMA TypesAgain ==
    ASSUME TypeOK
    PROVE  /\ steps \in 0 .. MaxWallSteps
           /\ sign \in Signs /\ fire \in Fires
           /\ replay \subseteq Requests /\ pending \subseteq Requests
           /\ locked \in BOOLEAN
           /\ fire.id \in Ids /\ fire.due \subseteq Ids /\ fire.settled \subseteq Requests
           /\ fire.now \in Nat
BY Bounds DEF TypeOK, Signs, Fires, Time

LEMMA RecordIntentType ==
    ASSUME TypeOK, NEW k \in Carriers, RecordIntent(k)
    PROVE  TypeOK' /\ armed' \in Overlays
<1>1. PICK seen \in 0 .. peak, phase \in {"recorded", "staged"} :
          /\ armed' = Overlay(armed, cand, FALSE, seen, EffectiveNow)
          /\ intent' = [intent EXCEPT ![k] =
                           [phase |-> phase, seen |-> seen, req |-> NoReq]]
      BY DEF RecordIntent
<1>2. seen \in Time /\ seen \in Nat
      BY Types, Bounds DEF Time
<1>3. armed' \in Overlays
      BY <1>1, <1>2, Types, OverlayFacts
<1>4. intent' \in Intents
      BY <1>1, <1>2, Types DEF Intents
<1>5. UNCHANGED <<clockVars, cand, ledger, sign, fire, logVars, locked, exposed>>
      BY DEF RecordIntent
<1> QED BY <1>3, <1>4, <1>5, Types, TypesAgain, TypeParts DEF clockVars, logVars

\* The ledger as the second part of Submit finds it.
LEMMA SubmitLedger ==
    ASSUME TypeOK, NEW now \in Nat
    PROVE  /\ PrunedRefund(now) \in Ledgers
           /\ LedgerPruned(PrunedRefund(now), wall) \in Ledgers
           /\ Pruned(now) \in Registries
<1>1. PrunedRefund(now) \in Ledgers /\ Pruned(now) \in Registries
      BY Types, RemovalFacts DEF PrunedRefund, Pruned
<1> QED BY <1>1, PruneFacts

LEMMA SubmitType ==
    ASSUME TypeOK, NEW k \in Carriers, Submit(k)
    PROVE  TypeOK'
<1> DEFINE r   == ReqOf[k]
           now == EffectiveNow
           met == LedgerPruned(PrunedRefund(now), wall)
<1>1. UNCHANGED <<clockVars, fire, locked, exposed>>
      BY DEF Submit
<1>2. r \in Requests /\ now \in Nat /\ now \in Time
      BY Types
<1>3. /\ PrunedRefund(now) \in Ledgers /\ met \in Ledgers /\ Pruned(now) \in Registries
      BY <1>2, SubmitLedger
<1>4. \/ UNCHANGED <<cand, armed>>
      \/ cand' = Pruned(now) /\ UNCHANGED armed
      \/ /\ armed' = Directed(armed, cand, r, k \in DuressCarriers, {}, now)
         /\ cand' = Scheduled(cand, armed', r)
      BY DEF Submit
<1>5. cand' \in Registries /\ armed' \in Overlays
  <2>1. CASE UNCHANGED <<cand, armed>>
        BY <2>1, Types
  <2>2. CASE cand' = Pruned(now) /\ UNCHANGED armed
        BY <2>2, <1>3, Types
  <2>3. CASE /\ armed' = Directed(armed, cand, r, k \in DuressCarriers, {}, now)
             /\ cand' = Scheduled(cand, armed', r)
    <3>1. {} \in SUBSET Nat /\ (k \in DuressCarriers) \in BOOLEAN
          OBVIOUS
    <3>2. armed' \in Overlays
          BY <2>3, <3>1, <1>2, Types, DirectedFacts
    <3>3. r \in Requests \cup {NoReq}
          BY <1>2
    <3> QED BY <2>3, <3>2, <3>3, Types, ScheduledFacts
  <2> QED BY <1>4, <2>1, <2>2, <2>3
<1>6. ledger' \in {ledger, PrunedRefund(now), met, Reserved(met, r)}
      BY DEF Submit
<1>7. ledger' \in Ledgers
  <2>1. Reserved(met, r) \in Ledgers
    <3> HIDE DEF met
    <3> QED BY <1>2, <1>3, Types, ReserveFacts
  <2> HIDE DEF met
  <2> QED BY <1>3, <1>6, <2>1, Types
<1>8. \/ UNCHANGED intent
      \/ \E s \in BOOLEAN : \/ intent' = Ended(intent, k, s)
                            \/ intent' = [Ended(intent, k, s) EXCEPT ![k].req = r]
      BY DEF Submit
<1>9. intent' \in Intents
      BY <1>2, <1>8, Types, EndedFacts
<1>10. /\ replay' = replay \/ replay' = {q \in replay : ExpiryOf[q] > now}
       /\ pending' = pending \/ pending' = {q \in pending : ExpiryOf[q] >= now}
       BY DEF Submit, logVars
<1>11. replay' \subseteq Requests /\ pending' \subseteq Requests
       BY <1>10, TypesAgain
<1>12. \/ UNCHANGED sign
       \/ \E o \in BOOLEAN : sign' = [pc |-> "reserved", carrier |-> k, owned |-> o,
                                      now |-> now, raw |-> wall]
       BY DEF Submit
<1>13. sign' \in Signs
       BY <1>2, <1>12, Types, TypesAgain DEF Signs
<1> QED BY <1>1, <1>5, <1>7, <1>9, <1>11, <1>13, Types, TypesAgain, TypeParts DEF clockVars

\* The ledgers Register may leave.
LEMMA RegisterLedger ==
    ASSUME TypeOK, NEW r \in Requests
    PROVE  /\ RegistrationReserve(r, sign.raw).ledger \in Ledgers
           /\ Released(RegistrationReserve(r, sign.raw).ledger, r) \in Ledgers
           /\ Unwound(ledger, r) \in Ledgers
           /\ Unwound(RegistrationReserve(r, sign.raw).ledger, r) \in Ledgers
           /\ Unwound(Released(RegistrationReserve(r, sign.raw).ledger, r), r) \in Ledgers
           /\ Unwound(Released(ledger, r), r) \in Ledgers
<1> DEFINE met == LedgerPruned(ledger, sign.raw)
           res == RegistrationReserve(r, sign.raw).ledger
<1>1. met \in Ledgers
      BY Types, PruneFacts
<1>2. res = met \/ res = Reserved(met, r)
      BY DEF RegistrationReserve
<1> HIDE DEF met, res
<1>3. res \in Ledgers
  <2>1. mono \in Time
        BY Types
  <2>2. Reserved(met, r) \in Ledgers
        BY <1>1, <2>1, ReserveFacts
  <2> QED BY <1>1, <1>2, <2>2
<1>4. ASSUME NEW l \in Ledgers PROVE Released(l, r) \in Ledgers /\ Unwound(l, r) \in Ledgers
      BY Types, ReserveFacts DEF Unwound
<1> QED BY <1>3, <1>4, Types DEF res

LEMMA RegisterType ==
    ASSUME TypeOK, Register
    PROVE  TypeOK'
<1> DEFINE k   == sign.carrier
           r   == ReqOf[k]
           now == sign.now
           res == RegistrationReserve(r, sign.raw).ledger
           c   == Inserted(r, now)
<1>1. UNCHANGED <<clockVars, fire, locked, exposed>> /\ sign' = Free
      BY DEF Register
<1>2. k \in Carriers /\ r \in Requests /\ now \in Nat
      BY Types
<1>3. ledger' \in {ledger, res, Released(res, r), Unwound(ledger, r), Unwound(res, r),
                   Unwound(Released(res, r), r), Unwound(Released(ledger, r), r)}
      BY DEF Register
<1>4. ledger' \in Ledgers
  <2> HIDE DEF r
  <2> QED BY <1>2, <1>3, Types, RegisterLedger
<1>5. \E s \in BOOLEAN : \/ intent' = Ended(intent, k, s)
                         \/ intent' = [Ended(intent, k, s) EXCEPT ![k].req = r]
      BY DEF Register
<1>6. intent' \in Intents
  <2> HIDE DEF k, r
  <2> QED BY <1>2, <1>5, Types, EndedFacts
<1>7. /\ pending' = pending \/ pending' = pending \cup {r}
      /\ replay' = replay \/ replay' = replay \cup {r}
      BY DEF Register, logVars
<1>8. \/ UNCHANGED <<cand, armed>>
      \/ \E holds \in {{}, {Window(r, now).at}} :
             /\ armed' = Directed(armed, c, r, k \in DuressCarriers, holds, now)
             /\ cand' = Scheduled(c, armed', r)
      BY DEF Register
<1>9. cand' \in Registries /\ armed' \in Overlays
  <2>1. CASE UNCHANGED <<cand, armed>>
        BY <2>1, Types
  <2>2. CASE ~ UNCHANGED <<cand, armed>>
    <3>1. PICK holds \in {{}, {Window(r, now).at}} :
              /\ armed' = Directed(armed, c, r, k \in DuressCarriers, holds, now)
              /\ cand' = Scheduled(c, armed', r)
          BY <1>8, <2>2
    <3>2. c \in Registries /\ Window(r, now).at \in Nat
      <4> HIDE DEF r, now
      <4> QED BY <1>2, InsertedFacts
    <3>3. holds \in SUBSET Nat /\ (k \in DuressCarriers) \in BOOLEAN
          BY <3>1, <3>2
    <3>4. armed' \in Overlays
      <4> HIDE DEF c, r, now, k
      <4> QED BY <1>2, <3>1, <3>2, <3>3, Types, DirectedFacts
    <3>5. r \in Requests \cup {NoReq}
          BY <1>2
    <3> HIDE DEF c, r
    <3> QED BY <3>1, <3>2, <3>4, <3>5, ScheduledFacts
  <2> QED BY <2>1, <2>2
<1>10. sign' \in Signs
       BY <1>1, RestFacts DEF Signs
<1>11. replay' \subseteq Requests /\ pending' \subseteq Requests
       BY <1>2, <1>7, TypesAgain
<1> QED BY <1>1, <1>4, <1>6, <1>9, <1>10, <1>11, Types, TypesAgain, TypeParts
        DEF clockVars

\* A decision: the overlay as OverlayFacts says, a selection only of its request,
\* whose candidates have their holders.
LEMMA ConfirmFacts ==
    ASSUME TypeOK, NEW k \in Carriers, Confirm(k)
    PROVE  /\ armed' \in Overlays /\ cand' \in Registries
           /\ armed'.active = (armed.active \/ k \in DuressCarriers)
           /\ armed.active => armed'.fireAt <= armed.fireAt
           /\ ~ armed.active => \A id \in Ids :
                  IsHot(id) /\ cand[id].present /\ ~ cand[id].broadcast
                  /\ ExpiryOf[id[1]] >= EffectiveNow
                  => armed'.fireAt <= Most(Monus(cand[id].fireAt, EpsilonSecs), EffectiveNow)
           /\ armed.sweep => armed'.sweep /\ armed'.escape = armed.escape
           /\ ~ armed.sweep /\ armed'.sweep =>
                  armed'.escape = intent[k].req /\ intent[k].req \in Requests
           /\ \A id \in Ids :
                  /\ cand'[id].present = cand[id].present
                  /\ cand'[id].released = cand[id].released
                  /\ cand'[id].broadcast = cand[id].broadcast
                  /\ cand[id].quorum => cand'[id].quorum
                  /\ cand[id].present /\ id[1] = intent[k].req => cand'[id].quorum
                  /\ ~ IsEscape(id) => /\ cand'[id].fireAt = cand[id].fireAt
                                       /\ cand'[id].deadline = cand[id].deadline
<1> DEFINE r      == intent[k].req
           now    == EffectiveNow
           arms   == k \in DuressCarriers
           a      == Overlay(armed, cand, arms, intent[k].seen, now)
           select == arms /\ ~ armed.sweep /\ r # NoReq
           held   == [id \in Ids |->
                        IF cand[id].present /\ id[1] = r
                        THEN [cand[id] EXCEPT !.quorum = TRUE] ELSE cand[id]]
<1>1. armed' = [a EXCEPT !.escape = IF select THEN r ELSE a.escape,
                         !.sweep = a.sweep \/ select]
      BY DEF Confirm
<1>2. cand' = Scheduled(held, armed', r)
      BY DEF Confirm
<1>3. r \in Requests \cup {NoReq} /\ intent[k].seen \in Nat /\ now \in Nat
      /\ arms \in BOOLEAN /\ armed \in Overlays /\ cand \in Registries
      BY Types
<1>4. /\ a \in Overlays
      /\ a.active = (armed.active \/ arms) /\ a.sweep = armed.sweep
      /\ a.escape = armed.escape
      /\ armed.active => a.fireAt <= armed.fireAt
      /\ ~ armed.active => \A id \in Ids :
             IsHot(id) /\ cand[id].present /\ ~ cand[id].broadcast /\ ExpiryOf[id[1]] >= now
             => a.fireAt <= Most(Monus(cand[id].fireAt, EpsilonSecs), now)
  <2> HIDE DEF now, arms
  <2> QED BY <1>3, OverlayFacts
<1>5. select \in BOOLEAN /\ (select => r \in Requests /\ ~ armed.sweep)
      BY <1>3
<1> HIDE DEF a, select, r, now, arms
<1>6. /\ armed' \in Overlays
      /\ armed'.active = a.active /\ armed'.fireAt = a.fireAt
      /\ armed'.escape = (IF select THEN r ELSE a.escape)
      /\ armed'.sweep = (a.sweep \/ select)
      BY <1>1, <1>3, <1>4, <1>5 DEF Overlays
<1>7. /\ held \in Registries
      /\ \A id \in Ids :
             /\ held[id].present = cand[id].present
             /\ held[id].released = cand[id].released
             /\ held[id].broadcast = cand[id].broadcast
             /\ cand[id].quorum => held[id].quorum
             /\ cand[id].present /\ id[1] = r => held[id].quorum
             /\ held[id].fireAt = cand[id].fireAt
             /\ held[id].deadline = cand[id].deadline
  <2>1. ASSUME NEW x \in Candidate
        PROVE  LET y == [x EXCEPT !.quorum = TRUE] IN
               /\ y \in Candidate /\ y.quorum /\ y.present = x.present
               /\ y.released = x.released /\ y.broadcast = x.broadcast
               /\ y.fireAt = x.fireAt /\ y.deadline = x.deadline
        BY DEF Candidate
  <2> QED BY <1>3, <2>1 DEF Registries
<1> HIDE DEF held
<1>8. /\ cand' \in Registries
      /\ \A id \in Ids : /\ cand'[id].present = held[id].present
                         /\ cand'[id].quorum = held[id].quorum
                         /\ cand'[id].released = held[id].released
                         /\ cand'[id].broadcast = held[id].broadcast
                         /\ ~ IsEscape(id) => cand'[id] = held[id]
      BY <1>2, <1>3, <1>6, <1>7, ScheduledFacts
<1>9. /\ armed'.active = (armed.active \/ k \in DuressCarriers)
      /\ armed.active => armed'.fireAt <= armed.fireAt
      /\ ~ armed.active => \A id \in Ids :
             IsHot(id) /\ cand[id].present /\ ~ cand[id].broadcast
             /\ ExpiryOf[id[1]] >= EffectiveNow
             => armed'.fireAt <= Most(Monus(cand[id].fireAt, EpsilonSecs), EffectiveNow)
      BY <1>4, <1>6 DEF arms, now
<1>10. /\ armed.sweep => armed'.sweep /\ armed'.escape = armed.escape
       /\ ~ armed.sweep /\ armed'.sweep =>
              armed'.escape = intent[k].req /\ intent[k].req \in Requests
       BY <1>4, <1>5, <1>6 DEF r
<1>11. \A id \in Ids :
           /\ cand'[id].present = cand[id].present
           /\ cand'[id].released = cand[id].released
           /\ cand'[id].broadcast = cand[id].broadcast
           /\ cand[id].quorum => cand'[id].quorum
           /\ cand[id].present /\ id[1] = intent[k].req => cand'[id].quorum
           /\ ~ IsEscape(id) => /\ cand'[id].fireAt = cand[id].fireAt
                                /\ cand'[id].deadline = cand[id].deadline
       BY <1>7, <1>8 DEF r
<1> QED BY <1>6, <1>8, <1>9, <1>10, <1>11

LEMMA ConfirmType ==
    ASSUME TypeOK, NEW k \in Carriers, Confirm(k)
    PROVE  TypeOK'
<1>1. armed' \in Overlays /\ cand' \in Registries
      BY ConfirmFacts
<1>2. UNCHANGED <<clockVars, ledger, sign, fire, logVars, locked, exposed>>
      BY DEF Confirm
<1>3. intent' = [intent EXCEPT ![k].phase = "gone"]
      BY DEF Confirm
<1>4. intent' \in Intents
      BY <1>3, Types DEF Intents
<1> QED BY <1>1, <1>2, <1>4, Types, TypesAgain, TypeParts DEF clockVars, logVars

\* The steps of the fire driver that touch only its own state.
LEMMA ProceedType ==
    ASSUME TypeOK, Proceed
    PROVE  fire' \in Fires /\ fire'.pc \in {"idle", "combine"}
<1> DEFINE f == [Resting EXCEPT !.pc = "combine", !.due = fire.due \ {fire.id}]
<1>1. Resting \in Fires /\ Resting.pc = "idle"
      BY RestFacts DEF Fires
<1>2. fire.due \ {fire.id} \subseteq Ids
      BY TypesAgain
<1>3. f \in Fires /\ f.pc = "combine"
      BY <1>1, <1>2 DEF Fires
<1>4. fire' = Resting \/ fire' = f
      BY DEF Proceed
<1> QED BY <1>1, <1>3, <1>4

LEMMA ExposureType ==
    ASSUME TypeOK, NEW r \in Requests
    PROVE  Exposure(r) \in Reservation /\ Exposure(r).held
<1>1. ledger[r] \in Reservation /\ mono \in Time
      BY Types DEF Ledgers
<1> QED BY <1>1 DEF Exposure, Reservation

\* What the release hold does to a candidate and to an exposure.
LEMMA ReleaseFacts ==
    ASSUME TypeOK, ReleasePartials
    PROVE  /\ cand' \in Registries /\ exposed' \in Ledgers
           /\ fire.pc = "release" /\ sign.pc = "free"
           /\ fire' \in Fires /\ fire'.pc = "combine"
           /\ \A id \in Ids :
                  \/ cand'[id] = cand[id]
                  \/ /\ cand'[id] = [cand[id] EXCEPT !.released = TRUE]
                     /\ id \in fire.due /\ MayRelease(id, wall)
           /\ \A r \in Requests :
                  \/ /\ exposed'[r] = exposed[r]
                     /\ r \in Hot => \/ cand'[SpendId(r)] = cand[SpendId(r)]
                                     \/ cand[SpendId(r)].released
                  \/ /\ exposed'[r] = Exposure(r) /\ r \in Hot
                     /\ SpendId(r) \in fire.due /\ MayRelease(SpendId(r), wall)
                     /\ ~ cand[SpendId(r)].released
                     /\ cand'[SpendId(r)].released
<1>1. PICK admissible \in BOOLEAN :
          LET out == {id \in fire.due : /\ MayRelease(id, wall)
                                        /\ IsArmedEscape(id) => admissible} IN
          /\ cand' = [id \in Ids |->
                        IF id \in out THEN [cand[id] EXCEPT !.released = TRUE]
                        ELSE cand[id]]
          /\ exposed' = [r \in Requests |->
                           IF SpendId(r) \in out /\ r \in Hot
                              /\ ~ cand[SpendId(r)].released
                           THEN Exposure(r) ELSE exposed[r]]
      BY DEF ReleasePartials
<1> DEFINE out == {id \in fire.due : /\ MayRelease(id, wall)
                                     /\ IsArmedEscape(id) => admissible}
<1>2. \A id \in out : id \in fire.due /\ MayRelease(id, wall)
      OBVIOUS
<1>3. /\ cand' = [id \in Ids |->
                    IF id \in out THEN [cand[id] EXCEPT !.released = TRUE]
                    ELSE cand[id]]
      /\ exposed' = [r \in Requests |->
                       IF SpendId(r) \in out /\ r \in Hot
                          /\ ~ cand[SpendId(r)].released
                       THEN Exposure(r) ELSE exposed[r]]
      BY <1>1
<1> HIDE DEF out
<1>4. ASSUME NEW x \in Candidate
      PROVE  /\ [x EXCEPT !.released = TRUE] \in Candidate
             /\ [x EXCEPT !.released = TRUE].released
      BY DEF Candidate
<1>5. cand \in Registries /\ exposed \in Ledgers
      BY Types
<1>6. cand' \in Registries
      BY <1>3, <1>4, <1>5 DEF Registries
<1>7. exposed' \in Ledgers
      BY <1>3, <1>5, ExposureType DEF Ledgers
<1>8. /\ fire.pc = "release" /\ sign.pc = "free"
      /\ fire' = [fire EXCEPT !.pc = "combine"]
      BY DEF ReleasePartials
<1>9. fire' \in Fires /\ fire'.pc = "combine"
      BY <1>8, TypesAgain DEF Fires
<1>10. \A id \in Ids :
           \/ cand'[id] = cand[id]
           \/ /\ cand'[id] = [cand[id] EXCEPT !.released = TRUE]
              /\ id \in fire.due /\ MayRelease(id, wall)
       BY <1>2, <1>3
<1>11. ASSUME NEW r \in Requests
       PROVE  \/ /\ exposed'[r] = exposed[r]
                 /\ r \in Hot => \/ cand'[SpendId(r)] = cand[SpendId(r)]
                                 \/ cand[SpendId(r)].released
              \/ /\ exposed'[r] = Exposure(r) /\ r \in Hot
                 /\ SpendId(r) \in fire.due /\ MayRelease(SpendId(r), wall)
                 /\ ~ cand[SpendId(r)].released
                 /\ cand'[SpendId(r)].released
  <2>1. SpendId(r) \in Ids /\ cand[SpendId(r)] \in Candidate
        BY IdFacts, <1>5 DEF Registries
  <2>2. CASE SpendId(r) \in out /\ r \in Hot /\ ~ cand[SpendId(r)].released
        BY <1>2, <1>3, <1>4, <2>1, <2>2
  <2>3. CASE ~ (SpendId(r) \in out /\ r \in Hot /\ ~ cand[SpendId(r)].released)
        BY <1>3, <2>1, <2>3
  <2> QED BY <2>2, <2>3
<1> QED BY <1>6, <1>7, <1>8, <1>9, <1>10, <1>11

\* What a settlement does: the spender and the hot spends it defeats are over.
LEMMA SettleFacts ==
    ASSUME TypeOK, MarkBroadcast
    PROVE  /\ cand' \in Registries /\ ledger' \in Ledgers /\ exposed' \in Ledgers
           /\ fire.pc = "settle"
           /\ fire' \in Fires /\ fire'.pc = "pending" /\ fire'.due = fire.due
           /\ \A id \in Ids :
                  /\ cand'[id].present = cand[id].present
                  /\ cand'[id].released = cand[id].released
                  /\ cand'[id].quorum = cand[id].quorum
                  /\ cand'[id].fireAt = cand[id].fireAt
                  /\ cand'[id].deadline = cand[id].deadline
                  /\ cand[id].broadcast => cand'[id].broadcast
                  /\ cand'[id].broadcast /\ ~ cand[id].broadcast => id[1] \in fire'.settled
                  /\ IsHot(id) /\ id = fire.id /\ cand[id].present => cand'[id].broadcast
           /\ \A r \in Requests :
                  /\ \/ ledger'[r] = ledger[r]
                     \/ /\ ledger'[r] = NoReservation
                        /\ SpendId(r) # fire.id
                        /\ cand[SpendId(r)].present /\ cand'[SpendId(r)].broadcast
                        /\ UnexposedHot(SpendId(r), cand)
                  /\ ledger'[r].held /\ r \in Hot /\ ~ cand[SpendId(r)].broadcast
                     /\ cand'[SpendId(r)].broadcast =>
                         SpendId(r) = fire.id \/ cand[SpendId(r)].released
                  /\ \/ exposed'[r] = exposed[r]
                     \/ exposed'[r] = ledger[r] /\ ledger[r].held /\ SpendId(r) = fire.id
                  /\ r \in Hot /\ SpendId(r) = fire.id /\ ledger[r].held =>
                         exposed'[r] = ledger[r]
<1> DEFINE id0 == fire.id
           S   == HotConflicts(id0)
           c   == Invalidated(cand, S)
<1>1. /\ fire.pc = "settle"
      /\ ledger' = Refunded(ledger, cand, S)
      /\ cand' = IF IsArmedEscape(id0) \/ ~ cand[id0].present THEN c
                 ELSE [c EXCEPT ![id0].broadcast = TRUE]
      /\ fire' = [fire EXCEPT !.pc = "pending",
                              !.settled = {id0[1]} \cup {h[1] : h \in S}]
      /\ exposed' = IF IsHot(id0) /\ ledger[id0[1]].held
                    THEN [exposed EXCEPT ![id0[1]] = ledger[id0[1]]] ELSE exposed
      BY DEF MarkBroadcast
<1>2. /\ id0 \in Ids /\ id0[1] \in Requests /\ cand \in Registries
      /\ ledger \in Ledgers /\ exposed \in Ledgers
      BY Types, TypesAgain, IdFacts
<1>3. S \subseteq Ids /\ \A h \in S : IsHot(h) /\ h # id0 /\ cand[h].present
      BY DEF HotConflicts
<1> HIDE DEF S, id0
<1>4. {id0[1]} \cup {h[1] : h \in S} \subseteq Requests
      BY <1>2, <1>3, IdFacts
<1>5. /\ fire' \in Fires /\ fire'.pc = "pending" /\ fire'.due = fire.due
      /\ fire'.settled = {id0[1]} \cup {h[1] : h \in S}
      BY <1>1, <1>4, TypesAgain DEF Fires
<1>6. ASSUME NEW x \in Candidate
      PROVE  LET y == [x EXCEPT !.broadcast = TRUE] IN
             /\ y \in Candidate /\ y.broadcast
             /\ y.present = x.present /\ y.released = x.released /\ y.quorum = x.quorum
             /\ y.fireAt = x.fireAt /\ y.deadline = x.deadline
      BY DEF Candidate
<1>7. /\ c \in Registries
      /\ \A id \in Ids : c[id] = IF id \in S THEN [cand[id] EXCEPT !.broadcast = TRUE]
                                 ELSE cand[id]
      BY <1>2, <1>6 DEF Invalidated, Registries
<1> HIDE DEF c
<1>8. /\ cand' \in Registries
      /\ \A id \in Ids : \/ cand'[id] = c[id] /\ (IsHot(id) /\ id = id0 => ~ cand[id].present)
                         \/ cand'[id] = [c[id] EXCEPT !.broadcast = TRUE] /\ id = id0
  <2>1. CASE IsArmedEscape(id0) \/ ~ cand[id0].present
    <3>1. cand' = c
          BY <1>1, <2>1
    <3>2. IsHot(id0) => ~ cand[id0].present
          BY <1>2, <2>1, IdFacts DEF IsArmedEscape
    <3> QED BY <1>7, <3>1, <3>2
  <2>2. CASE ~ (IsArmedEscape(id0) \/ ~ cand[id0].present)
    <3>1. cand' = [c EXCEPT ![id0] = [c[id0] EXCEPT !.broadcast = TRUE]]
          BY <1>1, <2>2
    <3> QED BY <1>2, <1>6, <1>7, <3>1 DEF Registries
  <2> QED BY <2>1, <2>2
<1>9. ledger' \in Ledgers
      BY <1>1, <1>2, RemovalFacts
<1>10. exposed' \in Ledgers
       BY <1>1, <1>2 DEF Ledgers
<1>11. ASSUME NEW id \in Ids
       PROVE  /\ cand'[id].present = cand[id].present
              /\ cand'[id].released = cand[id].released
              /\ cand'[id].quorum = cand[id].quorum
              /\ cand'[id].fireAt = cand[id].fireAt
              /\ cand'[id].deadline = cand[id].deadline
              /\ cand[id].broadcast => cand'[id].broadcast
              /\ cand'[id].broadcast /\ ~ cand[id].broadcast => id \in S \/ id = id0
              /\ IsHot(id) /\ id = id0 /\ cand[id].present => cand'[id].broadcast
              /\ id \in S => cand'[id].broadcast
  <2>1. cand[id] \in Candidate /\ c[id] \in Candidate
        BY <1>2, <1>7 DEF Registries
  <2>2. /\ c[id].present = cand[id].present /\ c[id].released = cand[id].released
        /\ c[id].quorum = cand[id].quorum /\ c[id].fireAt = cand[id].fireAt
        /\ c[id].deadline = cand[id].deadline
        /\ id \in S => c[id].broadcast
        /\ id \notin S => c[id].broadcast = cand[id].broadcast
    <3>1. CASE id \in S
      <4>1. c[id] = [cand[id] EXCEPT !.broadcast = TRUE]
            BY <1>7, <3>1
      <4> QED BY <1>6, <2>1, <3>1, <4>1
    <3>2. CASE id \notin S
      <4>1. c[id] = cand[id]
            BY <1>7, <3>2
      <4> QED BY <3>2, <4>1
    <3> QED BY <3>1, <3>2
  <2>3. /\ cand'[id].present = c[id].present /\ cand'[id].released = c[id].released
        /\ cand'[id].quorum = c[id].quorum /\ cand'[id].fireAt = c[id].fireAt
        /\ cand'[id].deadline = c[id].deadline
        /\ c[id].broadcast => cand'[id].broadcast
        /\ cand'[id].broadcast => c[id].broadcast \/ id = id0
        /\ IsHot(id) /\ id = id0 /\ cand[id].present => cand'[id].broadcast
    <3>1. CASE cand'[id] = c[id] /\ (IsHot(id) /\ id = id0 => ~ cand[id].present)
          BY <3>1
    <3>2. CASE cand'[id] = [c[id] EXCEPT !.broadcast = TRUE] /\ id = id0
          BY <1>6, <2>1, <3>2
    <3> QED BY <1>8, <3>1, <3>2
  <2>4. cand[id].broadcast => c[id].broadcast
        BY <2>2
  <2> QED BY <2>2, <2>3, <2>4
<1>12. \A id \in Ids : id \in S \/ id = id0 => id[1] \in fire'.settled
       BY <1>5
<1>13. ASSUME NEW r \in Requests
       PROVE  /\ \/ ledger'[r] = ledger[r]
                 \/ /\ ledger'[r] = NoReservation
                    /\ SpendId(r) # fire.id
                    /\ cand[SpendId(r)].present /\ cand'[SpendId(r)].broadcast
                    /\ UnexposedHot(SpendId(r), cand)
              /\ ledger'[r].held /\ r \in Hot /\ ~ cand[SpendId(r)].broadcast
                 /\ cand'[SpendId(r)].broadcast =>
                     SpendId(r) = fire.id \/ cand[SpendId(r)].released
  <2>1. ledger'[r] = IF SpendId(r) \in S /\ UnexposedHot(SpendId(r), cand)
                     THEN NoReservation ELSE ledger[r]
        BY <1>1, <1>2, RemovalFacts
  <2>2. SpendId(r) \in Ids /\ (r \in Hot => IsHot(SpendId(r)))
        BY IdFacts
  <2>3. CASE SpendId(r) \in S /\ UnexposedHot(SpendId(r), cand)
    <3>1. SpendId(r) # fire.id /\ cand[SpendId(r)].present
          BY <1>3, <2>3 DEF id0
    <3>2. cand'[SpendId(r)].broadcast
          BY <1>11, <2>2, <2>3
    <3>3. ledger'[r] = NoReservation /\ ~ ledger'[r].held
          BY <2>1, <2>3, Constants
    <3> QED BY <2>3, <3>1, <3>2, <3>3
  <2>4. CASE ~ (SpendId(r) \in S /\ UnexposedHot(SpendId(r), cand))
    <3>1. ledger'[r] = ledger[r]
          BY <2>1, <2>4
    <3>2. ASSUME ~ cand[SpendId(r)].broadcast, cand'[SpendId(r)].broadcast, r \in Hot
          PROVE  SpendId(r) = id0 \/ cand[SpendId(r)].released
          BY <1>11, <2>2, <2>4, <3>2 DEF UnexposedHot
    <3> QED BY <3>1, <3>2 DEF id0
  <2> QED BY <2>3, <2>4
<1>14. ASSUME NEW r \in Requests
       PROVE  /\ \/ exposed'[r] = exposed[r]
                 \/ exposed'[r] = ledger[r] /\ ledger[r].held /\ SpendId(r) = fire.id
              /\ r \in Hot /\ SpendId(r) = fire.id /\ ledger[r].held =>
                     exposed'[r] = ledger[r]
  <2>1. CASE IsHot(id0) /\ ledger[id0[1]].held
    <3>1. exposed' = [exposed EXCEPT ![id0[1]] = ledger[id0[1]]]
          BY <1>1, <2>1
    <3>2. id0 = SpendId(id0[1])
          BY <1>2, <2>1, IdFacts
    <3>3. exposed'[r] = IF r = id0[1] THEN ledger[r] ELSE exposed[r]
          BY <3>1, <1>2 DEF Ledgers
    <3>4. SpendId(r) = id0 => r = id0[1]
          BY IdFacts
    <3> QED BY <2>1, <3>2, <3>3, <3>4 DEF id0
  <2>2. CASE ~ (IsHot(id0) /\ ledger[id0[1]].held)
    <3>1. exposed'[r] = exposed[r]
          BY <1>1, <2>2
    <3>2. r \in Hot /\ SpendId(r) = id0 => ~ ledger[r].held
          BY <2>2, IdFacts
    <3> QED BY <3>1, <3>2 DEF id0
  <2> QED BY <2>1, <2>2
<1> QED BY <1>1, <1>5, <1>8, <1>9, <1>10, <1>11, <1>12, <1>13, <1>14 DEF id0

LEMMA TypeStep == TypeOK /\ [Next]_vars => TypeOK'
<1> SUFFICES ASSUME TypeOK, [Next]_vars PROVE TypeOK'
    OBVIOUS
<1>1. ASSUME NEW k \in Carriers,
             RecordIntent(k) \/ Submit(k) \/ Confirm(k) \/ RetireIntent(k)
      PROVE  TypeOK'
  <2>1. CASE RetireIntent(k)
    <3>1. /\ intent' = [intent EXCEPT ![k].phase = "gone"]
          /\ UNCHANGED <<clockVars, cand, ledger, armed, sign, fire, logVars, locked,
                         exposed>>
          BY <2>1 DEF RetireIntent
    <3>2. intent' \in Intents
          BY <3>1, Types DEF Intents
    <3> QED BY <3>1, <3>2, Types, TypesAgain, TypeParts DEF clockVars, logVars
  <2> QED BY <1>1, <2>1, RecordIntentType, SubmitType, ConfirmType
<1>2. ASSUME NEW id \in Ids, EvictOnPartial(id) PROVE TypeOK'
  <2>1. /\ cand' = Without(cand, {id}) /\ ledger' = Refunded(ledger, cand, {id})
        /\ UNCHANGED <<clockVars, armed, intent, sign, fire, logVars, locked, exposed>>
        BY <1>2 DEF EvictOnPartial
  <2>2. cand' \in Registries /\ ledger' \in Ledgers
        BY <2>1, Types, RemovalFacts
  <2> QED BY <2>1, <2>2, Types, TypesAgain, TypeParts DEF clockVars, logVars
<1>3. ASSUME NEW id \in Ids, Combine(id) PROVE TypeOK'
  <2>1. /\ \E p \in {"settle", "finalized", "next"} :
               fire' = [fire EXCEPT !.pc = p, !.id = id]
        /\ UNCHANGED <<clockVars, storeVars, sign, logVars, locked, exposed>>
        BY <1>3 DEF Combine
  <2>2. fire' \in Fires
        BY <2>1, TypesAgain DEF Fires
  <2> QED BY <2>1, <2>2, Types, TypesAgain, TypeParts DEF clockVars, storeVars, logVars
<1>4. CASE Register
      BY <1>4, RegisterType
<1>5. CASE Prune
  <2>1. /\ cand' = Pruned(EffectiveNow) /\ ledger' = PrunedRefund(EffectiveNow)
        /\ replay' \subseteq replay /\ pending' \subseteq pending
        /\ UNCHANGED <<clockVars, armed, intent, sign, fire, locked, exposed>>
        BY <1>5 DEF Prune
  <2>2. cand' \in Registries /\ ledger' \in Ledgers
        BY <2>1, Types, SubmitLedger
  <2>3. replay' \subseteq Requests /\ pending' \subseteq Requests
        BY <2>1, TypesAgain
  <2> QED BY <2>1, <2>2, <2>3, Types, TypesAgain, TypeParts DEF clockVars
<1>6. CASE LatchLockdown
  <2>1. /\ locked' \in BOOLEAN
        /\ UNCHANGED <<clockVars, storeVars, sign, fire, logVars, exposed>>
        BY <1>6 DEF LatchLockdown
  <2> QED BY <2>1, Types, TypesAgain, TypeParts DEF clockVars, storeVars, logVars
<1>7. CASE StartPass
  <2>1. /\ cand' = Pruned(wall) /\ ledger' = PrunedRefund(wall)
        /\ locked' \in BOOLEAN
        /\ fire' = [fire EXCEPT !.pc = "poll", !.now = wall, !.due = Due(cand', wall)]
        /\ UNCHANGED <<clockVars, armed, intent, sign, logVars, exposed>>
    <3>1. LockdownDue \in BOOLEAN
          BY DEF LockdownDue
    <3> QED BY <1>7, <3>1, TypesAgain DEF StartPass
  <2>2. cand' \in Registries /\ ledger' \in Ledgers
        BY <2>1, Types, SubmitLedger
  <2>3. Due(cand', wall) \subseteq Ids
        BY DEF Due
  <2>4. fire' \in Fires
        BY <2>1, <2>3, Types, TypesAgain DEF Fires
  <2> QED BY <2>1, <2>2, <2>4, Types, TypesAgain, TypeParts DEF clockVars, logVars
<1>8. CASE PollPending
  <2>1. UNCHANGED <<clockVars, storeVars, sign, logVars, locked, exposed>>
        BY <1>8 DEF PollPending
  <2>2. PICK due : /\ due \subseteq fire.due \cup {SpendId(r) : r \in pending}
                   /\ fire' = IF due = {} THEN Resting
                              ELSE [Resting EXCEPT !.pc = "release", !.due = due]
        BY <1>8 DEF PollPending
  <2>3. due \subseteq Ids
        BY <2>2, TypesAgain, IdFacts
  <2>4. fire' \in Fires
    <3>1. Resting \in Fires
          BY RestFacts DEF Fires
    <3> QED BY <2>2, <2>3, <3>1 DEF Fires
  <2> QED BY <2>1, <2>4, Types, TypesAgain, TypeParts DEF clockVars, storeVars, logVars
<1>9. CASE ReleasePartials
  <2>1. UNCHANGED <<clockVars, ledger, armed, intent, sign, logVars, locked>>
        BY <1>9 DEF ReleasePartials
  <2>2. cand' \in Registries /\ exposed' \in Ledgers /\ fire' \in Fires
        BY <1>9, ReleaseFacts
  <2> QED BY <2>1, <2>2, Types, TypesAgain, TypeParts DEF clockVars, logVars
<1>10. CASE Skip
  <2>1. /\ fire' \in Fires
        /\ UNCHANGED <<clockVars, storeVars, sign, logVars, locked, exposed>>
        BY <1>10, ProceedType DEF Skip
  <2> QED BY <2>1, Types, TypesAgain, TypeParts DEF clockVars, storeVars, logVars
<1>11. CASE Authorize
  <2>1. fire' \in Fires
    <3>1. fire' = [fire EXCEPT !.pc = "sending"] \/ Proceed
          BY <1>11 DEF Authorize
    <3>2. [fire EXCEPT !.pc = "sending"] \in Fires
          BY TypesAgain DEF Fires
    <3> QED BY <3>1, <3>2, ProceedType
  <2>2. UNCHANGED <<clockVars, storeVars, sign, logVars, locked, exposed>>
        BY <1>11 DEF Authorize
  <2> QED BY <2>1, <2>2, Types, TypesAgain, TypeParts DEF clockVars, storeVars, logVars
<1>12. CASE Sent
  <2>1. fire' \in Fires
    <3>1. fire' = [fire EXCEPT !.pc = "settle"] \/ Proceed
          BY <1>12 DEF Sent
    <3>2. [fire EXCEPT !.pc = "settle"] \in Fires
          BY TypesAgain DEF Fires
    <3> QED BY <3>1, <3>2, ProceedType
  <2>2. \/ exposed' = exposed
        \/ exposed' = [exposed EXCEPT ![fire.id[1]] = Exposure(fire.id[1])]
        BY <1>12 DEF Sent
  <2>3. exposed' \in Ledgers
    <3>1. fire.id[1] \in Requests
          BY TypesAgain, IdFacts
    <3> QED BY <2>2, <3>1, ExposureType, Types DEF Ledgers
  <2>4. UNCHANGED <<clockVars, storeVars, sign, logVars, locked>>
        BY <1>12 DEF Sent
  <2> QED BY <2>1, <2>3, <2>4, Types, TypesAgain, TypeParts
          DEF clockVars, storeVars, logVars
<1>13. CASE MarkBroadcast
  <2>1. UNCHANGED <<clockVars, armed, intent, sign, logVars, locked>>
        BY <1>13 DEF MarkBroadcast
  <2>2. cand' \in Registries /\ ledger' \in Ledgers /\ exposed' \in Ledgers /\ fire' \in Fires
        BY <1>13, SettleFacts
  <2> QED BY <2>1, <2>2, Types, TypesAgain, TypeParts DEF clockVars, logVars
<1>14. CASE EndPending
  <2>1. /\ fire' \in Fires /\ pending' \subseteq pending
        /\ UNCHANGED <<clockVars, storeVars, sign, replay, locked, exposed>>
        BY <1>14, ProceedType DEF EndPending
  <2>2. pending' \subseteq Requests
        BY <2>1, TypesAgain
  <2> QED BY <2>1, <2>2, Types, TypesAgain, TypeParts DEF clockVars, storeVars
<1>15. CASE Tick
  <2>1. /\ mono' = mono + 1 /\ wall' = wall + 1 /\ mono < MaxTime /\ wall < MaxTime
        /\ peak' = Most(peak, wall + 1)
        /\ UNCHANGED <<steps, highWater, storeVars, sign, fire, logVars, locked, exposed>>
        BY <1>15 DEF Tick
  <2>2. mono' \in Time /\ wall' \in Time /\ peak' \in Time
    <3>1. mono' \in Time /\ wall' \in Time
          BY <2>1, Types, Bounds DEF Time
    <3>2. peak' \in {peak, wall'}
          BY <2>1, Types, Arithmetic
    <3> QED BY <3>1, <3>2, Types
  <2> QED BY <2>1, <2>2, Types, TypesAgain, TypeParts DEF storeVars, logVars
<1>16. CASE StepWall
  <2>1. /\ steps < MaxWallSteps /\ steps' = steps + 1 /\ wall' \in Time
        /\ peak' = Most(peak, wall')
        /\ UNCHANGED <<mono, highWater, storeVars, sign, fire, logVars, locked, exposed>>
        BY <1>16 DEF StepWall
  <2>2. peak' \in Time
    <3>1. wall' \in Nat
          BY <2>1, Bounds DEF Time
    <3>2. peak' \in {peak, wall'}
          BY <2>1, <3>1, Types, Arithmetic
    <3> QED BY <2>1, <3>2, Types
  <2>3. steps' \in 0 .. MaxWallSteps
        BY <2>1, TypesAgain, Bounds
  <2> QED BY <2>1, <2>2, <2>3, Types, TypesAgain, TypeParts DEF storeVars, logVars
<1>17. CASE RaiseHighWater
  <2>1. /\ highWater' = wall
        /\ UNCHANGED <<wall, peak, mono, steps, storeVars, sign, fire, logVars, locked,
                       exposed>>
        BY <1>17 DEF RaiseHighWater
  <2> QED BY <2>1, Types, TypesAgain, TypeParts DEF storeVars, logVars
<1>18. CASE UNCHANGED vars
  <2>1. UNCHANGED <<clockVars, storeVars, sign, fire, logVars, locked, exposed>>
        BY <1>18 DEF vars
  <2> QED BY <2>1, Types, TypesAgain, TypeParts DEF clockVars, storeVars, logVars
<1> QED BY <1>1, <1>2, <1>3, <1>4, <1>5, <1>6, <1>7, <1>8, <1>9, <1>10, <1>11, <1>12,
           <1>13, <1>14, <1>15, <1>16, <1>17, <1>18 DEF Next

-----------------------------------------------------------------------------
(* Once armed.                                                               *)

\* What Submit does to the candidates and to the overlay.
LEMMA SubmitFacts ==
    ASSUME TypeOK, NEW k \in Carriers, Submit(k)
    PROVE  \/ UNCHANGED <<cand, armed>>
           \/ cand' = Pruned(EffectiveNow) /\ UNCHANGED armed
           \/ /\ ReqOf[k] \in replay'
              /\ ~ ClockRefuses(ExpiryOf[ReqOf[k]])
              /\ armed'.active = armed.active
              /\ armed.active => armed'.fireAt <= armed.fireAt
              /\ armed.sweep => armed'.sweep /\ armed'.escape = armed.escape
              /\ ~ armed.sweep /\ armed'.sweep =>
                     armed'.escape = ReqOf[k] /\ EscapeLive(cand, ReqOf[k])
              /\ \A id \in Ids : /\ cand'[id].present = cand[id].present
                                 /\ cand'[id].quorum = cand[id].quorum
                                 /\ cand'[id].released = cand[id].released
                                 /\ cand'[id].broadcast = cand[id].broadcast
                                 /\ ~ IsEscape(id) => cand'[id] = cand[id]
<1> DEFINE r == ReqOf[k]
           d == k \in DuressCarriers
<1>1. \/ UNCHANGED <<cand, armed>>
      \/ cand' = Pruned(EffectiveNow) /\ UNCHANGED armed
      \/ /\ r \in replay' /\ ~ ClockRefuses(ExpiryOf[r])
         /\ armed' = Directed(armed, cand, r, d, {}, EffectiveNow)
         /\ cand' = Scheduled(cand, armed', r)
      BY DEF Submit
<1>2. ASSUME armed' = Directed(armed, cand, r, d, {}, EffectiveNow),
             cand' = Scheduled(cand, armed', r)
      PROVE  /\ armed'.active = armed.active
             /\ armed.active => armed'.fireAt <= armed.fireAt
             /\ armed.sweep => armed'.sweep /\ armed'.escape = armed.escape
             /\ ~ armed.sweep /\ armed'.sweep => armed'.escape = r /\ EscapeLive(cand, r)
             /\ \A id \in Ids : /\ cand'[id].present = cand[id].present
                                /\ cand'[id].quorum = cand[id].quorum
                                /\ cand'[id].released = cand[id].released
                                /\ cand'[id].broadcast = cand[id].broadcast
                                /\ ~ IsEscape(id) => cand'[id] = cand[id]
  <2>1. r \in Requests /\ d \in BOOLEAN /\ {} \in SUBSET Nat /\ EffectiveNow \in Nat
        /\ armed \in Overlays /\ cand \in Registries
        BY Types
  <2> HIDE DEF r, d
  <2>2. /\ armed' \in Overlays
        /\ armed'.active = armed.active
        /\ armed.active => armed'.fireAt <= armed.fireAt
        /\ armed.sweep => armed'.sweep /\ armed'.escape = armed.escape
        /\ ~ armed.sweep /\ armed'.sweep => armed'.escape = r /\ EscapeLive(cand, r)
        BY <1>2, <2>1, DirectedFacts
  <2>3. \A id \in Ids : /\ cand'[id].present = cand[id].present
                        /\ cand'[id].quorum = cand[id].quorum
                        /\ cand'[id].released = cand[id].released
                        /\ cand'[id].broadcast = cand[id].broadcast
                        /\ ~ IsEscape(id) => cand'[id] = cand[id]
    <3>1. r \in Requests \cup {NoReq}
          BY <2>1
    <3> QED BY <1>2, <2>1, <2>2, <3>1, ScheduledFacts
  <2> QED BY <2>2, <2>3
<1> QED BY <1>1, <1>2

\* What Register does to them.
LEMMA RegisterFacts ==
    ASSUME TypeOK, Register
    PROVE  \/ UNCHANGED <<cand, armed, logVars>>
           \/ LET r == ReqOf[sign.carrier] IN
              /\ armed'.active = armed.active
              /\ armed.active =>
                     /\ armed'.fireAt <= armed.fireAt
                     /\ r \in Hot => armed'.fireAt <=
                            Most(Monus(Window(r, sign.now).at, EpsilonSecs), sign.now)
              /\ armed.sweep => armed'.sweep /\ armed'.escape = armed.escape
              /\ ~ armed.sweep /\ armed'.sweep =>
                     armed'.escape = r /\ EscapeLive(Inserted(r, sign.now), r)
              /\ \A id \in Ids :
                     LET x == Inserted(r, sign.now)[id] IN
                     /\ cand'[id].present = x.present /\ cand'[id].quorum = x.quorum
                     /\ cand'[id].released = x.released /\ cand'[id].broadcast = x.broadcast
                     /\ ~ IsEscape(id) => cand'[id] = x
              /\ replay' = replay \cup {r}
              /\ pending' \subseteq pending \cup {r}
              /\ r \in Hot => RegistrationReserve(r, sign.raw).verdict
                                  \notin {"window", "capacity"}
              /\ ledger' = IF r \in Hot THEN RegistrationReserve(r, sign.raw).ledger
                           ELSE ledger
<1> DEFINE r == ReqOf[sign.carrier]
           d == sign.carrier \in DuressCarriers
           now == sign.now
           holds == IF r \in Hot THEN {Window(r, now).at} ELSE {}
           c == Inserted(r, now)
<1>1. \/ UNCHANGED <<cand, armed, logVars>>
      \/ /\ armed' = Directed(armed, c, r, d, holds, now)
         /\ cand' = Scheduled(c, armed', r)
         /\ replay' = replay \cup {r}
         /\ pending' \subseteq pending \cup {r}
         /\ r \in Hot => RegistrationReserve(r, sign.raw).verdict
                             \notin {"window", "capacity"}
         /\ ledger' = IF r \in Hot THEN RegistrationReserve(r, sign.raw).ledger
                      ELSE ledger
      BY DEF Register
<1>2. ASSUME armed' = Directed(armed, c, r, d, holds, now),
             cand' = Scheduled(c, armed', r)
      PROVE  /\ armed'.active = armed.active
             /\ armed.active =>
                    /\ armed'.fireAt <= armed.fireAt
                    /\ r \in Hot => armed'.fireAt <=
                           Most(Monus(Window(r, now).at, EpsilonSecs), now)
             /\ armed.sweep => armed'.sweep /\ armed'.escape = armed.escape
             /\ ~ armed.sweep /\ armed'.sweep => armed'.escape = r /\ EscapeLive(c, r)
             /\ \A id \in Ids : /\ cand'[id].present = c[id].present
                                /\ cand'[id].quorum = c[id].quorum
                                /\ cand'[id].released = c[id].released
                                /\ cand'[id].broadcast = c[id].broadcast
                                /\ ~ IsEscape(id) => cand'[id] = c[id]
  <2>1. r \in Requests /\ d \in BOOLEAN /\ now \in Nat /\ armed \in Overlays
        BY Types
  <2>2. c \in Registries /\ Window(r, now).at \in Nat
    <3> HIDE DEF r, now
    <3> QED BY <2>1, InsertedFacts
  <2>3. holds \in SUBSET Nat /\ (r \in Hot => Window(r, now).at \in holds)
        BY <2>2
  <2> HIDE DEF r, d, now, holds, c
  <2>4. /\ armed' \in Overlays
        /\ armed'.active = armed.active
        /\ armed.active => /\ armed'.fireAt <= armed.fireAt
                           /\ \A h \in holds :
                                  armed'.fireAt <= Most(Monus(h, EpsilonSecs), now)
        /\ armed.sweep => armed'.sweep /\ armed'.escape = armed.escape
        /\ ~ armed.sweep /\ armed'.sweep => armed'.escape = r /\ EscapeLive(c, r)
        BY <1>2, <2>1, <2>2, <2>3, DirectedFacts
  <2>5. \A id \in Ids : /\ cand'[id].present = c[id].present
                        /\ cand'[id].quorum = c[id].quorum
                        /\ cand'[id].released = c[id].released
                        /\ cand'[id].broadcast = c[id].broadcast
                        /\ ~ IsEscape(id) => cand'[id] = c[id]
    <3>1. r \in Requests \cup {NoReq}
          BY <2>1
    <3> QED BY <1>2, <2>2, <2>4, <3>1, ScheduledFacts
  <2> QED BY <2>3, <2>4, <2>5
<1> QED BY <1>1, <1>2

\* Every step keeps the overlay's promises.
LEMMA OverlayStep ==
    ASSUME TypeOK, [Next]_vars
    PROVE  /\ armed.active => armed'.active /\ armed'.fireAt <= armed.fireAt
           /\ armed.sweep => armed'.sweep /\ armed'.escape = armed.escape
<1>1. armed.fireAt \in Nat /\ armed.fireAt <= armed.fireAt
      BY Types DEF Overlays
<1>2. CASE UNCHANGED armed
      BY <1>1, <1>2
<1>3. ASSUME NEW k \in Carriers, RecordIntent(k)
      PROVE  /\ armed.active => armed'.active /\ armed'.fireAt <= armed.fireAt
             /\ armed.sweep => armed'.sweep /\ armed'.escape = armed.escape
  <2> DEFINE no == FALSE
  <2>1. PICK seen \in 0 .. peak : armed' = Overlay(armed, cand, no, seen, EffectiveNow)
        BY <1>3 DEF RecordIntent
  <2>2. seen \in Nat /\ no \in BOOLEAN /\ EffectiveNow \in Nat
        /\ armed \in Overlays /\ cand \in Registries
        BY Types
  <2> DEFINE o == Overlay(armed, cand, no, seen, EffectiveNow)
  <2> HIDE DEF no
  <2>3. /\ o.active = (armed.active \/ no) /\ o.sweep = armed.sweep
        /\ o.escape = armed.escape
        /\ armed.active => o.fireAt <= armed.fireAt
        BY <2>2, OverlayFacts
  <2>4. armed' = o
        BY <2>1
  <2> HIDE DEF o
  <2>5. armed.active \in BOOLEAN /\ armed.sweep \in BOOLEAN
        BY <2>2 DEF Overlays
  <2> QED BY <2>3, <2>4, <2>5
<1>4. ASSUME NEW k \in Carriers, Submit(k)
      PROVE  /\ armed.active => armed'.active /\ armed'.fireAt <= armed.fireAt
             /\ armed.sweep => armed'.sweep /\ armed'.escape = armed.escape
      BY <1>1, <1>4, SubmitFacts
<1>5. ASSUME NEW k \in Carriers, Confirm(k)
      PROVE  /\ armed.active => armed'.active /\ armed'.fireAt <= armed.fireAt
             /\ armed.sweep => armed'.sweep /\ armed'.escape = armed.escape
      BY <1>5, ConfirmFacts
<1>6. CASE Register
      BY <1>1, <1>6, RegisterFacts
<1>7. \/ UNCHANGED armed
      \/ Register
      \/ \E k \in Carriers : RecordIntent(k) \/ Submit(k) \/ Confirm(k)
      BY DEF Next, vars, storeVars, RetireIntent, EvictOnPartial, Combine, Prune,
             LatchLockdown, StartPass, PollPending, ReleasePartials, Skip, Authorize,
             Sent, MarkBroadcast, EndPending, Tick, StepWall, RaiseHighWater
<1> QED BY <1>2, <1>3, <1>4, <1>5, <1>6, <1>7

\* No hot share leaves an armed node, and no hot broadcast is authorized.
LEMMA FreezeStep ==
    ASSUME TypeOK, [Next]_vars, armed.active, NEW id \in Ids, IsHot(id)
    PROVE  /\ cand'[id].released => cand[id].released
           /\ fire'.pc = "sending" /\ fire'.id = id => fire.pc = "sending"
<1>1. ASSUME NEW now PROVE Pruned(now)[id].released => cand[id].released
      BY Types, RemovalFacts, Constants DEF Pruned
<1>2. cand'[id].released => cand[id].released
  <2>1. CASE UNCHANGED cand
        BY <2>1
  <2>2. ASSUME NEW k \in Carriers, Submit(k) PROVE cand'[id].released => cand[id].released
        BY <1>1, <2>2, SubmitFacts
  <2>3. ASSUME NEW k \in Carriers, Confirm(k) PROVE cand'[id].released => cand[id].released
        BY <2>3, ConfirmFacts
  <2>4. CASE Register
    <3>1. ReqOf[sign.carrier] \in Requests /\ sign.now \in Nat
          BY Types
    <3>2. Inserted(ReqOf[sign.carrier], sign.now)[id].released => cand[id].released
          BY <3>1, InsertedFacts
    <3> QED BY <2>4, <3>2, RegisterFacts
  <2>5. ASSUME NEW i \in Ids, EvictOnPartial(i)
        PROVE  cand'[id].released => cand[id].released
    <3>1. cand' = Without(cand, {i})
          BY <2>5 DEF EvictOnPartial
    <3> QED BY <3>1, Types, RemovalFacts, Constants
  <2>6. CASE Prune \/ StartPass
        BY <1>1, <2>6 DEF Prune, StartPass
  <2>7. CASE ReleasePartials
    <3>1. ~ MayRelease(id, wall)
          BY DEF MayRelease, Frozen
    <3> QED BY <2>7, <3>1, ReleaseFacts
  <2>8. CASE MarkBroadcast
        BY <2>8, SettleFacts
  <2>9. \/ UNCHANGED cand
        \/ \E k \in Carriers : Submit(k) \/ Confirm(k)
        \/ \E i \in Ids : EvictOnPartial(i)
        \/ Register \/ Prune \/ StartPass \/ ReleasePartials \/ MarkBroadcast
        BY DEF Next, vars, storeVars, RecordIntent, RetireIntent, Combine,
               LatchLockdown, PollPending, Skip, Authorize,
               Sent, EndPending, Tick, StepWall, RaiseHighWater
  <2> QED BY <2>1, <2>2, <2>3, <2>4, <2>5, <2>6, <2>7, <2>8, <2>9
<1>3. fire'.pc = "sending" /\ fire'.id = id => fire.pc = "sending"
  <2>1. CASE UNCHANGED fire
        BY <2>1
  <2>2. CASE Authorize
    <3>1. \/ MayBroadcast(fire.id, wall) /\ fire' = [fire EXCEPT !.pc = "sending"]
          \/ Proceed
          BY <2>2 DEF Authorize
    <3>2. MayBroadcast(fire.id, wall) /\ fire' = [fire EXCEPT !.pc = "sending"] =>
              fire'.id # id
      <4>1. fire' = [fire EXCEPT !.pc = "sending"] => fire'.id = fire.id
            BY TypesAgain DEF Fires
      <4> QED BY <4>1 DEF MayBroadcast, MayRelease, Frozen
    <3>3. Proceed => fire'.pc # "sending"
          BY ProceedType
    <3> QED BY <3>1, <3>2, <3>3
  <2>3. \/ UNCHANGED fire
        \/ Authorize
        \/ fire'.pc # "sending"
    <3>1. Skip \/ EndPending => fire'.pc # "sending"
          BY ProceedType DEF Skip, EndPending
    <3>2. Sent => fire'.pc # "sending"
      <4>1. [fire EXCEPT !.pc = "settle"].pc = "settle"
            BY TypesAgain DEF Fires
      <4> QED BY <4>1, ProceedType DEF Sent
    <3>3. (\E i \in Ids : Combine(i)) => fire'.pc # "sending"
      <4>1. \A i \in Ids, p \in {"settle", "finalized", "next"} :
                [fire EXCEPT !.pc = p, !.id = i].pc = p
            BY TypesAgain DEF Fires
      <4>2. ASSUME NEW i \in Ids, Combine(i) PROVE fire'.pc # "sending"
        <5>1. PICK p \in {"settle", "finalized", "next"} :
                  fire' = [fire EXCEPT !.pc = p, !.id = i]
              BY <4>2 DEF Combine
        <5>2. fire'.pc = p
              BY <4>1, <5>1
        <5> QED BY <5>2
      <4> QED BY <4>2
    <3>4. StartPass => fire'.pc # "sending"
          BY TypesAgain DEF StartPass, Fires
    <3>5. PollPending => fire'.pc # "sending"
      <4>1. Resting \in Fires /\ Resting.pc = "idle"
            BY RestFacts DEF Fires
      <4>2. \A due : [Resting EXCEPT !.pc = "release", !.due = due].pc = "release"
            BY <4>1 DEF Fires
      <4>3. PollPending => \E due : \/ fire' = Resting
                                    \/ fire' = [Resting EXCEPT !.pc = "release", !.due = due]
            BY DEF PollPending
      <4> QED BY <4>1, <4>2, <4>3
    <3>6. ReleasePartials \/ MarkBroadcast => fire'.pc # "sending"
          BY ReleaseFacts, SettleFacts
    <3> QED BY <3>1, <3>2, <3>3, <3>4, <3>5, <3>6
            DEF Next, vars, RecordIntent, Submit, Confirm, RetireIntent, EvictOnPartial,
                Register, Prune, LatchLockdown, Tick, StepWall, RaiseHighWater
  <2> QED BY <2>1, <2>2, <2>3
<1> QED BY <1>2, <1>3

LEMMA StoreInitType == Init => TypeOK
<1> SUFFICES ASSUME Init PROVE TypeOK
    OBVIOUS
<1>1. NoIntent \in [phase : {"new", "recorded", "staged", "gone"},
                    seen : Time, req : Requests \cup {NoReq}]
      BY Constants DEF NoIntent
<1>2. {wall, peak, mono, highWater} \subseteq Time /\ steps \in 0 .. MaxWallSteps
      BY Constants, Bounds DEF Init
<1>3. /\ cand \in [Ids -> Candidate] /\ ledger \in [Requests -> Reservation]
      /\ exposed \in [Requests -> Reservation]
      BY Constants DEF Init
<1>4. armed \in [active : BOOLEAN, fireAt : Nat,
                 escape : Requests \cup {NoReq}, sweep : BOOLEAN, slack : Nat]
      BY DEF Init
<1>5. intent \in [Carriers -> [phase : {"new", "recorded", "staged", "gone"},
                               seen : Time, req : Requests \cup {NoReq}]]
      BY <1>1 DEF Init
<1>6. replay \subseteq Requests /\ pending \subseteq Requests /\ locked \in BOOLEAN
      /\ sign = Free /\ fire = Resting
      BY DEF Init
<1> QED BY <1>2, <1>3, <1>4, <1>5, <1>6, RestFacts DEF TypeOK

\* Types, for every behaviour: every variable of the store keeps its type.
THEOREM StoreTypeHolds == Spec => []TypeOK
BY StoreInitType, TypeStep, PTL DEF Spec

\* Once armed (write_safety_overlay, apply_arm_directive, the gates of
\* release_partials and with_broadcast_authorization): T only shrinks, a live sweep
\* stays on its escape, and no hot share leaves and no hot broadcast is authorized,
\* whatever the clocks, the sends and the other handlers do.
THEOREM ArmedStaysArmedHolds == Spec => ArmedStaysArmed
<1>1. TypeOK /\ [Next]_vars =>
          [armed.active => \A id \in Ids : IsHot(id) =>
              /\ cand'[id].released => cand[id].released
              /\ fire'.pc = "sending" /\ fire'.id = id => fire.pc = "sending"]_vars
      BY FreezeStep
<1>2. TypeOK /\ [Next]_vars =>
          [/\ armed.active => armed'.active /\ armed'.fireAt <= armed.fireAt
           /\ armed.sweep => armed'.sweep /\ armed'.escape = armed.escape]_vars
      BY OverlayStep
<1> QED BY <1>1, <1>2, StoreTypeHolds, PTL
        DEF Spec, ArmedStaysArmed, FreezeHolds, OverlayMonotone

-----------------------------------------------------------------------------
(* The clocks, and what is known of a request.                               *)

\* How Submit may end: an answer that changes no store but the replay log, the
\* answer of a request accepted before, a refusal after the stores are pruned, or
\* the way into the second reserve.
LEMMA SubmitCases ==
    ASSUME NEW k \in Carriers, Submit(k)
    PROVE  LET r   == ReqOf[k]
               now == EffectiveNow
               met == LedgerPruned(PrunedRefund(now), wall)
           IN
           /\ sign.pc = "free"
           /\ UNCHANGED <<clockVars, fire, locked, exposed>>
           /\ replay' = replay \/ replay' = {q \in replay : ExpiryOf[q] > now}
           /\ \/ /\ UNCHANGED <<cand, ledger, armed, sign, pending>>
                 /\ \E s \in BOOLEAN : intent' = Ended(intent, k, s)
              \/ /\ r \in replay' /\ ~ ClockRefuses(ExpiryOf[r])
                 /\ UNCHANGED <<ledger, sign, pending>>
                 /\ armed' = Directed(armed, cand, r, k \in DuressCarriers, {}, now)
                 /\ cand' = Scheduled(cand, armed', r)
                 /\ intent' = [Ended(intent, k, TRUE) EXCEPT ![k].req = r]
              \/ /\ r \notin replay' /\ ~ ClockRefuses(ExpiryOf[r])
                 /\ replay' = {q \in replay : ExpiryOf[q] > now}
                 /\ Spares(Expired(cand, now), now)
                 /\ cand' = Pruned(now) /\ pending' \subseteq pending
                 /\ UNCHANGED armed
                 /\ \/ /\ ledger' \in {PrunedRefund(now), met} /\ UNCHANGED sign
                       /\ \E s \in BOOLEAN : intent' = Ended(intent, k, s)
                    \/ /\ UNCHANGED intent
                       /\ \E o \in BOOLEAN :
                             /\ sign' = [pc |-> "reserved", carrier |-> k, owned |-> o,
                                         now |-> now, raw |-> wall]
                             /\ \/ /\ o /\ r \in Hot
                                   /\ ReserveVerdict(met, r) = "inserted"
                                   /\ ledger' = Reserved(met, r)
                                \/ /\ ~ o /\ r \in Hot
                                   /\ ReserveVerdict(met, r) = "already"
                                   /\ ledger' = met
                                \/ /\ ~ o /\ r \notin Hot
                                   /\ ledger' = PrunedRefund(now)
<1> DEFINE r   == ReqOf[k]
           now == EffectiveNow
           met == LedgerPruned(PrunedRefund(now), wall)
           verdict == IF r \in Hot THEN ReserveVerdict(met, r) ELSE "unmetered"
           new == CASE verdict = "inserted" -> Reserved(met, r)
                    [] verdict = "already" -> met
                    [] OTHER -> PrunedRefund(now)
<1>1. /\ verdict = "inserted" => new = Reserved(met, r)
      /\ verdict = "already" => new = met
      /\ verdict = "unmetered" => new = PrunedRefund(now)
  <2> HIDE DEF verdict, met
  <2> QED OBVIOUS
<1>2. /\ verdict = "inserted" => r \in Hot /\ ReserveVerdict(met, r) = "inserted"
      /\ verdict = "already" => r \in Hot /\ ReserveVerdict(met, r) = "already"
      /\ verdict = "unmetered" => r \notin Hot
      BY DEF ReserveVerdict
<1>3. /\ sign.pc = "free"
      /\ UNCHANGED <<clockVars, fire, locked, exposed>>
      /\ replay' = replay \/ replay' = {q \in replay : ExpiryOf[q] > now}
      BY DEF Submit, logVars
<1>4. \/ /\ UNCHANGED <<cand, ledger, armed, sign, pending>>
         /\ \E s \in BOOLEAN : intent' = Ended(intent, k, s)
      \/ /\ r \in replay' /\ ~ ClockRefuses(ExpiryOf[r])
         /\ UNCHANGED <<ledger, sign, pending>>
         /\ armed' = Directed(armed, cand, r, k \in DuressCarriers, {}, now)
         /\ cand' = Scheduled(cand, armed', r)
         /\ intent' = [Ended(intent, k, TRUE) EXCEPT ![k].req = r]
      \/ /\ r \notin replay' /\ ~ ClockRefuses(ExpiryOf[r])
         /\ replay' = {q \in replay : ExpiryOf[q] > now}
         /\ Spares(Expired(cand, now), now)
         /\ cand' = Pruned(now) /\ pending' \subseteq pending
         /\ UNCHANGED armed
         /\ \/ /\ ledger' \in {PrunedRefund(now), met} /\ UNCHANGED sign
               /\ \E s \in BOOLEAN : intent' = Ended(intent, k, s)
            \/ /\ UNCHANGED intent
               /\ verdict \in {"inserted", "already", "unmetered"}
               /\ sign' = [pc |-> "reserved", carrier |-> k,
                           owned |-> verdict = "inserted", now |-> now, raw |-> wall]
               /\ ledger' = new
      BY DEF Submit, logVars
<1> HIDE DEF new, verdict
<1>5. ASSUME verdict \in {"inserted", "already", "unmetered"}, ledger' = new,
             sign' = [pc |-> "reserved", carrier |-> k,
                      owned |-> verdict = "inserted", now |-> now, raw |-> wall]
      PROVE  \E o \in BOOLEAN :
                 /\ sign' = [pc |-> "reserved", carrier |-> k, owned |-> o,
                             now |-> now, raw |-> wall]
                 /\ \/ /\ o /\ r \in Hot
                       /\ ReserveVerdict(met, r) = "inserted"
                       /\ ledger' = Reserved(met, r)
                    \/ /\ ~ o /\ r \in Hot
                       /\ ReserveVerdict(met, r) = "already"
                       /\ ledger' = met
                    \/ /\ ~ o /\ r \notin Hot
                       /\ ledger' = PrunedRefund(now)
  <2> HIDE DEF met, r, now
  <2>1. (verdict = "inserted") \in BOOLEAN
        OBVIOUS
  <2> WITNESS (verdict = "inserted") \in BOOLEAN
  <2>2. CASE verdict = "inserted"
        BY <1>1, <1>2, <1>5, <2>2
  <2>3. CASE verdict = "already"
        BY <1>1, <1>2, <1>5, <2>3
  <2>4. CASE verdict = "unmetered"
        BY <1>1, <1>2, <1>5, <2>4
  <2> QED BY <1>5, <2>2, <2>3, <2>4
<1> HIDE DEF met
<1> QED BY <1>3, <1>4, <1>5 DEF met

\* Relative to an expiry, the wall clock, its highest reading and the effective
\* clock agree.
LEMMA NowAgrees ==
    ASSUME TypeOK, ClockInv, NEW r \in Requests
    PROVE  /\ ExpiryOf[r] <= EffectiveNow <=> ExpiryOf[r] <= wall
           /\ ExpiryOf[r] < EffectiveNow <=> ExpiryOf[r] < wall
           /\ ExpiryOf[r] < peak <=> ExpiryOf[r] < wall
           /\ EffectiveNow <= peak
           /\ ExpiryOf[r] \in Nat
<1>1. /\ wall \in Nat /\ peak \in Nat /\ EffectiveNow \in Nat /\ ExpiryOf[r] \in Nat
      /\ wall <= EffectiveNow /\ EffectiveNow \in {wall, highWater}
      BY Types
<1>2. EffectiveNow <= peak /\ wall <= peak
      BY <1>1 DEF ClockInv
<1>3. (ExpiryOf[r] <= peak => ExpiryOf[r] <= wall) /\ (ExpiryOf[r] < peak => ExpiryOf[r] < wall)
      BY DEF ClockInv
<1> QED BY <1>1, <1>2, <1>3

LEMMA SubmitSign ==
    ASSUME NEW k \in Carriers, Submit(k)
    PROVE  \/ UNCHANGED sign
           \/ sign'.now = EffectiveNow /\ sign'.raw = wall
<1>1. \/ UNCHANGED sign
      \/ \E o \in BOOLEAN : sign' = [pc |-> "reserved", carrier |-> k, owned |-> o,
                                     now |-> EffectiveNow, raw |-> wall]
      BY SubmitCases
<1> QED BY <1>1

LEMMA ClockStep ==
    ASSUME ~ ClockRewinds, TypeOK, ClockInv, [Next]_vars
    PROVE  ClockInv'
<1> USE Types, TypesAgain
<1>1. CASE UNCHANGED <<clockVars, sign>>
      BY <1>1 DEF clockVars, ClockInv
<1>2. ASSUME NEW k \in Carriers, Submit(k) PROVE ClockInv'
  <2>1. \/ UNCHANGED sign
        \/ sign'.now = EffectiveNow /\ sign'.raw = wall
        BY <1>2, SubmitSign
  <2>2. EffectiveNow <= peak /\ wall <= EffectiveNow
        BY DEF ClockInv
  <2>3. UNCHANGED clockVars
        BY <1>2 DEF Submit
  <2> QED BY <2>1, <2>2, <2>3 DEF clockVars, ClockInv
<1>3. CASE Register
  <2>1. sign'.raw = 0 /\ sign'.now = 0 /\ UNCHANGED clockVars
        BY <1>3, RestFacts DEF Register
  <2> QED BY <2>1 DEF clockVars, ClockInv
<1>4. CASE Tick
  <2>1. /\ wall' = wall + 1 /\ peak' = Most(peak, wall + 1)
        /\ UNCHANGED <<steps, highWater, sign>>
        BY <1>4 DEF Tick
  <2>2. peak' = IF peak > wall + 1 THEN peak ELSE wall + 1
        BY <2>1 DEF Most
  <2>3. wall <= peak /\ highWater <= peak /\ (steps = 0 => wall = peak)
        /\ sign.raw <= sign.now /\ sign.now <= peak
        BY DEF ClockInv
  <2>4. wall' <= peak' /\ highWater <= peak' /\ (steps = 0 => wall' = peak')
        /\ sign.now <= peak'
        BY <2>1, <2>2, <2>3
  <2>5. ASSUME NEW r \in Requests
        PROVE  /\ ExpiryOf[r] <= peak' => ExpiryOf[r] <= wall'
               /\ ExpiryOf[r] < peak' => ExpiryOf[r] < wall'
    <3>1. /\ ExpiryOf[r] <= peak => ExpiryOf[r] <= wall
          /\ ExpiryOf[r] < peak => ExpiryOf[r] < wall
          /\ ExpiryOf[r] \in Nat
          BY DEF ClockInv
    <3> QED BY <2>1, <2>2, <3>1
  <2> QED BY <2>1, <2>3, <2>4, <2>5 DEF ClockInv
<1>5. CASE StepWall
  <2>1. /\ wall' \in Nat /\ KeepsExpiries(wall') /\ peak' = Most(peak, wall')
        /\ steps' = steps + 1 /\ UNCHANGED <<highWater, sign>>
        BY <1>5, Bounds DEF StepWall, Time
  <2>2. peak' = IF peak > wall' THEN peak ELSE wall'
        BY <2>1 DEF Most
  <2>3. highWater <= peak /\ sign.raw <= sign.now /\ sign.now <= peak
        BY DEF ClockInv
  <2>4. wall' <= peak' /\ highWater <= peak' /\ sign.now <= peak' /\ steps' # 0
        BY <2>1, <2>2, <2>3
  <2>5. ASSUME NEW r \in Requests
        PROVE  /\ ExpiryOf[r] <= peak' => ExpiryOf[r] <= wall'
               /\ ExpiryOf[r] < peak' => ExpiryOf[r] < wall'
    <3>1. /\ peak >= ExpiryOf[r] => wall' >= ExpiryOf[r]
          /\ peak > ExpiryOf[r] => wall' > ExpiryOf[r]
          /\ ExpiryOf[r] \in Nat
          BY <2>1 DEF KeepsExpiries
    <3> QED BY <2>1, <2>2, <3>1
  <2> QED BY <2>1, <2>3, <2>4, <2>5 DEF ClockInv
<1>6. CASE RaiseHighWater
  <2>1. highWater' = wall /\ UNCHANGED <<wall, peak, steps, sign>>
        BY <1>6 DEF RaiseHighWater
  <2> QED BY <2>1 DEF ClockInv
<1>7. \/ UNCHANGED <<clockVars, sign>>
      \/ \E k \in Carriers : Submit(k)
      \/ Register \/ Tick \/ StepWall \/ RaiseHighWater
      BY DEF Next, vars, RecordIntent, RetireIntent, Confirm, EvictOnPartial, Combine,
             Prune, LatchLockdown, StartPass, PollPending, ReleasePartials, Skip,
             Authorize, Sent, MarkBroadcast, EndPending
<1> QED BY <1>1, <1>2, <1>3, <1>4, <1>5, <1>6, <1>7

\* A request stays known.
LEMMA KnownStays ==
    ASSUME ~ ClockRewinds, TypeOK, ClockInv, [Next]_vars, NEW r \in Requests, Known(r)
    PROVE  Known(r)'
<1>1. /\ ExpiryOf[r] \in Nat /\ wall \in Nat /\ peak \in Nat /\ wall <= peak
      /\ ExpiryOf[r] <= EffectiveNow <=> ExpiryOf[r] <= wall
      BY Types, NowAgrees DEF ClockInv
<1>2. CASE wall' = wall
  <2>1. ASSUME r \in replay, r \notin replay' PROVE ExpiryOf[r] <= wall
    <3>1. replay' = {q \in replay : ExpiryOf[q] > EffectiveNow} \/ replay \subseteq replay'
          BY DEF Next, vars, logVars, Submit, Register, Prune, RecordIntent, RetireIntent,
                 Confirm, EvictOnPartial, Combine, LatchLockdown, StartPass, PollPending,
                 ReleasePartials, Skip, Authorize, Sent, MarkBroadcast, EndPending, Tick,
                 StepWall, RaiseHighWater
    <3>2. ~ (ExpiryOf[r] > EffectiveNow)
          BY <2>1, <3>1
    <3> QED BY <1>1, <3>2, Types
  <2> QED BY <1>2, <2>1 DEF Known
<1>3. CASE wall' # wall
  <2>1. replay' = replay /\ (Tick \/ StepWall)
        BY <1>3 DEF Next, vars, clockVars, logVars, Submit, Register, Prune, RecordIntent,
                 RetireIntent, Confirm, EvictOnPartial, Combine, LatchLockdown, StartPass,
                 PollPending, ReleasePartials, Skip, Authorize, Sent, MarkBroadcast,
                 EndPending, Tick, StepWall, RaiseHighWater
  <2>2. ASSUME ExpiryOf[r] <= wall PROVE ExpiryOf[r] <= wall'
    <3>1. CASE Tick
          BY <1>1, <2>2, <3>1 DEF Tick
    <3>2. CASE StepWall
      <4>1. wall' \in Nat /\ KeepsExpiries(wall')
            BY <3>2, Bounds DEF StepWall, Time
      <4> QED BY <1>1, <2>2, <4>1 DEF KeepsExpiries
    <3> QED BY <2>1, <3>1, <3>2
  <2> QED BY <2>1, <2>2 DEF Known
<1> QED BY <1>2, <1>3

-----------------------------------------------------------------------------
(* The kinds of steps, by what they do to the spends and to the ledger.      *)

\* A step that leaves the ledger, and of the registry all but windows and holders.
Quiet ==
    /\ UNCHANGED <<ledger, exposed, sign>>
    /\ \A id \in Ids :
           /\ cand'[id].present = cand[id].present
           /\ cand'[id].released = cand[id].released
           /\ cand'[id].broadcast = cand[id].broadcast
           /\ cand[id].quorum => cand'[id].quorum
           /\ ~ IsEscape(id) => /\ cand'[id].fireAt = cand[id].fireAt
                                /\ cand'[id].deadline = cand[id].deadline
    /\ fire.pc = "settle" => UNCHANGED fire
    /\ pending' \subseteq pending

\* A step that removes the candidates of S, none of them being sent or settled, and
\* takes place before the expiry of a hot spend that is being sent.
Removal(S) ==
    /\ S \subseteq {id \in Ids : cand[id].present}
    /\ fire.pc \in {"sending", "settle"} => fire.id \notin S
    /\ fire.pc = "sending" /\ IsHot(fire.id) => wall <= ExpiryOf[fire.id[1]]
    /\ cand' = Without(cand, S)
    /\ pending' \subseteq pending
    /\ UNCHANGED <<clockVars, armed, exposed>>

\* What such a step does to a reservation: it refunds it, or it ages out.
Metered(q, S) ==
    \/ ledger'[q] = Refunded(ledger, cand, S)[q]
    \/ ledger'[q] = NoReservation /\ (ledger[q].held => ~ IsLive(q, ledger, wall))

LEMMA ExpiredResident ==
    ASSUME NEW now PROVE Expired(cand, now) \subseteq {id \in Ids : cand[id].present}
BY DEF Expired

\* The ledger after it is pruned for a removal.
LEMMA MeteredLedger ==
    ASSUME TypeOK, NEW now \in Nat, NEW q \in Requests,
           ledger' = PrunedRefund(now) \/ ledger' = LedgerPruned(PrunedRefund(now), wall)
    PROVE  Metered(q, Expired(cand, now))
<1> DEFINE S == Expired(cand, now)
           l == Refunded(ledger, cand, S)
<1>1. PrunedRefund(now) = l
      BY DEF PrunedRefund
<1>2. l \in Ledgers /\ (l[q] = NoReservation \/ l[q] = ledger[q])
      BY Types, RemovalFacts
<1> HIDE DEF S, l
<1>3. CASE ledger' = l
      BY <1>3 DEF Metered, S, l
<1>4. CASE ledger' = LedgerPruned(l, wall)
  <2>1. ledger'[q] = IF l[q].held /\ IsLive(q, l, wall) THEN l[q] ELSE NoReservation
        BY <1>2, <1>4, PruneFacts
  <2>2. CASE ledger'[q] = l[q]
        BY <2>2 DEF Metered, S, l
  <2>3. CASE ledger'[q] # l[q]
    <3>1. ledger'[q] = NoReservation /\ l[q] # NoReservation /\ l[q] = ledger[q]
          BY <1>2, <2>1, <2>3
    <3>2. l[q].held => ~ IsLive(q, l, wall)
          BY <2>1, <2>3
    <3>3. ledger[q].held => ~ IsLive(q, ledger, wall)
          BY <3>1, <3>2 DEF IsLive
    <3> QED BY <3>1, <3>3 DEF Metered
  <2> QED BY <2>2, <2>3
<1> QED BY <1>1, <1>3, <1>4

\* Nothing is held or known of a request that can still be accepted.
LEMMA Unknown ==
    ASSUME TypeOK, ClockInv, KnownInv, NEW r \in Requests,
           r \notin replay, ExpiryOf[r] > EffectiveNow
    PROVE  /\ ~ Known(r)
           /\ ~ cand[SpendId(r)].present /\ ~ cand[EscapeId(r)].present
           /\ ~ exposed[r].held
           /\ armed.sweep => armed.escape # r
<1>1. ~ Known(r)
  <2>1. /\ wall \in Nat /\ EffectiveNow \in Nat /\ ExpiryOf[r] \in Nat
        /\ wall <= EffectiveNow
        BY Types
  <2> QED BY <2>1 DEF Known
<1>2. /\ SpendId(r) \in Ids /\ EscapeId(r) \in Ids /\ SpendId(r)[1] = r /\ EscapeId(r)[1] = r
      BY IdFacts
<1> QED BY <1>1, <1>2 DEF KnownInv

\* What Submit is, in these terms.
SubmitRefuses(k) ==
    \E S : /\ Removal(S) /\ UNCHANGED <<sign, fire>>
           /\ \A q \in Requests : Metered(q, S)

SubmitReserves(k) ==
    LET r == ReqOf[k] IN
    /\ UNCHANGED fire /\ sign.pc = "free"
    /\ sign' = [pc |-> "reserved", carrier |-> k, owned |-> r \in Hot,
                now |-> EffectiveNow, raw |-> wall]
    /\ r \notin replay /\ r \notin replay' /\ EffectiveNow < ExpiryOf[r]
    /\ ~ cand[SpendId(r)].present /\ ~ cand[EscapeId(r)].present
    /\ ~ exposed[r].held
    /\ armed.sweep => armed.escape # r
    /\ \E S : /\ Removal(S)
              /\ \A q \in Requests \ {r} : Metered(q, S)
              /\ r \notin Hot => Metered(r, S)
    /\ r \in Hot =>
           LET met == LedgerPruned(PrunedRefund(EffectiveNow), wall) IN
           /\ ReserveVerdict(met, r) = "inserted"
           /\ ledger' = Reserved(met, r)

LEMMA SubmitKinds ==
    ASSUME ~ SlowSends, TypeOK, ClockInv, KnownInv, SpendInv, NEW k \in Carriers, Submit(k)
    PROVE  Quiet \/ SubmitRefuses(k) \/ SubmitReserves(k)
<1> DEFINE r   == ReqOf[k]
           now == EffectiveNow
           met == LedgerPruned(PrunedRefund(now), wall)
           S   == Expired(cand, now)
           kept == {q \in replay : ExpiryOf[q] > now}
<1>1. /\ sign.pc = "free"
      /\ UNCHANGED <<clockVars, fire, locked, exposed>>
      /\ \/ /\ UNCHANGED <<cand, ledger, armed, sign, pending>>
         \/ /\ UNCHANGED <<ledger, sign, pending>>
            /\ armed' = Directed(armed, cand, r, k \in DuressCarriers, {}, now)
            /\ cand' = Scheduled(cand, armed', r)
         \/ /\ r \notin replay' /\ ~ ClockRefuses(ExpiryOf[r])
            /\ replay' = kept
            /\ Spares(S, now)
            /\ cand' = Pruned(now) /\ pending' \subseteq pending
            /\ UNCHANGED armed
            /\ \/ ledger' \in {PrunedRefund(now), met} /\ UNCHANGED sign
               \/ \E o \in BOOLEAN :
                     /\ sign' = [pc |-> "reserved", carrier |-> k, owned |-> o,
                                 now |-> now, raw |-> wall]
                     /\ \/ /\ o /\ r \in Hot
                           /\ ReserveVerdict(met, r) = "inserted"
                           /\ ledger' = Reserved(met, r)
                        \/ /\ ~ o /\ r \in Hot
                           /\ ReserveVerdict(met, r) = "already"
                           /\ ledger' = met
                        \/ /\ ~ o /\ r \notin Hot
                           /\ ledger' = PrunedRefund(now)
      BY SubmitCases
<1>2. /\ r \in Requests /\ now \in Nat /\ now \in Time /\ ExpiryOf[r] \in Nat /\ wall \in Nat
      /\ wall <= now /\ \A q \in Requests : ExpiryOf[q] \in Nat
      BY Types
<1>3. CASE UNCHANGED <<cand, ledger, armed, sign, pending>>
      BY <1>1, <1>3 DEF Quiet
<1>4. CASE /\ UNCHANGED <<ledger, sign, pending>>
           /\ armed' = Directed(armed, cand, r, k \in DuressCarriers, {}, now)
           /\ cand' = Scheduled(cand, armed', r)
  <2>1. {} \in SUBSET Nat /\ (k \in DuressCarriers) \in BOOLEAN
        OBVIOUS
  <2>2. armed' \in Overlays
    <3> HIDE DEF r, now
    <3> QED BY <1>4, <2>1, <1>2, Types, DirectedFacts
  <2>3. r \in Requests \cup {NoReq}
        BY <1>2
  <2>4. \A id \in Ids : /\ cand'[id].present = cand[id].present
                        /\ cand'[id].quorum = cand[id].quorum
                        /\ cand'[id].released = cand[id].released
                        /\ cand'[id].broadcast = cand[id].broadcast
                        /\ ~ IsEscape(id) => cand'[id] = cand[id]
    <3> HIDE DEF r, now
    <3> QED BY <1>4, <2>2, <2>3, Types, ScheduledFacts
  <2> QED BY <1>1, <1>4, <2>4 DEF Quiet
<1>5. ASSUME Spares(S, now), cand' = Pruned(now), pending' \subseteq pending,
             UNCHANGED armed
      PROVE  Removal(S)
  <2>1. /\ fire.pc \in {"sending", "settle"} => fire.id \notin S
        /\ fire.pc = "sending" /\ IsHot(fire.id) => now <= ExpiryOf[fire.id[1]]
        BY <1>5 DEF Spares
  <2>2. fire.pc = "sending" /\ IsHot(fire.id) => wall <= ExpiryOf[fire.id[1]]
    <3>1. fire.id[1] \in Requests
          BY TypesAgain, IdFacts
    <3> HIDE DEF now
    <3> QED BY <1>2, <2>1, <3>1
  <2>3. S \subseteq {id \in Ids : cand[id].present}
        BY ExpiredResident
  <2> QED BY <1>1, <1>5, <2>1, <2>2, <2>3 DEF Removal, Pruned
<1>6. ASSUME ledger' \in {PrunedRefund(now), met}, NEW q \in Requests
      PROVE  Metered(q, S)
      BY <1>2, <1>6, MeteredLedger
<1>7. ASSUME r \notin replay', ~ ClockRefuses(ExpiryOf[r]), replay' = kept
      PROVE  /\ r \notin replay /\ now < ExpiryOf[r]
             /\ ~ cand[SpendId(r)].present /\ ~ cand[EscapeId(r)].present
             /\ ~ exposed[r].held
             /\ armed.sweep => armed.escape # r
  <2>1. now < ExpiryOf[r]
        BY <1>2, <1>7 DEF ClockRefuses
  <2>2. r \notin replay
    <3> HIDE DEF now, r
    <3> QED BY <1>2, <1>7, <2>1
  <2>3. ExpiryOf[r] > EffectiveNow
        BY <1>2, <2>1
  <2> HIDE DEF r
  <2> QED BY <1>2, <2>1, <2>2, <2>3, Unknown DEF now
<1>8. ASSUME r \in Hot, ~ cand[SpendId(r)].present, ~ exposed[r].held
      PROVE  ~ met[r].held
  <2>1. ~ ledger[r].held
    <3> HIDE DEF r
    <3> QED BY <1>1, <1>8 DEF SpendInv, SpendIsMetered
  <2>2. PrunedRefund(now)[r] \in {ledger[r], NoReservation} /\ PrunedRefund(now) \in Ledgers
    <3> HIDE DEF r, now
    <3> QED BY <1>2, Types, RemovalFacts DEF PrunedRefund
  <2>3. met[r] \in {PrunedRefund(now)[r], NoReservation}
    <3> HIDE DEF r, now
    <3> QED BY <1>2, <2>2, PruneFacts
  <2> HIDE DEF met, r, now
  <2> QED BY <2>1, <2>2, <2>3, Constants
<1>9. ASSUME ReserveVerdict(met, r) = "already" PROVE met[r].held
      BY <1>9 DEF ReserveVerdict
<1>10. ASSUME ReserveVerdict(met, r) = "inserted", ledger' = Reserved(met, r),
              NEW q \in Requests \ {r}
       PROVE  Metered(q, S)
  <2>1. met \in Ledgers /\ PrunedRefund(now) \in Ledgers
        BY <1>2, SubmitLedger
  <2>2. ledger'[q] = met[q]
    <3> HIDE DEF met, r
    <3> QED BY <1>2, <1>10, <2>1, Types, ReserveFacts
  <2>3. met[q] = IF PrunedRefund(now)[q].held /\ IsLive(q, PrunedRefund(now), wall)
                 THEN PrunedRefund(now)[q] ELSE NoReservation
    <3> HIDE DEF now
    <3> QED BY <2>1, PruneFacts
  <2>4. PrunedRefund(now)[q] = Refunded(ledger, cand, S)[q]
        BY DEF PrunedRefund
  <2>5. PrunedRefund(now)[q] \in {ledger[q], NoReservation}
    <3> HIDE DEF now
    <3> QED BY <1>2, Types, RemovalFacts DEF PrunedRefund
  <2> HIDE DEF met, S, now
  <2>6. CASE ledger'[q] = PrunedRefund(now)[q]
        BY <2>4, <2>6 DEF Metered
  <2>7. CASE ledger'[q] # PrunedRefund(now)[q]
    <3>1. /\ ledger'[q] = NoReservation /\ PrunedRefund(now)[q] = ledger[q]
          /\ PrunedRefund(now)[q].held => ~ IsLive(q, PrunedRefund(now), wall)
          BY <2>2, <2>3, <2>5, <2>7
    <3>2. ledger[q].held => ~ IsLive(q, ledger, wall)
          BY <3>1 DEF IsLive
    <3> QED BY <3>1, <3>2 DEF Metered
  <2> QED BY <2>6, <2>7
<1>11. CASE /\ r \notin replay' /\ ~ ClockRefuses(ExpiryOf[r])
            /\ replay' = kept
            /\ Spares(S, now)
            /\ cand' = Pruned(now) /\ pending' \subseteq pending
            /\ UNCHANGED armed
            /\ ledger' \in {PrunedRefund(now), met} /\ UNCHANGED sign
  <2>1. Removal(S) /\ UNCHANGED <<sign, fire>> /\ \A q \in Requests : Metered(q, S)
        BY <1>1, <1>5, <1>6, <1>11
  <2> QED BY <2>1 DEF SubmitRefuses
<1>12. ASSUME r \notin replay', ~ ClockRefuses(ExpiryOf[r]), replay' = kept,
              Spares(S, now), cand' = Pruned(now), pending' \subseteq pending,
              UNCHANGED armed, NEW o \in BOOLEAN,
              sign' = [pc |-> "reserved", carrier |-> k, owned |-> o,
                       now |-> now, raw |-> wall],
              \/ /\ o /\ r \in Hot
                 /\ ReserveVerdict(met, r) = "inserted"
                 /\ ledger' = Reserved(met, r)
              \/ /\ ~ o /\ r \in Hot
                 /\ ReserveVerdict(met, r) = "already"
                 /\ ledger' = met
              \/ /\ ~ o /\ r \notin Hot
                 /\ ledger' = PrunedRefund(now)
       PROVE  SubmitReserves(k)
  <2>1. Removal(S)
        BY <1>5, <1>12
  <2>2. /\ r \notin replay /\ now < ExpiryOf[r]
        /\ ~ cand[SpendId(r)].present /\ ~ cand[EscapeId(r)].present
        /\ ~ exposed[r].held
        /\ armed.sweep => armed.escape # r
        BY <1>7, <1>12
  <2>3. \/ o /\ r \in Hot /\ ReserveVerdict(met, r) = "inserted" /\ ledger' = Reserved(met, r)
        \/ ~ o /\ r \notin Hot /\ ledger' = PrunedRefund(now)
        BY <1>8, <1>9, <1>12, <2>2
  <2>4. o = (r \in Hot)
    <3> HIDE DEF r, met, now
    <3> QED BY <2>3
  <2>5. \A q \in Requests \ {r} : Metered(q, S)
    <3>1. CASE r \in Hot
      <4>1. ReserveVerdict(met, r) = "inserted" /\ ledger' = Reserved(met, r)
            BY <2>3, <3>1
      <4> QED BY <4>1, <1>10
    <3>2. CASE r \notin Hot
      <4>1. ledger' \in {PrunedRefund(now), met}
            BY <2>3, <3>2
      <4> QED BY <4>1, <1>6
    <3> QED BY <3>1, <3>2
  <2>6. r \notin Hot => Metered(r, S)
    <3>1. r \notin Hot => ledger' \in {PrunedRefund(now), met}
          BY <2>3
    <3> QED BY <1>2, <3>1, <1>6
  <2>7. r \in Hot => ReserveVerdict(met, r) = "inserted" /\ ledger' = Reserved(met, r)
        BY <2>3
  <2>8. sign' = [pc |-> "reserved", carrier |-> k, owned |-> r \in Hot,
                 now |-> now, raw |-> wall]
    <3> HIDE DEF r
    <3> QED BY <1>12, <2>4
  <2> HIDE DEF S
  <2> QED BY <1>1, <1>12, <2>1, <2>2, <2>5, <2>6, <2>7, <2>8 DEF SubmitReserves
<1> HIDE DEF met, S, r, now, kept
<1> QED BY <1>1, <1>3, <1>4, <1>11, <1>12

\* A reservation that a step leaves, or that ages out by the wall-clock reading t.
AgedBy(q, t) ==
    \/ ledger'[q] = ledger[q]
    \/ ledger'[q] = NoReservation /\ (ledger[q].held => ~ IsLive(q, ledger, t))

LEMMA AgedLedger ==
    ASSUME TypeOK, NEW q \in Requests, NEW t
    PROVE  LET l == LedgerPruned(ledger, t) IN
           \/ l[q] = ledger[q]
           \/ l[q] = NoReservation /\ (ledger[q].held => ~ IsLive(q, ledger, t))
BY Types, PruneFacts

\* The ledger after the reserve of register_candidates: only r is new in it.
LEMMA RegistrationFacts ==
    ASSUME TypeOK, NEW r \in Requests
    PROVE  LET met == LedgerPruned(ledger, sign.raw)
               res == RegistrationReserve(r, sign.raw)
           IN
           /\ res.ledger \in Ledgers
           /\ \A q \in Requests \ {r} : res.ledger[q] = met[q]
           /\ res.verdict = ReserveVerdict(met, r)
           /\ res.verdict = "inserted" => res.ledger = Reserved(met, r)
           /\ res.verdict # "inserted" => res.ledger = met
           /\ res.verdict \notin {"window", "capacity"} => res.ledger[r].held
<1> DEFINE met == LedgerPruned(ledger, sign.raw)
           res == RegistrationReserve(r, sign.raw)
<1>1. met \in Ledgers
      BY Types, PruneFacts
<1>2. /\ res.verdict = ReserveVerdict(met, r)
      /\ res.ledger = IF res.verdict = "inserted" THEN Reserved(met, r) ELSE met
      BY DEF RegistrationReserve
<1> HIDE DEF met, res
<1>3. /\ Reserved(met, r) \in Ledgers /\ Reserved(met, r)[r].held
      /\ \A q \in Requests \ {r} : Reserved(met, r)[q] = met[q]
      BY <1>1, Types, ReserveFacts
<1>4. res.verdict \notin {"window", "capacity"} /\ res.verdict # "inserted" => met[r].held
      BY <1>2 DEF ReserveVerdict
<1> QED BY <1>1, <1>2, <1>3, <1>4 DEF met, res

RegisterRefuses ==
    LET r == ReqOf[sign.carrier] IN
    /\ UNCHANGED <<cand, armed, logVars>>
    /\ \A q \in Requests \ {r} : AgedBy(q, sign.raw)
    /\ r \in Hot => ledger'[r] = NoReservation
    /\ r \notin Hot => ledger'[r] = ledger[r]

RegisterAdds ==
    LET r == ReqOf[sign.carrier]
        met == LedgerPruned(ledger, sign.raw)
    IN
    /\ replay' = replay \cup {r} /\ pending' \subseteq pending \cup {r}
    /\ \A q \in Requests \ {r} : AgedBy(q, sign.raw)
    /\ r \in Hot => ledger'[r].held
    /\ r \notin Hot => ledger'[r] = ledger[r]
    /\ \/ ledger' = ledger \/ ledger' = met
       \/ ledger' = Reserved(met, r) /\ ReserveVerdict(met, r) = "inserted"
    /\ \A id \in Ids : id[1] # r =>
           /\ cand'[id].present = cand[id].present /\ cand'[id].quorum = cand[id].quorum
           /\ cand'[id].released = cand[id].released
           /\ cand'[id].broadcast = cand[id].broadcast
           /\ ~ IsEscape(id) => cand'[id] = cand[id]
    /\ LET s == cand'[SpendId(r)] IN
       /\ s.present /\ ~ s.released /\ ~ s.broadcast
       /\ s.deadline <= ExpiryOf[r]
       /\ armed.active => armed'.active /\ armed'.fireAt <= armed.fireAt
       /\ armed.active /\ r \in Hot =>
              armed'.fireAt <= Most(Monus(s.fireAt, EpsilonSecs), sign.now)
    /\ ~ cand'[EscapeId(r)].broadcast
    /\ armed'.active = armed.active
    /\ armed.sweep => armed'.sweep /\ armed'.escape = armed.escape
    /\ ~ armed.sweep /\ armed'.sweep =>
           armed'.escape = r /\ cand'[EscapeId(r)].quorum

LEMMA RegisterKinds ==
    ASSUME TypeOK, FreshInv, Register
    PROVE  /\ sign.pc = "reserved" /\ sign' = Free
           /\ UNCHANGED <<clockVars, fire, locked, exposed>>
           /\ RegisterRefuses \/ RegisterAdds
<1> DEFINE r   == ReqOf[sign.carrier]
           met == LedgerPruned(ledger, sign.raw)
           reg == RegistrationReserve(r, sign.raw)
<1>1. /\ sign.pc = "reserved" /\ sign' = Free
      /\ UNCHANGED <<clockVars, fire, locked, exposed>>
      BY DEF Register
<1>2. r \in Requests /\ sign.now \in Nat /\ ledger \in Ledgers /\ sign.owned \in BOOLEAN
      BY Types
<1>3. /\ reg.ledger \in Ledgers
      /\ \A q \in Requests \ {r} : reg.ledger[q] = met[q]
      /\ reg.verdict = ReserveVerdict(met, r)
      /\ reg.verdict = "inserted" => reg.ledger = Reserved(met, r)
      /\ reg.verdict # "inserted" => reg.ledger = met
      /\ reg.verdict \notin {"window", "capacity"} => reg.ledger[r].held
  <2> HIDE DEF r
  <2> QED BY <1>2, RegistrationFacts
<1>4. ASSUME NEW l, l = ledger \/ l = reg.ledger, NEW q \in Requests \ {r}
      PROVE  /\ Released(l, r)[q] = l[q] /\ Unwound(l, r)[q] = l[q]
             /\ Unwound(Released(l, r), r)[q] = l[q]
             /\ l \in Ledgers /\ Released(l, r) \in Ledgers
  <2>1. l \in Ledgers
        BY <1>2, <1>3, <1>4
  <2> HIDE DEF r, reg
  <2>2. Released(l, r)[q] = l[q] /\ Released(l, r) \in Ledgers
        BY <1>2, <1>4, <2>1, Types, ReserveFacts
  <2>3. Released(Released(l, r), r)[q] = Released(l, r)[q]
        BY <1>2, <1>4, <2>2, Types, ReserveFacts
  <2> QED BY <2>1, <2>2, <2>3 DEF Unwound
<1>5. ASSUME NEW q \in Requests \ {r}
      PROVE  /\ ledger'[q] = ledger[q] => AgedBy(q, sign.raw)
             /\ ledger'[q] = reg.ledger[q] => AgedBy(q, sign.raw)
  <2>1. \/ met[q] = ledger[q]
        \/ met[q] = NoReservation /\ (ledger[q].held => ~ IsLive(q, ledger, sign.raw))
        BY AgedLedger
  <2> HIDE DEF met, reg, r
  <2> QED BY <1>3, <2>1 DEF AgedBy
<1>6. sign.owned = (r \in Hot)
      BY <1>1 DEF FreshInv
<1>7. ASSUME NEW l, l \in Ledgers
      PROVE  /\ r \in Hot => Unwound(l, r)[r] = NoReservation
             /\ r \notin Hot => Unwound(l, r) = l
  <2> HIDE DEF r
  <2>1. Released(l, r)[r] = NoReservation
        BY <1>2, <1>7, Types, ReserveFacts
  <2> QED BY <1>6, <2>1 DEF Unwound
<1>8. ASSUME NEW l, l \in {ledger, reg.ledger, Released(reg.ledger, r)},
             r \notin Hot => l = ledger,
             ledger' = Unwound(l, r), UNCHANGED <<cand, armed, logVars>>
      PROVE  RegisterRefuses
  <2>1. l \in Ledgers
    <3>1. Released(reg.ledger, r) \in Ledgers
      <4> HIDE DEF r, reg
      <4> QED BY <1>2, <1>3, Types, ReserveFacts
    <3> QED BY <1>2, <1>3, <1>8, <3>1
  <2>2. ASSUME NEW q \in Requests \ {r} PROVE AgedBy(q, sign.raw)
    <3>1. ledger'[q] = ledger[q] \/ ledger'[q] = reg.ledger[q]
      <4>1. CASE l = ledger
            BY <1>4, <1>8, <4>1
      <4>2. CASE l = reg.ledger
            BY <1>4, <1>8, <4>2
      <4>3. CASE l = Released(reg.ledger, r)
            BY <1>4, <1>8, <4>3
      <4> HIDE DEF reg, r
      <4> QED BY <1>8, <4>1, <4>2, <4>3
    <3> QED BY <1>5, <3>1
  <2>3. r \in Hot => ledger'[r] = NoReservation
        BY <1>7, <1>8, <2>1
  <2>4. r \notin Hot => ledger'[r] = ledger[r]
        BY <1>7, <1>8, <2>1
  <2> QED BY <1>8, <2>2, <2>3, <2>4 DEF RegisterRefuses
<1>9. CASE UNCHANGED <<cand, armed, logVars>>
           /\ \E l \in {ledger, reg.ledger, Released(reg.ledger, r)} :
                  /\ r \notin Hot => l = ledger
                  /\ ledger' = Unwound(l, r)
      BY <1>1, <1>8, <1>9
<1>10. \/ /\ UNCHANGED <<cand, armed, logVars>>
          /\ \E l \in {ledger, reg.ledger, Released(reg.ledger, r)} :
                 /\ r \notin Hot => l = ledger
                 /\ ledger' = Unwound(l, r)
       \/ LET holds == IF r \in Hot THEN {Window(r, sign.now).at} ELSE {}
              c == Inserted(r, sign.now)
          IN /\ armed' = Directed(armed, c, r, sign.carrier \in DuressCarriers, holds, sign.now)
             /\ cand' = Scheduled(c, armed', r)
             /\ replay' = replay \cup {r} /\ pending' \subseteq pending \cup {r}
             /\ r \in Hot => reg.verdict \notin {"window", "capacity"}
             /\ ledger' = IF r \in Hot THEN reg.ledger ELSE ledger
       BY DEF Register
<1>11. ASSUME replay' = replay \cup {r}, pending' \subseteq pending \cup {r},
              r \in Hot => reg.verdict \notin {"window", "capacity"},
              ledger' = IF r \in Hot THEN reg.ledger ELSE ledger
       PROVE  RegisterAdds
  <2> DEFINE c == Inserted(r, sign.now)
  <2>0. ~ UNCHANGED <<cand, armed, logVars>>
    <3>1. r \notin replay
          BY <1>1 DEF FreshInv
    <3> HIDE DEF r
    <3> QED BY <1>11, <3>1 DEF logVars
  <2>1. /\ armed'.active = armed.active
        /\ armed.active =>
               /\ armed'.fireAt <= armed.fireAt
               /\ r \in Hot => armed'.fireAt <=
                      Most(Monus(Window(r, sign.now).at, EpsilonSecs), sign.now)
        /\ armed.sweep => armed'.sweep /\ armed'.escape = armed.escape
        /\ ~ armed.sweep /\ armed'.sweep => armed'.escape = r /\ EscapeLive(c, r)
        /\ \A id \in Ids :
               LET x == c[id] IN
               /\ cand'[id].present = x.present /\ cand'[id].quorum = x.quorum
               /\ cand'[id].released = x.released /\ cand'[id].broadcast = x.broadcast
               /\ ~ IsEscape(id) => cand'[id] = x
        BY <2>0, RegisterFacts
  <2>2. \A id \in Ids :
            IF id[1] # r \/ cand[id].present
            THEN c[id] = cand[id]
            ELSE /\ c[id].present
                 /\ ~ c[id].released /\ ~ c[id].broadcast /\ ~ c[id].quorum
                 /\ ~ IsEscape(id) => /\ c[id].fireAt = Window(r, sign.now).at
                                      /\ c[id].deadline = Window(r, sign.now).deadline
    <3> HIDE DEF r
    <3> QED BY <1>2, InsertedFacts
  <2>3. Window(r, sign.now).deadline <= ExpiryOf[r]
    <3> HIDE DEF r
    <3> QED BY <1>2, InsertedFacts
  <2>4. /\ SpendId(r) \in Ids /\ EscapeId(r) \in Ids /\ SpendId(r)[1] = r
        /\ ~ IsEscape(SpendId(r))
        BY <1>2, IdFacts
  <2>5. ~ cand[SpendId(r)].present /\ ~ cand[EscapeId(r)].present /\ EscapeId(r)[1] = r
        BY <1>1, <1>2, IdFacts DEF FreshInv
  <2> HIDE DEF c, r
  <2>6. /\ cand'[SpendId(r)].present
        /\ ~ cand'[SpendId(r)].released /\ ~ cand'[SpendId(r)].broadcast
        /\ cand'[SpendId(r)].fireAt = Window(r, sign.now).at
        /\ cand'[SpendId(r)].deadline = Window(r, sign.now).deadline
        /\ ~ cand'[EscapeId(r)].broadcast
        BY <2>1, <2>2, <2>4, <2>5
  <2>7. \A id \in Ids : id[1] # r =>
            /\ cand'[id].present = cand[id].present /\ cand'[id].quorum = cand[id].quorum
            /\ cand'[id].released = cand[id].released
            /\ cand'[id].broadcast = cand[id].broadcast
            /\ ~ IsEscape(id) => cand'[id] = cand[id]
        BY <2>1, <2>2
  <2>8. ~ armed.sweep /\ armed'.sweep => armed'.escape = r /\ cand'[EscapeId(r)].quorum
        BY <2>1, <2>4 DEF EscapeLive
  <2>9. \A q \in Requests \ {r} : AgedBy(q, sign.raw)
    <3> HIDE DEF reg
    <3> QED BY <1>5, <1>11
  <2>10. r \in Hot => ledger'[r].held
    <3> HIDE DEF reg
    <3> QED BY <1>3, <1>11
  <2>11. /\ r \notin Hot => ledger'[r] = ledger[r]
         /\ \/ ledger' = ledger \/ ledger' = met
            \/ ledger' = Reserved(met, r) /\ ReserveVerdict(met, r) = "inserted"
    <3> HIDE DEF reg, met
    <3> QED BY <1>3, <1>11
  <2>12. armed.active => armed'.active /\ armed'.fireAt <= armed.fireAt
         BY <2>1
  <2>13. armed.active /\ r \in Hot =>
             armed'.fireAt <= Most(Monus(cand'[SpendId(r)].fireAt, EpsilonSecs), sign.now)
         BY <2>1, <2>6
  <2>14. cand'[SpendId(r)].deadline <= ExpiryOf[r]
         BY <2>3, <2>6
  <2> HIDE DEF met
  <2> QED BY <1>11, <2>1, <2>6, <2>7, <2>8, <2>9, <2>10, <2>11, <2>12, <2>13, <2>14
          DEF RegisterAdds, r, met
<1> HIDE DEF reg, r
<1> QED BY <1>1, <1>9, <1>10, <1>11

\* A removal without a reserve: Submit that is refused, Prune, EvictOnPartial, and the
\* head of a pass of the fire driver.
Pruning ==
    \E S : /\ Removal(S) /\ UNCHANGED sign
           /\ \/ UNCHANGED fire
              \/ /\ fire.pc = "idle" /\ fire'.pc = "poll"
                 /\ \A id \in fire'.due : ~ cand'[id].broadcast
           /\ \A q \in Requests : Metered(q, S)

LEMMA PruneKind ==
    ASSUME ~ SlowSends, TypeOK, Prune PROVE Pruning
<1> DEFINE S == Expired(cand, EffectiveNow)
<1>1. /\ Spares(S, EffectiveNow) /\ pending' \subseteq pending
      /\ cand' = Pruned(EffectiveNow) /\ ledger' = PrunedRefund(EffectiveNow)
      /\ UNCHANGED <<clockVars, armed, intent, sign, fire, locked, exposed>>
      BY DEF Prune
<1>2. /\ fire.pc \in {"sending", "settle"} => fire.id \notin S
      /\ fire.pc = "sending" /\ IsHot(fire.id) => EffectiveNow <= ExpiryOf[fire.id[1]]
      BY <1>1 DEF Spares
<1>3. fire.pc = "sending" /\ IsHot(fire.id) => wall <= ExpiryOf[fire.id[1]]
  <2>1. fire.id[1] \in Requests
        BY TypesAgain, IdFacts
  <2>2. ExpiryOf[fire.id[1]] \in Nat /\ wall \in Nat /\ EffectiveNow \in Nat
        /\ wall <= EffectiveNow
        BY <2>1, Types
  <2> QED BY <1>2, <2>2
<1>4. S \subseteq {id \in Ids : cand[id].present}
      BY ExpiredResident
<1>5. Removal(S)
      BY <1>1, <1>2, <1>3, <1>4 DEF Removal, Pruned
<1>6. \A q \in Requests : Metered(q, S)
      BY <1>1, Types, MeteredLedger
<1> HIDE DEF S
<1> QED BY <1>1, <1>5, <1>6 DEF Pruning

LEMMA StartPassKind ==
    ASSUME TypeOK, StartPass PROVE Pruning
<1> DEFINE S == Expired(cand, wall)
<1>1. /\ fire.pc = "idle"
      /\ cand' = Pruned(wall) /\ ledger' = PrunedRefund(wall)
      /\ fire' = [fire EXCEPT !.pc = "poll", !.now = wall, !.due = Due(cand', wall)]
      /\ UNCHANGED <<clockVars, armed, intent, sign, logVars, exposed>>
      BY DEF StartPass
<1>2. fire'.pc = "poll" /\ fire'.due = Due(cand', wall)
      BY <1>1, TypesAgain DEF Fires
<1>3. \A id \in fire'.due : ~ cand'[id].broadcast
      BY <1>2 DEF Due
<1>4. S \subseteq {id \in Ids : cand[id].present}
      BY ExpiredResident
<1>5. Removal(S)
      BY <1>1, <1>4 DEF Removal, Pruned, logVars
<1>6. \A q \in Requests : Metered(q, S)
      BY <1>1, Types, MeteredLedger
<1> HIDE DEF S
<1> QED BY <1>1, <1>2, <1>3, <1>5, <1>6 DEF Pruning

LEMMA EvictKind ==
    ASSUME ~ SlowSends, TypeOK, NEW id \in Ids, EvictOnPartial(id) PROVE Pruning
<1> DEFINE S == {id}
<1>1. /\ cand[id].present /\ Spares(S, wall)
      /\ cand' = Without(cand, S) /\ ledger' = Refunded(ledger, cand, S)
      /\ UNCHANGED <<clockVars, armed, intent, sign, fire, logVars, locked, exposed>>
      BY DEF EvictOnPartial
<1>2. /\ fire.pc \in {"sending", "settle"} => fire.id \notin S
      /\ fire.pc = "sending" /\ IsHot(fire.id) => wall <= ExpiryOf[fire.id[1]]
      BY <1>1 DEF Spares
<1>3. S \subseteq {i \in Ids : cand[i].present}
      BY <1>1
<1> HIDE DEF S
<1>4. Removal(S)
      BY <1>1, <1>2, <1>3 DEF Removal, logVars
<1>5. \A q \in Requests : Metered(q, S)
      BY <1>1 DEF Metered
<1> QED BY <1>1, <1>4, <1>5 DEF Pruning

\* The steps of the fire driver between its holds.
FireQuiet ==
    PollPending \/ Skip \/ Authorize \/ EndPending \/ \E id \in Ids : Combine(id)

LEMMA FireQuietKind ==
    ASSUME TypeOK, FireQuiet
    PROVE  /\ Quiet
           /\ UNCHANGED <<clockVars, storeVars, sign, locked, exposed>>
           /\ fire.pc \notin {"sending", "settle"}
<1>1. /\ UNCHANGED <<clockVars, storeVars, sign, locked, exposed>>
      /\ fire.pc \notin {"sending", "settle"} /\ pending' \subseteq pending
      BY DEF FireQuiet, PollPending, Skip, Authorize, EndPending, Combine, logVars
<1> QED BY <1>1 DEF Quiet, storeVars

\* The wall clock and the monotonic clock move, or the node looks at its overlay.
LEMMA QuietKind ==
    ASSUME TypeOK,
           \/ UNCHANGED vars \/ LatchLockdown \/ Tick \/ StepWall \/ RaiseHighWater
           \/ \E k \in Carriers : RecordIntent(k) \/ RetireIntent(k)
    PROVE  Quiet /\ UNCHANGED <<cand, ledger, sign, fire, logVars, exposed>>
<1>1. UNCHANGED <<cand, ledger, sign, fire, logVars, exposed>>
      BY DEF vars, storeVars, LatchLockdown, Tick, StepWall, RaiseHighWater, RecordIntent,
             RetireIntent
<1> QED BY <1>1 DEF Quiet, logVars

LEMMA ConfirmKind ==
    ASSUME TypeOK, NEW k \in Carriers, Confirm(k)
    PROVE  Quiet /\ UNCHANGED <<clockVars, ledger, sign, fire, logVars, exposed>>
<1>1. UNCHANGED <<clockVars, ledger, sign, fire, logVars, exposed>>
      BY DEF Confirm
<1>2. \A id \in Ids :
          /\ cand'[id].present = cand[id].present
          /\ cand'[id].released = cand[id].released
          /\ cand'[id].broadcast = cand[id].broadcast
          /\ cand[id].quorum => cand'[id].quorum
          /\ ~ IsEscape(id) => /\ cand'[id].fireAt = cand[id].fireAt
                               /\ cand'[id].deadline = cand[id].deadline
      BY ConfirmFacts
<1> QED BY <1>1, <1>2 DEF Quiet, logVars

\* Every step is one of these.
LEMMA StepKinds ==
    ASSUME ~ SlowSends, TypeOK, ClockInv, KnownInv, SpendInv, [Next]_vars
    PROVE  \/ Quiet \/ Pruning
           \/ \E k \in Carriers : SubmitReserves(k)
           \/ Register \/ ReleasePartials \/ Sent \/ MarkBroadcast
<1>1. ASSUME NEW k \in Carriers, Submit(k)
      PROVE  Quiet \/ Pruning \/ SubmitReserves(k)
  <2>1. SubmitRefuses(k) => Pruning
        BY DEF SubmitRefuses, Pruning
  <2> QED BY <1>1, <2>1, SubmitKinds
<1> QED BY <1>1, PruneKind, StartPassKind, EvictKind, FireQuietKind, QuietKind, ConfirmKind
        DEF Next, FireQuiet

\* The clocks go forward, as far as expiries and windows can tell.
LEMMA ClockMoves ==
    ASSUME ~ ClockRewinds, TypeOK, ClockInv, [Next]_vars
    PROVE  /\ \A r \in Requests : wall' <= ExpiryOf[r] => wall <= ExpiryOf[r]
           /\ Monus(mono, HotWindowSecs) <= Monus(mono', HotWindowSecs)
           /\ wall' \in Nat /\ mono' \in Nat
<1>1. /\ wall \in Nat /\ mono \in Nat /\ peak \in Nat /\ HotWindowSecs \in Nat
      /\ \A r \in Requests : ExpiryOf[r] \in Nat
      BY Types, Bounds
<1>2. wall <= peak
      BY DEF ClockInv
<1>3. CASE UNCHANGED <<wall, mono>>
      BY <1>1, <1>3 DEF Monus
<1>4. CASE Tick
  <2>1. mono' = mono + 1 /\ wall' = wall + 1
        BY <1>4 DEF Tick
  <2> QED BY <1>1, <2>1 DEF Monus
<1>5. CASE StepWall
  <2>1. mono' = mono /\ wall' \in Nat /\ KeepsExpiries(wall')
        BY <1>5, Bounds DEF StepWall, Time
  <2>2. \A r \in Requests : wall' <= ExpiryOf[r] => wall <= ExpiryOf[r]
        BY <1>1, <1>2, <2>1 DEF KeepsExpiries
  <2> QED BY <1>1, <2>1, <2>2 DEF Monus
<1>6. UNCHANGED <<wall, mono>> \/ Tick \/ StepWall
      BY DEF Next, vars, clockVars, RecordIntent, Submit, Confirm, RetireIntent,
             EvictOnPartial, Combine, Register, Prune, LatchLockdown, StartPass,
             PollPending, ReleasePartials, Skip, Authorize, Sent, MarkBroadcast,
             EndPending, RaiseHighWater
<1> QED BY <1>3, <1>4, <1>5, <1>6

\* What the end of a send does.
LEMMA SentFacts ==
    ASSUME TypeOK, Sent
    PROVE  /\ fire.pc = "sending"
           /\ UNCHANGED <<clockVars, storeVars, sign, logVars, locked>>
           /\ \/ Proceed /\ UNCHANGED exposed
              \/ /\ fire'.pc = "settle" /\ fire'.id = fire.id
                 /\ \A r \in Requests :
                        \/ exposed'[r] = exposed[r] /\ (IsHot(fire.id) => r # fire.id[1])
                        \/ IsHot(fire.id) /\ r = fire.id[1] /\ exposed'[r] = Exposure(r)
<1>1. /\ fire.pc = "sending"
      /\ UNCHANGED <<clockVars, storeVars, sign, logVars, locked>>
      /\ \/ Proceed /\ UNCHANGED exposed
         \/ /\ fire' = [fire EXCEPT !.pc = "settle"]
            /\ exposed' = IF IsHot(fire.id)
                          THEN [exposed EXCEPT ![fire.id[1]] = Exposure(fire.id[1])]
                          ELSE exposed
      BY DEF Sent
<1>2. fire' = [fire EXCEPT !.pc = "settle"] => fire'.pc = "settle" /\ fire'.id = fire.id
      BY TypesAgain DEF Fires
<1>3. ASSUME exposed' = IF IsHot(fire.id)
                        THEN [exposed EXCEPT ![fire.id[1]] = Exposure(fire.id[1])]
                        ELSE exposed,
             NEW r \in Requests
      PROVE  \/ exposed'[r] = exposed[r] /\ (IsHot(fire.id) => r # fire.id[1])
             \/ IsHot(fire.id) /\ r = fire.id[1] /\ exposed'[r] = Exposure(r)
  <2>1. exposed \in Ledgers
        BY Types
  <2>2. CASE IsHot(fire.id)
        BY <1>3, <2>1, <2>2 DEF Ledgers
  <2>3. CASE ~ IsHot(fire.id)
        BY <1>3, <2>3
  <2> QED BY <2>2, <2>3
<1> QED BY <1>1, <1>2, <1>3

-----------------------------------------------------------------------------
(* A hot spend, its reservation and its exposure.                            *)

LEMMA HotFacts ==
    ASSUME TypeOK, NEW r \in Hot
    PROVE  /\ r \in Requests /\ SpendId(r) \in Ids /\ IsHot(SpendId(r))
           /\ SpendId(r)[1] = r /\ ~ IsEscape(SpendId(r))
           /\ cand[SpendId(r)] \in Candidate
           /\ cand[SpendId(r)].present \in BOOLEAN /\ cand[SpendId(r)].released \in BOOLEAN
           /\ cand[SpendId(r)].broadcast \in BOOLEAN
           /\ cand[SpendId(r)].deadline \in Nat /\ cand[SpendId(r)].fireAt \in Nat
           /\ ledger[r] \in Reservation /\ ledger[r].held \in BOOLEAN /\ ledger[r].at \in Nat
           /\ exposed[r] \in Reservation /\ exposed[r].held \in BOOLEAN
           /\ exposed[r].at \in Nat
           /\ ExpiryOf[r] \in Nat /\ wall \in Nat /\ mono \in Nat
           /\ Monus(mono, HotWindowSecs) \in Nat
<1>1. r \in Requests
      BY StoreAssumption
<1>2. /\ SpendId(r) \in Ids /\ IsHot(SpendId(r))
      /\ SpendId(r)[1] = r /\ ~ IsEscape(SpendId(r))
      BY <1>1, IdFacts
<1>3. cand \in Registries /\ ledger \in Ledgers /\ exposed \in Ledgers
      /\ ExpiryOf[r] \in Nat /\ wall \in Nat /\ mono \in Nat
      BY <1>1, Types
<1>4. cand[SpendId(r)] \in Candidate /\ ledger[r] \in Reservation /\ exposed[r] \in Reservation
      BY <1>1, <1>2, <1>3 DEF Registries, Ledgers
<1>5. Monus(mono, HotWindowSecs) \in Nat
      BY <1>3, Bounds, Arithmetic
<1>6. ASSUME NEW x \in Reservation PROVE x.held \in BOOLEAN /\ x.at \in Nat
      BY <1>6, Bounds DEF Reservation, Time
<1>7. ASSUME NEW x \in Candidate
      PROVE  /\ x.present \in BOOLEAN /\ x.released \in BOOLEAN
             /\ x.broadcast \in BOOLEAN /\ x.deadline \in Nat /\ x.fireAt \in Nat
      BY <1>7 DEF Candidate
<1> QED BY <1>1, <1>2, <1>3, <1>4, <1>5, <1>6, <1>7

\* Steps that leave the spend, its reservation and its exposure.
LEMMA SpendQuiet ==
    ASSUME ~ ClockRewinds, TypeOK, ClockInv, [Next]_vars, TypeOK', NEW r \in Hot,
           SpendIsMetered(r), Quiet
    PROVE  SpendIsMetered(r)'
<1> DEFINE s == cand[SpendId(r)]
<1>1. /\ cand'[SpendId(r)].present = s.present /\ cand'[SpendId(r)].released = s.released
      /\ cand'[SpendId(r)].broadcast = s.broadcast
      /\ cand'[SpendId(r)].deadline = s.deadline
      BY HotFacts DEF Quiet
<1>2. /\ ledger'[r] = ledger[r] /\ exposed'[r] = exposed[r] /\ UNCHANGED sign
      /\ fire.pc = "settle" => UNCHANGED fire
      BY DEF Quiet
<1>3. wall' <= ExpiryOf[r] => wall <= ExpiryOf[r]
      BY HotFacts, ClockMoves
<1>4. ExposedInWindow(r)' => ExposedInWindow(r)
  <2>1. Monus(mono, HotWindowSecs) <= Monus(mono', HotWindowSecs)
        BY ClockMoves
  <2>2. mono' \in Nat /\ Monus(mono', HotWindowSecs) \in Nat
        BY ClockMoves, Bounds, Arithmetic
  <2>3. exposed[r].at \in Nat /\ Monus(mono, HotWindowSecs) \in Nat
        BY HotFacts
  <2> HIDE DEF Monus
  <2> QED BY <1>2, <2>1, <2>2, <2>3 DEF ExposedInWindow
<1> QED BY <1>1, <1>2, <1>3, <1>4 DEF SpendIsMetered

\* Steps that remove candidates.
LEMMA SpendRemoval ==
    ASSUME TypeOK, NEW r \in Hot, SpendIsMetered(r), NEW S, Removal(S), Metered(r, S),
           fire.pc = "settle" => UNCHANGED fire,
           sign.pc = "reserved" => UNCHANGED sign
    PROVE  SpendIsMetered(r)'
<1> DEFINE i == SpendId(r)
           s == cand[i]
<1>1. /\ r \in Requests /\ i \in Ids
      /\ ledger[r].held \in BOOLEAN /\ exposed[r].held \in BOOLEAN
      BY HotFacts
<1>2. cand'[i] = IF i \in S THEN Gone ELSE s
      BY <1>1, Types, RemovalFacts DEF Removal
<1>3. UNCHANGED <<wall, mono>> /\ exposed'[r] = exposed[r]
      BY DEF Removal, clockVars
<1>4. \/ ledger'[r] = IF i \in S /\ UnexposedHot(i, cand) THEN NoReservation ELSE ledger[r]
      \/ ledger'[r] = NoReservation /\ (ledger[r].held => ~ IsLive(r, ledger, wall))
      BY <1>1, Types, RemovalFacts DEF Metered
<1>5. UnexposedHot(i, cand) <=> ~ s.released /\ ~ s.broadcast
      BY HotFacts DEF UnexposedHot
<1>6. ASSUME i \in S, UnexposedHot(i, cand) PROVE ~ exposed[r].held
  <2>1. s.present
        BY <1>6 DEF Removal
  <2>2. ~ (fire.pc = "settle" /\ fire.id = i)
        BY <1>6 DEF Removal
  <2> QED BY <1>5, <1>6, <2>1, <2>2 DEF SpendIsMetered
<1>7. ExposedInWindow(r)' <=> ExposedInWindow(r)
      BY <1>3 DEF ExposedInWindow
<1>8. ExposedInWindow(r) => ledger[r] = exposed[r] /\ ledger[r].held /\ IsLive(r, ledger, wall)
      BY DEF SpendIsMetered, ExposedInWindow, IsLive
<1>9. ~ Gone.present /\ ~ NoReservation.held
      BY Constants
<1> HIDE DEF i
<1>10. ExposedInWindow(r)' => ledger'[r] = exposed'[r]
  <2>1. ASSUME ExposedInWindow(r) PROVE ledger'[r] = ledger[r]
    <3>1. exposed[r].held
          BY <2>1 DEF ExposedInWindow
    <3> QED BY <1>4, <1>6, <1>8, <2>1, <3>1
  <2> QED BY <1>3, <1>7, <1>8, <2>1
<1>11. CASE i \in S
  <2>1. ~ cand'[i].present
        BY <1>2, <1>9, <1>11
  <2>2. ledger'[r].held => ledger'[r] = ledger[r] /\ ~ UnexposedHot(i, cand)
        BY <1>4, <1>9, <1>11
  <2>3. s.present
        BY <1>11 DEF Removal
  <2>4. ledger'[r].held =>
            exposed[r].held \/ (sign.pc = "reserved" /\ r = ReqOf[sign.carrier])
        BY <1>5, <2>2, <2>3 DEF SpendIsMetered, i
  <2>5. ledger'[r].held =>
            exposed'[r].held \/ (sign'.pc = "reserved" /\ r = ReqOf[sign'.carrier])
        BY <1>3, <2>4
  <2> QED BY <1>10, <2>1, <2>5 DEF SpendIsMetered, i
<1>12. CASE i \notin S
  <2>1. cand'[i] = s
        BY <1>2, <1>12
  <2>2. \/ ledger'[r] = ledger[r]
        \/ ledger'[r] = NoReservation /\ (ledger[r].held => ~ IsLive(r, ledger, wall))
        BY <1>4, <1>12
  <2>3. s.present /\ ~ s.broadcast /\ wall' <= ExpiryOf[r] => ledger'[r].held
    <3>1. ~ IsLive(r, ledger, wall) => ~ (wall <= ExpiryOf[r])
          BY DEF IsLive
    <3> QED BY <1>3, <2>2, <3>1 DEF SpendIsMetered, i
  <2>4. ledger'[r].held => ledger[r].held
        BY <1>9, <2>2
  <2> QED BY <1>3, <1>10, <2>1, <2>3, <2>4 DEF SpendIsMetered, i
<1> QED BY <1>11, <1>12

\* The first reserve of a handler.
LEMMA SpendReserves ==
    ASSUME TypeOK, NEW r \in Hot, SpendIsMetered(r), NEW k \in Carriers, SubmitReserves(k)
    PROVE  SpendIsMetered(r)'
<1>1. /\ UNCHANGED fire /\ sign.pc = "free"
      /\ sign' = [pc |-> "reserved", carrier |-> k, owned |-> ReqOf[k] \in Hot,
                  now |-> EffectiveNow, raw |-> wall]
      BY DEF SubmitReserves
<1>2. PICK S : Removal(S) /\ \A q \in Requests \ {ReqOf[k]} : Metered(q, S)
      BY DEF SubmitReserves
<1>3. r \in Requests
      BY HotFacts
<1>4. CASE r # ReqOf[k]
  <2>1. Metered(r, S)
        BY <1>2, <1>3, <1>4
  <2>2. /\ fire.pc = "settle" => UNCHANGED fire
        /\ sign.pc = "reserved" => UNCHANGED sign
        BY <1>1
  <2> QED BY <1>2, <2>1, <2>2, SpendRemoval
<1>5. CASE r = ReqOf[k]
  <2>1. ~ cand[SpendId(r)].present /\ ~ exposed[r].held
        BY <1>5 DEF SubmitReserves
  <2>2. ~ cand'[SpendId(r)].present /\ ~ exposed'[r].held
    <3>1. cand'[SpendId(r)] = IF SpendId(r) \in S THEN Gone ELSE cand[SpendId(r)]
          BY <1>2, HotFacts, Types, RemovalFacts DEF Removal
    <3>2. exposed' = exposed
          BY <1>2 DEF Removal
    <3> QED BY <2>1, <3>1, <3>2, Constants
  <2>3. sign'.pc = "reserved" /\ r = ReqOf[sign'.carrier]
        BY <1>1, <1>5
  <2>4. ~ ExposedInWindow(r)'
        BY <2>2 DEF ExposedInWindow
  <2> QED BY <2>2, <2>3, <2>4 DEF SpendIsMetered
<1> QED BY <1>4, <1>5

\* The reading of the first reserve says of an expiry what the wall clock says.
LEMMA RawAgrees ==
    ASSUME TypeOK, ClockInv, NEW q \in Requests
    PROVE  /\ ~ IsLive(q, ledger, sign.raw) => ~ IsLive(q, ledger, wall)
           /\ wall <= ExpiryOf[q] => sign.raw <= ExpiryOf[q]
<1>1. /\ ExpiryOf[q] \in Nat /\ sign.raw \in Nat /\ sign.now \in Nat /\ peak \in Nat
      /\ wall \in Nat
      BY Types
<1>2. /\ sign.raw <= sign.now /\ sign.now <= peak
      /\ ExpiryOf[q] < peak => ExpiryOf[q] < wall
      BY DEF ClockInv
<1>3. wall <= ExpiryOf[q] => sign.raw <= ExpiryOf[q]
      BY <1>1, <1>2
<1> QED BY <1>3 DEF IsLive

\* The second.
LEMMA SpendRegister ==
    ASSUME TypeOK, ClockInv, FreshInv, NEW r \in Hot, SpendIsMetered(r), Register
    PROVE  SpendIsMetered(r)'
<1> DEFINE n == ReqOf[sign.carrier]
           s == cand[SpendId(r)]
<1>1. /\ sign.pc = "reserved" /\ sign' = Free /\ UNCHANGED <<clockVars, fire, exposed>>
      /\ RegisterRefuses \/ RegisterAdds
      BY RegisterKinds
<1>2. r \in Requests /\ SpendId(r) \in Ids /\ SpendId(r)[1] = r /\ ~ IsEscape(SpendId(r))
      BY HotFacts
<1>3. UNCHANGED <<wall, mono>> /\ exposed'[r] = exposed[r]
      BY <1>1 DEF clockVars
<1>4. CASE r # n
  <2>1. AgedBy(r, sign.raw)
        BY <1>1, <1>2, <1>4 DEF RegisterRefuses, RegisterAdds
  <2>2. \/ ledger'[r] = ledger[r]
        \/ ledger'[r] = NoReservation /\ (ledger[r].held => ~ IsLive(r, ledger, wall))
        BY <1>2, <2>1, RawAgrees DEF AgedBy
  <2>3. cand'[SpendId(r)] = s
        BY <1>1, <1>2, <1>4 DEF RegisterRefuses, RegisterAdds
  <2>4. s.present /\ ~ s.broadcast /\ wall' <= ExpiryOf[r] => ledger'[r].held
    <3>1. ~ IsLive(r, ledger, wall) => ~ (wall <= ExpiryOf[r])
          BY DEF IsLive
    <3> QED BY <1>3, <2>2, <3>1 DEF SpendIsMetered
  <2>5. ExposedInWindow(r)' <=> ExposedInWindow(r)
        BY <1>3 DEF ExposedInWindow
  <2>6. ExposedInWindow(r) => ledger[r] = exposed[r] /\ ledger[r].held /\ IsLive(r, ledger, wall)
        BY DEF SpendIsMetered, ExposedInWindow, IsLive
  <2>7. ExposedInWindow(r)' => ledger'[r] = exposed'[r]
        BY <1>3, <2>2, <2>5, <2>6
  <2>8. ledger'[r].held => ledger[r].held /\ ((s.present /\ ~ s.broadcast) \/ exposed[r].held)
    <3>1. ledger'[r].held => ledger[r].held
          BY <2>2, Constants
    <3> QED BY <1>4, <3>1 DEF SpendIsMetered
  <2> QED BY <1>1, <1>3, <2>3, <2>4, <2>7, <2>8 DEF SpendIsMetered
<1>5. CASE r = n
  <2>1. ~ s.present /\ ~ exposed[r].held
        BY <1>1, <1>5 DEF FreshInv
  <2>2. ~ ExposedInWindow(r)' /\ ~ exposed'[r].held
        BY <1>3, <2>1 DEF ExposedInWindow
  <2>3. CASE RegisterRefuses
    <3>1. ledger'[r] = NoReservation /\ cand' = cand
          BY <1>5, <2>3 DEF RegisterRefuses
    <3> QED BY <2>1, <2>2, <3>1, Constants DEF SpendIsMetered
  <2>4. CASE RegisterAdds
    <3>1. /\ ledger'[r].held
          /\ cand'[SpendId(r)].present /\ ~ cand'[SpendId(r)].released
          /\ ~ cand'[SpendId(r)].broadcast /\ cand'[SpendId(r)].deadline <= ExpiryOf[r]
          BY <1>5, <2>4 DEF RegisterAdds
    <3> QED BY <2>2, <3>1 DEF SpendIsMetered
  <2> QED BY <1>1, <2>3, <2>4
<1> QED BY <1>4, <1>5

\* Within its window, a hot spend that is not settled is metered.
LEMMA OpenIsMetered ==
    ASSUME TypeOK, NEW r \in Hot, SpendIsMetered(r), MayRelease(SpendId(r), wall),
           ~ cand[SpendId(r)].broadcast
    PROVE  cand[SpendId(r)].present /\ ledger[r].held /\ wall <= ExpiryOf[r]
<1>1. cand[SpendId(r)].present /\ wall <= cand[SpendId(r)].deadline
      BY DEF MayRelease, WindowOpen
<1>2. cand[SpendId(r)].deadline <= ExpiryOf[r]
      BY <1>1 DEF SpendIsMetered
<1>3. wall <= ExpiryOf[r]
      BY <1>1, <1>2, HotFacts
<1> QED BY <1>1, <1>3 DEF SpendIsMetered

\* The release hold exposes a spend under its reservation.
LEMMA ReleaseIsMetered ==
    ASSUME TypeOK, FireInv, NEW r \in Hot, SpendIsMetered(r), ReleasePartials,
           exposed'[r] # exposed[r] \/ (cand'[SpendId(r)].released /\ ~ cand[SpendId(r)].released)
    PROVE  /\ cand[SpendId(r)].present /\ ledger[r].held
           /\ exposed'[r] = ledger[r] /\ cand'[SpendId(r)].released
<1>1. r \in Requests
      BY HotFacts
<1>2. /\ exposed'[r] = Exposure(r) /\ fire.pc = "release"
      /\ SpendId(r) \in fire.due /\ MayRelease(SpendId(r), wall)
      /\ cand'[SpendId(r)].released
      BY <1>1, ReleaseFacts
<1>3. ~ cand[SpendId(r)].broadcast
      BY <1>2 DEF FireInv
<1>4. cand[SpendId(r)].present /\ ledger[r].held
      BY <1>2, <1>3, OpenIsMetered
<1> QED BY <1>2, <1>4 DEF Exposure

LEMMA SpendRelease ==
    ASSUME TypeOK, FireInv, NEW r \in Hot, SpendIsMetered(r), ReleasePartials
    PROVE  SpendIsMetered(r)'
<1> DEFINE i == SpendId(r)
           s == cand[i]
<1>1. /\ fire.pc = "release" /\ UNCHANGED <<clockVars, ledger, sign>>
      BY ReleaseFacts DEF ReleasePartials
<1>2. /\ cand'[i].present = s.present /\ cand'[i].broadcast = s.broadcast
      /\ cand'[i].deadline = s.deadline
  <2>1. s \in Candidate /\ i \in Ids
        BY HotFacts
  <2>2. cand'[i] = s \/ cand'[i] = [s EXCEPT !.released = TRUE]
        BY <2>1, ReleaseFacts
  <2> HIDE DEF s, i
  <2> QED BY <2>1, <2>2 DEF Candidate
<1>3. UNCHANGED <<wall, mono>>
      BY <1>1 DEF clockVars
<1>4. CASE exposed'[r] # exposed[r] \/ (cand'[i].released /\ ~ s.released)
  <2>1. s.present /\ ledger[r].held /\ exposed'[r] = ledger[r] /\ cand'[i].released
        BY <1>4, ReleaseIsMetered
  <2> QED BY <1>1, <1>2, <1>3, <2>1 DEF SpendIsMetered, ExposedInWindow
<1>5. CASE ~ (exposed'[r] # exposed[r] \/ (cand'[i].released /\ ~ s.released))
  <2>1. exposed'[r] = exposed[r] /\ (cand'[i].released => s.released)
        BY <1>5
  <2>2. s.released => cand'[i].released
    <3>1. s \in Candidate /\ i \in Ids
          BY HotFacts
    <3>2. cand'[i] = s \/ cand'[i] = [s EXCEPT !.released = TRUE]
          BY <3>1, ReleaseFacts
    <3> HIDE DEF s, i
    <3> QED BY <3>1, <3>2 DEF Candidate
  <2>3. ExposedInWindow(r)' <=> ExposedInWindow(r)
        BY <1>3, <2>1 DEF ExposedInWindow
  <2> QED BY <1>1, <1>2, <1>3, <2>1, <2>2, <2>3 DEF SpendIsMetered
<1> QED BY <1>4, <1>5

\* So does a send.
LEMMA SpendSent ==
    ASSUME TypeOK, FireInv, NEW r \in Hot, SpendIsMetered(r), Sent
    PROVE  SpendIsMetered(r)'
<1>1. /\ fire.pc = "sending" /\ UNCHANGED <<clockVars, cand, ledger, sign>>
      /\ UNCHANGED <<wall, mono>>
      BY SentFacts DEF storeVars, clockVars
<1>2. r \in Requests /\ SpendId(r)[1] = r
      BY HotFacts
<1>3. CASE exposed'[r] = exposed[r]
  <2>1. ExposedInWindow(r)' <=> ExposedInWindow(r)
        BY <1>1, <1>3 DEF ExposedInWindow
  <2> QED BY <1>1, <1>3, <2>1 DEF SpendIsMetered
<1>4. CASE exposed'[r] # exposed[r]
  <2>1. /\ fire'.pc = "settle" /\ fire'.id = fire.id
        /\ IsHot(fire.id) /\ r = fire.id[1] /\ exposed'[r] = Exposure(r)
        BY <1>2, <1>4, SentFacts
  <2>2. fire.id = SpendId(r)
        BY <2>1, TypesAgain, IdFacts
  <2>3. ledger[r].held
        BY <1>1, <2>1 DEF FireInv
  <2>4. exposed'[r] = ledger[r]
        BY <2>1, <2>3 DEF Exposure
  <2> QED BY <1>1, <2>1, <2>2, <2>3, <2>4 DEF SpendIsMetered, ExposedInWindow
<1> QED BY <1>3, <1>4

\* A settlement ends the spends it defeats, and exposes the one it settles.
LEMMA SpendSettle ==
    ASSUME TypeOK, NEW r \in Hot, SpendIsMetered(r), MarkBroadcast
    PROVE  SpendIsMetered(r)'
<1> DEFINE i == SpendId(r)
           s == cand[i]
           t == cand'[i]
<1>1. r \in Requests /\ i \in Ids /\ IsHot(i)
      BY HotFacts
<1>2. /\ fire.pc = "settle"
      /\ t.present = s.present /\ t.released = s.released /\ t.deadline = s.deadline
      /\ s.broadcast => t.broadcast
      /\ i = fire.id /\ s.present => t.broadcast
      BY <1>1, SettleFacts
<1>3. \/ ledger'[r] = ledger[r]
      \/ /\ ledger'[r] = NoReservation /\ i # fire.id
         /\ s.present /\ t.broadcast /\ ~ s.released /\ ~ s.broadcast
      BY <1>1, SettleFacts DEF UnexposedHot
<1>4. ledger'[r].held /\ ~ s.broadcast /\ t.broadcast => i = fire.id \/ s.released
      BY <1>1, SettleFacts
<1>5. /\ \/ exposed'[r] = exposed[r]
         \/ exposed'[r] = ledger[r] /\ ledger[r].held /\ i = fire.id
      /\ i = fire.id /\ ledger[r].held => exposed'[r] = ledger[r]
      BY <1>1, SettleFacts
<1>6. UNCHANGED <<wall, mono, sign>>
      BY DEF MarkBroadcast, clockVars
<1>7. ~ NoReservation.held
      BY Constants
<1> HIDE DEF s, t
<1>8. t.present => t.deadline <= ExpiryOf[r]
      BY <1>2 DEF SpendIsMetered, s, i
<1>9. t.present /\ ~ t.broadcast /\ wall' <= ExpiryOf[r] => ledger'[r].held
      BY <1>2, <1>3, <1>6 DEF SpendIsMetered, s, i
<1>10. t.present /\ t.released => exposed'[r].held
       BY <1>2, <1>5 DEF SpendIsMetered, s, i
<1>11. t.present /\ ~ t.released /\ ~ t.broadcast => ~ exposed'[r].held
       BY <1>2, <1>5 DEF SpendIsMetered, s, i
<1>12. ExposedInWindow(r)' => ledger'[r] = exposed'[r]
  <2>1. CASE exposed'[r] = exposed[r]
    <3>1. ExposedInWindow(r)' => ExposedInWindow(r) /\ exposed[r].held
          BY <1>6, <2>1 DEF ExposedInWindow
    <3>2. exposed[r].held /\ s.present /\ ~ s.released /\ ~ s.broadcast => i = fire.id
          BY DEF SpendIsMetered, s, i
    <3> QED BY <1>3, <2>1, <3>1, <3>2 DEF SpendIsMetered
  <2>2. CASE exposed'[r] = ledger[r] /\ ledger[r].held /\ i = fire.id
        BY <1>3, <2>2
  <2> QED BY <1>5, <2>1, <2>2
<1>13. ledger'[r].held => \/ sign'.pc = "reserved" /\ r = ReqOf[sign'.carrier]
                          \/ t.present /\ ~ t.broadcast
                          \/ exposed'[r].held
  <2> SUFFICES ASSUME ledger'[r].held
               PROVE  \/ sign'.pc = "reserved" /\ r = ReqOf[sign'.carrier]
                      \/ t.present /\ ~ t.broadcast
                      \/ exposed'[r].held
      OBVIOUS
  <2>1. ledger'[r] = ledger[r] /\ ledger[r].held
        BY <1>3, <1>7
  <2>2. exposed[r].held => exposed'[r].held
        BY <1>5
  <2>3. s.present /\ s.released => exposed[r].held
        BY DEF SpendIsMetered, s, i
  <2>4. \/ sign.pc = "reserved" /\ r = ReqOf[sign.carrier]
        \/ s.present /\ ~ s.broadcast
        \/ exposed[r].held
        BY <2>1 DEF SpendIsMetered, s, i
  <2> QED BY <1>2, <1>4, <1>5, <1>6, <2>1, <2>2, <2>3, <2>4
<1> QED BY <1>8, <1>9, <1>10, <1>11, <1>12, <1>13 DEF SpendIsMetered, t, i

LEMMA SpendStep ==
    ASSUME ~ SlowSends, ~ ClockRewinds, TypeOK, ClockInv, KnownInv, FreshInv, SpendInv,
           FireInv, [Next]_vars, TypeOK'
    PROVE  SpendInv'
<1> SUFFICES ASSUME NEW r \in Hot PROVE SpendIsMetered(r)'
    BY DEF SpendInv
<1>1. SpendIsMetered(r)
      BY DEF SpendInv
<1>2. CASE Quiet
      BY <1>1, <1>2, SpendQuiet
<1>3. CASE Pruning
  <2>1. PICK S : /\ Removal(S) /\ UNCHANGED sign /\ \A q \in Requests : Metered(q, S)
                 /\ fire.pc = "settle" => UNCHANGED fire
        BY <1>3 DEF Pruning
  <2>2. Metered(r, S)
        BY <2>1, HotFacts
  <2> QED BY <1>1, <2>1, <2>2, SpendRemoval
<1>4. ASSUME NEW k \in Carriers, SubmitReserves(k) PROVE SpendIsMetered(r)'
      BY <1>1, <1>4, SpendReserves
<1>5. CASE Register
      BY <1>1, <1>5, SpendRegister
<1>6. CASE ReleasePartials
      BY <1>1, <1>6, SpendRelease
<1>7. CASE Sent
      BY <1>1, <1>7, SpendSent
<1>8. CASE MarkBroadcast
      BY <1>1, <1>8, SpendSettle
<1> QED BY <1>2, <1>3, <1>4, <1>5, <1>6, <1>7, <1>8, StepKinds

-----------------------------------------------------------------------------
(* The fire driver.                                                          *)

\* What it works on is there, and metered if it is a hot spend being sent.
FireTarget ==
    /\ fire.pc \in {"sending", "settle"} => cand[fire.id].present
    /\ fire.pc = "sending" /\ IsHot(fire.id) =>
           /\ ledger[fire.id[1]].held
           /\ sign.pc = "reserved" => sign.raw <= ExpiryOf[fire.id[1]]

\* What it is about to release is not settled, nor is what it watches.
FireUnsettled ==
    /\ fire.pc \in {"poll", "release"} => \A id \in fire.due : ~ cand[id].broadcast
    /\ \A q \in pending : cand[SpendId(q)].broadcast =>
           fire.pc = "pending" /\ q \in fire.settled

LEMMA FireParts == FireInv <=> FireTarget /\ FireUnsettled
BY DEF FireInv, FireTarget, FireUnsettled

\* A removal spares what is being sent.
LEMMA TargetRemoval ==
    ASSUME TypeOK, FireTarget, NEW S, Removal(S), UNCHANGED fire,
           IsHot(fire.id) => Metered(fire.id[1], S),
           UNCHANGED sign \/ sign'.raw = wall
    PROVE  FireTarget'
<1>1. fire.id \in Ids /\ fire.id[1] \in Requests
      BY TypesAgain, IdFacts
<1>2. /\ fire.pc \in {"sending", "settle"} => fire.id \notin S
      /\ fire.pc = "sending" /\ IsHot(fire.id) => wall <= ExpiryOf[fire.id[1]]
      BY DEF Removal
<1>3. fire.pc \in {"sending", "settle"} => cand'[fire.id] = cand[fire.id]
      BY <1>1, <1>2, Types, RemovalFacts DEF Removal
<1>4. ASSUME fire.pc = "sending", IsHot(fire.id) PROVE ledger'[fire.id[1]].held
  <2> DEFINE q == fire.id[1]
  <2>1. ledger[q].held
        BY <1>4 DEF FireTarget
  <2>2. fire.id = SpendId(q)
        BY <1>1, <1>4, IdFacts
  <2>3. Refunded(ledger, cand, S)[q] = ledger[q]
    <3>1. SpendId(q) \notin S
          BY <1>2, <1>4, <2>2
    <3> HIDE DEF q
    <3> QED BY <1>1, <3>1, Types, RemovalFacts DEF q
  <2>4. IsLive(q, ledger, wall)
        BY <1>2, <1>4 DEF IsLive
  <2> QED BY <1>4, <2>1, <2>3, <2>4 DEF Metered
<1>5. ASSUME fire.pc = "sending", IsHot(fire.id), sign'.pc = "reserved"
      PROVE  sign'.raw <= ExpiryOf[fire.id[1]]
      BY <1>2, <1>5 DEF FireTarget
<1> QED BY <1>3, <1>4, <1>5 DEF FireTarget

LEMMA UnsettledRemoval ==
    ASSUME TypeOK, FireUnsettled, NEW S, Removal(S),
           \/ UNCHANGED fire
           \/ /\ fire.pc = "idle" /\ fire'.pc = "poll"
              /\ \A id \in fire'.due : ~ cand'[id].broadcast
    PROVE  FireUnsettled'
<1>1. \A id \in Ids : cand'[id].broadcast => cand[id].broadcast
      BY Types, RemovalFacts, Constants DEF Removal
<1>2. pending' \subseteq pending /\ pending \subseteq Requests
      BY TypesAgain DEF Removal
<1>3. \A q \in pending' : cand'[SpendId(q)].broadcast => cand[SpendId(q)].broadcast
      BY <1>1, <1>2, IdFacts
<1>4. fire.due \subseteq Ids
      BY TypesAgain
<1>5. CASE UNCHANGED fire
      BY <1>1, <1>2, <1>3, <1>4, <1>5 DEF FireUnsettled
<1>6. CASE /\ fire.pc = "idle" /\ fire'.pc = "poll"
           /\ \A id \in fire'.due : ~ cand'[id].broadcast
      BY <1>2, <1>3, <1>6 DEF FireUnsettled
<1> QED BY <1>5, <1>6

\* The driver's own steps.
LEMMA FireQuietStep ==
    ASSUME TypeOK, ClockInv, SpendInv, FireInv, FireQuiet
    PROVE  FireInv'
<1>1. /\ UNCHANGED <<clockVars, storeVars, sign, locked, exposed>>
      /\ fire.pc \notin {"sending", "settle"}
      BY FireQuietKind
<1>2. UNCHANGED <<wall, cand, ledger, sign>>
      BY <1>1 DEF clockVars, storeVars
<1>3. pending' \subseteq pending
  <2>1. Quiet
        BY FireQuietKind
  <2> QED BY <2>1 DEF Quiet
<1>4. CASE PollPending
  <2>1. fire.pc = "poll"
        BY <1>4 DEF PollPending
  <2>2. PICK due : /\ due \subseteq fire.due \cup {SpendId(q) : q \in pending}
                   /\ \/ fire' = Resting
                      \/ fire' = [Resting EXCEPT !.pc = "release", !.due = due]
        BY <1>4 DEF PollPending
  <2>3. Resting \in Fires /\ Resting.pc = "idle"
        BY RestFacts DEF Fires
  <2>4. \/ fire'.pc = "idle"
        \/ fire'.pc = "release" /\ fire'.due = due
        BY <2>2, <2>3 DEF Fires
  <2>5. \A id \in due : ~ cand[id].broadcast
        BY <2>1, <2>2 DEF FireInv
  <2>6. \A q \in pending : ~ cand[SpendId(q)].broadcast
        BY <2>1 DEF FireInv
  <2> QED BY <1>2, <1>3, <2>4, <2>5, <2>6 DEF FireInv
<1>5. ASSUME Proceed, fire.pc \in {"next", "finalized"}, UNCHANGED pending PROVE FireInv'
  <2>1. fire'.pc \in {"idle", "combine"}
        BY <1>5, ProceedType
  <2>2. \A q \in pending : ~ cand[SpendId(q)].broadcast
        BY <1>5 DEF FireInv
  <2> QED BY <1>2, <1>5, <2>1, <2>2 DEF FireInv
<1>6. CASE Skip
      BY <1>5, <1>6 DEF Skip, logVars
<1>7. CASE EndPending
  <2>1. fire'.pc \in {"idle", "combine"} /\ pending' = pending \ fire.settled
        BY <1>7, ProceedType DEF EndPending
  <2>2. \A q \in pending' : ~ cand[SpendId(q)].broadcast
        BY <2>1 DEF FireInv
  <2> QED BY <1>2, <2>1, <2>2 DEF FireInv
<1>8. CASE Authorize
  <2>1. fire.pc = "finalized" /\ UNCHANGED pending
        BY <1>8 DEF Authorize, logVars
  <2>2. CASE Proceed
        BY <1>5, <2>1, <2>2
  <2>3. CASE MayBroadcast(fire.id, wall) /\ fire' = [fire EXCEPT !.pc = "sending"]
    <3>1. fire'.pc = "sending" /\ fire'.id = fire.id
          BY <2>3, TypesAgain DEF Fires
    <3>2. MayRelease(fire.id, wall) /\ ~ cand[fire.id].broadcast /\ cand[fire.id].present
          BY <2>3 DEF MayBroadcast, MayRelease
    <3>3. ASSUME IsHot(fire.id)
          PROVE  ledger[fire.id[1]].held /\ sign.raw <= ExpiryOf[fire.id[1]]
      <4> DEFINE r == fire.id[1]
      <4>1. r \in Hot /\ fire.id = SpendId(r) /\ r \in Requests
            BY <3>3, TypesAgain, IdFacts
      <4>2. SpendIsMetered(r)
            BY <4>1 DEF SpendInv
      <4> HIDE DEF r
      <4>3. ledger[r].held /\ wall <= ExpiryOf[r]
            BY <3>2, <4>1, <4>2, OpenIsMetered
      <4>4. sign.raw <= ExpiryOf[r]
            BY <4>1, <4>3, RawAgrees
      <4> QED BY <4>3, <4>4 DEF r
    <3>4. \A q \in pending : ~ cand[SpendId(q)].broadcast
          BY <2>1 DEF FireInv
    <3> QED BY <1>2, <2>1, <3>1, <3>2, <3>3, <3>4 DEF FireInv
  <2> QED BY <1>8, <2>2, <2>3 DEF Authorize
<1>9. ASSUME NEW id \in Ids, Combine(id) PROVE FireInv'
  <2>1. fire.pc = "combine" /\ UNCHANGED pending
        BY <1>9 DEF Combine, logVars
  <2>2. PICK p \in {"settle", "finalized", "next"} :
            /\ fire' = [fire EXCEPT !.pc = p, !.id = id]
            /\ p = "settle" => cand[id].present
        BY <1>9 DEF Combine
  <2>3. fire'.pc = p /\ fire'.id = id
        BY <2>2, TypesAgain DEF Fires
  <2>4. \A q \in pending : ~ cand[SpendId(q)].broadcast
        BY <2>1 DEF FireInv
  <2> QED BY <1>2, <2>1, <2>2, <2>3, <2>4 DEF FireInv
<1> QED BY <1>4, <1>6, <1>7, <1>8, <1>9 DEF FireQuiet

LEMMA FireRegister ==
    ASSUME TypeOK, ClockInv, FreshInv, FireInv, Register
    PROVE  FireInv'
<1> DEFINE n == ReqOf[sign.carrier]
<1>1. /\ sign.pc = "reserved" /\ sign' = Free /\ UNCHANGED <<clockVars, fire, exposed>>
      /\ RegisterRefuses \/ RegisterAdds
      BY RegisterKinds
<1>2. n \in Requests /\ fire.id \in Ids /\ fire.id[1] \in Requests /\ fire.due \subseteq Ids
      BY Types, TypesAgain, IdFacts
<1>3. ~ cand[SpendId(n)].present /\ ~ cand[EscapeId(n)].present
      BY <1>1 DEF FreshInv
<1>4. \A id \in Ids : id[1] = n => id = SpendId(n) \/ id = EscapeId(n)
      BY IdFacts
<1>5. sign'.pc = "free"
      BY <1>1, RestFacts
<1> HIDE DEF n
<1>6. ASSUME fire.pc \in {"sending", "settle"} PROVE cand[fire.id].present /\ fire.id[1] # n
      BY <1>2, <1>3, <1>4, <1>6 DEF FireInv
<1>7. ASSUME NEW id \in Ids, id[1] # n
      PROVE  cand'[id].present = cand[id].present /\ cand'[id].broadcast = cand[id].broadcast
      BY <1>1, <1>7 DEF RegisterRefuses, RegisterAdds, n
<1>8. ASSUME fire.pc = "sending", IsHot(fire.id) PROVE ledger'[fire.id[1]].held
  <2> DEFINE q == fire.id[1]
  <2>1. q \in Requests /\ q # n
        BY <1>2, <1>6, <1>8
  <2>2. AgedBy(q, sign.raw)
        BY <1>1, <2>1 DEF RegisterRefuses, RegisterAdds, n
  <2>3. ledger[q].held /\ sign.raw <= ExpiryOf[q]
        BY <1>1, <1>8 DEF FireInv
  <2> HIDE DEF q
  <2>4. ledger'[q].held
        BY <2>2, <2>3 DEF AgedBy, IsLive
  <2> QED BY <2>4 DEF q
<1>9. CASE RegisterRefuses
  <2>1. UNCHANGED <<cand, pending>>
        BY <1>9 DEF RegisterRefuses, logVars
  <2> QED BY <1>1, <1>5, <1>8, <2>1 DEF FireInv
<1>10. CASE RegisterAdds
  <2>1. /\ pending' \subseteq pending \cup {n}
        /\ ~ cand'[SpendId(n)].broadcast /\ ~ cand'[EscapeId(n)].broadcast
        BY <1>10 DEF RegisterAdds, n
  <2>2. pending \subseteq Requests
        BY TypesAgain
  <2>3. ASSUME NEW q \in pending', cand'[SpendId(q)].broadcast
        PROVE  q \in pending /\ cand[SpendId(q)].broadcast
    <3>1. q # n /\ q \in pending
          BY <2>1, <2>3
    <3>2. SpendId(q) \in Ids /\ SpendId(q)[1] = q
          BY <2>2, <3>1, IdFacts
    <3> QED BY <1>7, <2>3, <3>1, <3>2
  <2>4. ASSUME fire.pc \in {"poll", "release"}, NEW id \in fire.due
        PROVE  ~ cand'[id].broadcast
    <3>1. ~ cand[id].broadcast
          BY <2>4 DEF FireInv
    <3>2. CASE id[1] # n
          BY <1>2, <1>7, <3>1, <3>2
    <3>3. CASE id = SpendId(n)
          BY <2>1, <3>3
    <3>4. CASE id = EscapeId(n)
          BY <2>1, <3>4
    <3> QED BY <1>2, <1>4, <3>2, <3>3, <3>4
  <2> QED BY <1>1, <1>2, <1>5, <1>6, <1>7, <1>8, <2>3, <2>4 DEF FireInv
<1> QED BY <1>1, <1>9, <1>10

LEMMA FireStep ==
    ASSUME ~ SlowSends, ~ ClockRewinds, TypeOK, ClockInv, KnownInv, FreshInv, SpendInv,
           FireInv, [Next]_vars, TypeOK'
    PROVE  FireInv'
<1>1. CASE FireQuiet
      BY <1>1, FireQuietStep
<1>2. CASE Quiet /\ UNCHANGED fire
  <2>1. /\ UNCHANGED <<ledger, sign>> /\ pending' \subseteq pending
        /\ \A id \in Ids : /\ cand'[id].present = cand[id].present
                           /\ cand'[id].broadcast = cand[id].broadcast
        BY <1>2 DEF Quiet
  <2>2. fire.id \in Ids /\ fire.due \subseteq Ids /\ \A q \in pending : SpendId(q) \in Ids
        BY TypesAgain, IdFacts
  <2> QED BY <1>2, <2>1, <2>2 DEF FireInv
<1>3. CASE Pruning
  <2>1. PICK S : /\ Removal(S) /\ UNCHANGED sign /\ \A q \in Requests : Metered(q, S)
                 /\ \/ UNCHANGED fire
                    \/ /\ fire.pc = "idle" /\ fire'.pc = "poll"
                       /\ \A id \in fire'.due : ~ cand'[id].broadcast
        BY <1>3 DEF Pruning
  <2>2. FireTarget /\ FireUnsettled
        BY FireParts
  <2>3. FireUnsettled'
        BY <2>1, <2>2, UnsettledRemoval
  <2>4. FireTarget'
    <3>1. CASE UNCHANGED fire
      <4>1. IsHot(fire.id) => Metered(fire.id[1], S)
            BY <2>1, TypesAgain, IdFacts
      <4> QED BY <2>1, <2>2, <3>1, <4>1, TargetRemoval
    <3>2. CASE fire'.pc = "poll"
          BY <3>2 DEF FireTarget
    <3> QED BY <2>1, <3>1, <3>2
  <2> QED BY <2>3, <2>4, FireParts DEF FireInv, FireTarget, FireUnsettled
<1>4. ASSUME NEW k \in Carriers, SubmitReserves(k) PROVE FireInv'
  <2>1. PICK S : Removal(S) /\ \A q \in Requests \ {ReqOf[k]} : Metered(q, S)
        BY <1>4 DEF SubmitReserves
  <2>2. /\ UNCHANGED fire /\ sign'.raw = wall
        /\ ~ cand[SpendId(ReqOf[k])].present
        BY <1>4 DEF SubmitReserves
  <2>3. FireTarget /\ FireUnsettled
        BY FireParts
  <2>4. FireUnsettled'
        BY <2>1, <2>2, <2>3, UnsettledRemoval
  <2>5. CASE fire.pc \in {"sending", "settle"}
    <3>1. cand[fire.id].present
          BY <2>3, <2>5 DEF FireTarget
    <3>2. IsHot(fire.id) => fire.id[1] # ReqOf[k] /\ fire.id[1] \in Requests
          BY <2>2, <3>1, TypesAgain, IdFacts
    <3>3. FireTarget'
          BY <2>1, <2>2, <2>3, <3>2, TargetRemoval
    <3> QED BY <2>4, <3>3 DEF FireInv, FireTarget, FireUnsettled
  <2>6. CASE fire.pc \notin {"sending", "settle"}
        BY <2>2, <2>4, <2>6 DEF FireInv, FireUnsettled
  <2> QED BY <2>5, <2>6
<1>5. CASE Register
      BY <1>5, FireRegister
<1>6. CASE ReleasePartials
  <2>1. fire.pc = "release" /\ fire'.pc = "combine" /\ UNCHANGED pending
        BY <1>6, ReleaseFacts DEF ReleasePartials, logVars
  <2>2. \A id \in Ids : cand'[id].broadcast = cand[id].broadcast
    <3>1. ASSUME NEW x \in Candidate PROVE [x EXCEPT !.released = TRUE].broadcast = x.broadcast
          BY DEF Candidate
    <3>2. \A id \in Ids : cand[id] \in Candidate
          BY Types DEF Registries
    <3> QED BY <1>6, <3>1, <3>2, ReleaseFacts
  <2>3. \A q \in pending : SpendId(q) \in Ids /\ ~ cand[SpendId(q)].broadcast
        BY <2>1, TypesAgain, IdFacts DEF FireInv
  <2> QED BY <2>1, <2>2, <2>3 DEF FireInv
<1>7. CASE Sent
  <2>1. /\ fire.pc = "sending" /\ UNCHANGED <<cand, ledger, pending>>
        /\ Proceed \/ (fire'.pc = "settle" /\ fire'.id = fire.id)
        BY <1>7, SentFacts DEF storeVars, logVars
  <2>2. \/ fire'.pc \in {"idle", "combine"}
        \/ fire'.pc = "settle" /\ fire'.id = fire.id
        BY <2>1, ProceedType
  <2> QED BY <2>1, <2>2 DEF FireInv
<1>8. CASE MarkBroadcast
  <2>1. fire.pc = "settle" /\ fire'.pc = "pending" /\ UNCHANGED pending
        BY <1>8, SettleFacts DEF MarkBroadcast, logVars
  <2>2. \A q \in pending : SpendId(q) \in Ids /\ SpendId(q)[1] = q /\ ~ cand[SpendId(q)].broadcast
        BY <2>1, TypesAgain, IdFacts DEF FireInv
  <2>3. \A q \in pending : cand'[SpendId(q)].broadcast => q \in fire'.settled
        BY <1>8, <2>2, SettleFacts
  <2> QED BY <2>1, <2>3 DEF FireInv
<1>9. UNCHANGED fire \/ FireQuiet \/ StartPass \/ ReleasePartials \/ Sent \/ MarkBroadcast
      BY DEF Next, vars, RecordIntent, Submit, Confirm, RetireIntent, EvictOnPartial, Register,
             Prune, LatchLockdown, Tick, StepWall, RaiseHighWater, FireQuiet
<1> QED BY <1>1, <1>2, <1>3, <1>4, <1>5, <1>6, <1>7, <1>8, <1>9, StepKinds, StartPassKind

-----------------------------------------------------------------------------
(* What is known of a request.                                               *)

\* Only Register adds candidates, and only those of its request; the others keep
\* their holders and, the spends, their fire time.
LEMMA CandStep ==
    ASSUME ~ SlowSends, TypeOK, ClockInv, KnownInv, FreshInv, SpendInv, [Next]_vars,
           NEW id \in Ids
    PROVE  \/ cand'[id].present =>
                  /\ cand[id].present
                  /\ cand[id].quorum => cand'[id].quorum
                  /\ ~ cand'[id].broadcast => ~ cand[id].broadcast
                  /\ ~ IsEscape(id) => cand'[id].fireAt = cand[id].fireAt
           \/ Register /\ RegisterAdds /\ id[1] = ReqOf[sign.carrier]
<1>1. CASE Quiet
      BY <1>1 DEF Quiet
<1>2. ASSUME NEW S, Removal(S)
      PROVE  cand'[id].present => cand'[id] = cand[id]
      BY <1>2, Types, RemovalFacts, Constants DEF Removal
<1>3. CASE Pruning
      BY <1>2, <1>3 DEF Pruning
<1>4. ASSUME NEW k \in Carriers, SubmitReserves(k)
      PROVE  cand'[id].present => cand'[id] = cand[id]
      BY <1>2, <1>4 DEF SubmitReserves
<1>5. CASE Register
  <2>1. RegisterRefuses \/ RegisterAdds
        BY <1>5, RegisterKinds
  <2>2. RegisterRefuses => UNCHANGED cand
        BY DEF RegisterRefuses
  <2>3. RegisterAdds /\ id[1] # ReqOf[sign.carrier] =>
            /\ cand'[id].present = cand[id].present /\ cand'[id].quorum = cand[id].quorum
            /\ cand'[id].broadcast = cand[id].broadcast
            /\ ~ IsEscape(id) => cand'[id] = cand[id]
        BY DEF RegisterAdds
  <2> QED BY <1>5, <2>1, <2>2, <2>3
<1>6. CASE ReleasePartials
  <2>1. cand[id] \in Candidate
        BY Types DEF Registries
  <2>2. cand'[id] = cand[id] \/ cand'[id] = [cand[id] EXCEPT !.released = TRUE]
        BY <1>6, ReleaseFacts
  <2>3. ASSUME NEW x \in Candidate
        PROVE  LET y == [x EXCEPT !.released = TRUE] IN
               /\ y.present = x.present /\ y.quorum = x.quorum
               /\ y.broadcast = x.broadcast /\ y.fireAt = x.fireAt
        BY DEF Candidate
  <2> QED BY <2>1, <2>2, <2>3
<1>7. CASE Sent
  <2>1. UNCHANGED cand
        BY <1>7, SentFacts DEF storeVars
  <2> QED BY <2>1
<1>8. CASE MarkBroadcast
      BY <1>8, SettleFacts
<1> QED BY <1>1, <1>3, <1>4, <1>5, <1>6, <1>7, <1>8, StepKinds

\* Only a spend that is there is exposed.
LEMMA ExposedStep ==
    ASSUME ~ SlowSends, TypeOK, ClockInv, KnownInv, FreshInv, SpendInv, FireInv, [Next]_vars,
           NEW r \in Requests, exposed'[r] # exposed[r]
    PROVE  /\ cand[SpendId(r)].present
           /\ r \in Hot => ledger[r].held
           /\ ReleasePartials \/ Sent \/ MarkBroadcast
           /\ UNCHANGED <<replay, wall>>
<1>1. CASE Quiet
      BY <1>1 DEF Quiet
<1>2. CASE Pruning
      BY <1>2 DEF Pruning, Removal
<1>3. ASSUME NEW k \in Carriers, SubmitReserves(k) PROVE FALSE
      BY <1>3 DEF SubmitReserves, Removal
<1>4. CASE Register
      BY <1>4 DEF Register
<1>5. CASE ReleasePartials
  <2>1. MayRelease(SpendId(r), wall) /\ r \in Hot
        BY <1>5, ReleaseFacts
  <2>2. r \in Hot => ledger[r].held
        BY <1>5, ReleaseIsMetered DEF SpendInv
  <2>3. UNCHANGED <<replay, wall>>
        BY <1>5 DEF ReleasePartials, logVars, clockVars
  <2> QED BY <1>5, <2>1, <2>2, <2>3 DEF MayRelease
<1>6. CASE Sent
  <2>1. fire.pc = "sending" /\ IsHot(fire.id) /\ r = fire.id[1]
        BY <1>6, SentFacts
  <2>2. fire.id = SpendId(r)
        BY <2>1, TypesAgain, IdFacts
  <2>3. UNCHANGED <<replay, wall>>
        BY <1>6 DEF Sent, logVars, clockVars
  <2> QED BY <1>6, <2>1, <2>2, <2>3 DEF FireInv
<1>7. CASE MarkBroadcast
  <2>1. fire.pc = "settle" /\ SpendId(r) = fire.id /\ ledger[r].held
        BY <1>7, SettleFacts
  <2>2. UNCHANGED <<replay, wall>>
        BY <1>7 DEF MarkBroadcast, logVars, clockVars
  <2> QED BY <1>7, <2>1, <2>2 DEF FireInv
<1> QED BY <1>1, <1>2, <1>3, <1>4, <1>5, <1>6, <1>7, StepKinds

\* r is known after the step.
IsKnown(r) == r \in replay' \/ ExpiryOf[r] <= wall'

LEMMA KnownAgain ==
    ASSUME ~ ClockRewinds, TypeOK, ClockInv, [Next]_vars, NEW r \in Requests, Known(r)
    PROVE  IsKnown(r)
<1>1. Known(r)'
      BY KnownStays
<1> QED BY <1>1 DEF Known, IsKnown

\* A selection is of a request that has been accepted.
LEMMA SweepIsKnown ==
    ASSUME ~ ClockRewinds, TypeOK, ClockInv, KnownInv, FreshInv, [Next]_vars, TypeOK',
           armed'.sweep
    PROVE  armed'.escape \in Requests /\ IsKnown(armed'.escape)
<1>1. CASE armed.sweep
  <2>1. armed'.escape = armed.escape /\ armed.escape \in Requests /\ Known(armed.escape)
        BY <1>1, OverlayStep DEF KnownInv
  <2>2. IsKnown(armed.escape)
        BY <2>1, KnownAgain
  <2> QED BY <2>1, <2>2
<1>2. CASE ~ armed.sweep
  <2>1. ASSUME NEW k \in Carriers, RecordIntent(k) PROVE FALSE
    <3> DEFINE no == FALSE
    <3>1. PICK seen \in 0 .. peak : armed' = Overlay(armed, cand, no, seen, EffectiveNow)
          BY <2>1 DEF RecordIntent
    <3>2. seen \in Nat /\ no \in BOOLEAN /\ EffectiveNow \in Nat
          /\ armed \in Overlays /\ cand \in Registries
          BY Types
    <3> DEFINE o == Overlay(armed, cand, no, seen, EffectiveNow)
    <3> HIDE DEF no
    <3>3. o.sweep = armed.sweep
          BY <3>2, OverlayFacts
    <3>4. armed' = o
          BY <3>1
    <3> HIDE DEF o
    <3> QED BY <1>2, <3>3, <3>4
  <2>2. ASSUME NEW k \in Carriers, Submit(k)
        PROVE  armed'.escape \in Requests /\ IsKnown(armed'.escape)
    <3>1. armed'.escape = ReqOf[k] /\ ReqOf[k] \in replay'
          BY <1>2, <2>2, SubmitFacts
    <3>2. ReqOf[k] \in Requests
          BY Types
    <3> QED BY <3>1, <3>2 DEF IsKnown
  <2>3. ASSUME NEW k \in Carriers, Confirm(k)
        PROVE  armed'.escape \in Requests /\ IsKnown(armed'.escape)
    <3>1. armed'.escape = intent[k].req /\ intent[k].req \in Requests
          BY <1>2, <2>3, ConfirmFacts
    <3>2. intent[k].req # NoReq
          BY <3>1, StoreAssumption
    <3>3. Known(intent[k].req)
          BY <3>2 DEF KnownInv
    <3>4. IsKnown(intent[k].req)
          BY <3>1, <3>3, KnownAgain
    <3> QED BY <3>1, <3>4
  <2>4. CASE Register
    <3>1. armed'.escape = ReqOf[sign.carrier] /\ replay' = replay \cup {ReqOf[sign.carrier]}
          BY <1>2, <2>4, RegisterFacts
    <3>2. ReqOf[sign.carrier] \in Requests
          BY Types
    <3> QED BY <3>1, <3>2 DEF IsKnown
  <2>5. \/ UNCHANGED armed
        \/ Register
        \/ \E k \in Carriers : RecordIntent(k) \/ Submit(k) \/ Confirm(k)
        BY DEF Next, vars, storeVars, RetireIntent, EvictOnPartial, Combine, Prune,
               LatchLockdown, StartPass, PollPending, ReleasePartials, Skip, Authorize,
               Sent, MarkBroadcast, EndPending, Tick, StepWall, RaiseHighWater
  <2> QED BY <1>2, <2>1, <2>2, <2>3, <2>4, <2>5
<1> QED BY <1>1, <1>2

LEMMA BoundIntent ==
    ASSUME NEW e \in Intents, NEW k \in Carriers, NEW j \in Carriers, NEW r \in Requests
    PROVE  [e EXCEPT ![k].req = r][j].req = IF j = k THEN r ELSE e[j].req
BY DEF Intents

\* A carrier's request has been accepted once the carrier is bound to it.
LEMMA IntentIsKnown ==
    ASSUME ~ ClockRewinds, TypeOK, ClockInv, KnownInv, [Next]_vars, NEW j \in Carriers,
           intent'[j].req # NoReq
    PROVE  IsKnown(intent'[j].req)
<1>1. CASE intent'[j].req = intent[j].req
  <2>1. intent[j].req \in Requests /\ Known(intent[j].req)
        BY <1>1, Types DEF KnownInv
  <2> QED BY <1>1, <2>1, KnownAgain
<1>2. ASSUME NEW k \in Carriers, Submit(k), intent'[j].req # intent[j].req
      PROVE  IsKnown(intent'[j].req)
  <2> DEFINE r == ReqOf[k]
  <2>1. \/ UNCHANGED intent
        \/ \E s \in BOOLEAN : intent' = Ended(intent, k, s)
        \/ r \in replay' /\ intent' = [Ended(intent, k, TRUE) EXCEPT ![k].req = r]
        BY <1>2, SubmitCases
  <2>2. r \in Requests /\ TRUE \in BOOLEAN /\ intent \in Intents
        BY Types
  <2> HIDE DEF r
  <2>3. \A s \in BOOLEAN : Ended(intent, k, s)[j].req = intent[j].req
        BY <2>2, EndedFacts
  <2>4. r \in replay' /\ intent' = [Ended(intent, k, TRUE) EXCEPT ![k].req = r]
        BY <1>2, <2>1, <2>3
  <2>5. intent'[j].req = r
    <3> DEFINE y == TRUE
               e == Ended(intent, k, y)
    <3>1. y \in BOOLEAN /\ intent' = [e EXCEPT ![k].req = r]
          BY <2>4
    <3> HIDE DEF y
    <3>2. e \in Intents /\ e[j].req = intent[j].req
          BY <2>2, <3>1, EndedFacts
    <3> HIDE DEF e
    <3>3. intent'[j].req = IF j = k THEN r ELSE e[j].req
          BY <2>2, <3>1, <3>2, BoundIntent
    <3> QED BY <1>2, <3>2, <3>3
  <2> QED BY <2>4, <2>5 DEF IsKnown
<1>3. ASSUME Register, intent'[j].req # intent[j].req PROVE IsKnown(intent'[j].req)
  <2> DEFINE k == sign.carrier
             r == ReqOf[k]
  <2>1. \/ \E s \in BOOLEAN : intent' = Ended(intent, k, s)
        \/ r \in replay' /\ intent' = [Ended(intent, k, TRUE) EXCEPT ![k].req = r]
        BY <1>3 DEF Register
  <2>2. k \in Carriers /\ r \in Requests /\ intent \in Intents
        BY Types
  <2> HIDE DEF r, k
  <2>3. \A s \in BOOLEAN : Ended(intent, k, s)[j].req = intent[j].req
        BY <2>2, EndedFacts
  <2>4. r \in replay' /\ intent' = [Ended(intent, k, TRUE) EXCEPT ![k].req = r]
        BY <1>3, <2>1, <2>3
  <2>5. intent'[j].req = r
    <3> DEFINE y == TRUE
               e == Ended(intent, k, y)
    <3>1. y \in BOOLEAN /\ intent' = [e EXCEPT ![k].req = r]
          BY <2>4
    <3> HIDE DEF y
    <3>2. e \in Intents /\ e[j].req = intent[j].req
          BY <2>2, <3>1, EndedFacts
    <3> HIDE DEF e
    <3>3. intent'[j].req = IF j = k THEN r ELSE e[j].req
          BY <2>2, <3>1, <3>2, BoundIntent
    <3> QED BY <1>3, <3>2, <3>3
  <2> QED BY <2>4, <2>5 DEF IsKnown
<1>4. ASSUME NEW k \in Carriers, RecordIntent(k), intent'[j].req # intent[j].req
      PROVE  FALSE
  <2>1. PICK seen \in 0 .. peak, phase \in {"recorded", "staged"} :
            intent' = [intent EXCEPT ![k] = [phase |-> phase, seen |-> seen, req |-> NoReq]]
        BY <1>4 DEF RecordIntent
  <2>2. intent'[j].req = NoReq \/ intent'[j].req = intent[j].req
        BY <2>1, Types DEF Intents
  <2> QED BY <1>4, <2>2
<1>5. ASSUME NEW k \in Carriers, Confirm(k) \/ RetireIntent(k)
      PROVE  intent'[j].req = intent[j].req
  <2>1. intent' = [intent EXCEPT ![k].phase = "gone"]
        BY <1>5 DEF Confirm, RetireIntent
  <2> QED BY <2>1, Types DEF Intents
<1>6. \/ UNCHANGED intent
      \/ Register
      \/ \E k \in Carriers : RecordIntent(k) \/ Submit(k) \/ Confirm(k) \/ RetireIntent(k)
      BY DEF Next, vars, storeVars, EvictOnPartial, Combine, Prune,
             LatchLockdown, StartPass, PollPending, ReleasePartials, Skip, Authorize,
             Sent, MarkBroadcast, EndPending, Tick, StepWall, RaiseHighWater
<1> QED BY <1>1, <1>2, <1>3, <1>4, <1>5, <1>6

LEMMA KnownStep ==
    ASSUME ~ SlowSends, ~ ClockRewinds, TypeOK, ClockInv, KnownInv, FreshInv, SpendInv,
           FireInv, [Next]_vars, TypeOK'
    PROVE  KnownInv'
<1>1. ASSUME NEW id \in Ids, cand'[id].present PROVE IsKnown(id[1])
  <2>1. id[1] \in Requests
        BY IdFacts
  <2>2. CASE cand[id].present
    <3>1. Known(id[1])
          BY <2>2 DEF KnownInv
    <3> QED BY <2>1, <3>1, KnownAgain
  <2>3. CASE ~ cand[id].present
    <3>1. RegisterAdds /\ id[1] = ReqOf[sign.carrier]
          BY <1>1, <2>3, CandStep
    <3> QED BY <3>1 DEF RegisterAdds, IsKnown
  <2> QED BY <2>2, <2>3
<1>2. armed'.sweep => armed'.escape \in Requests /\ IsKnown(armed'.escape)
      BY SweepIsKnown
<1>3. \A k \in Carriers : intent'[k].req # NoReq => IsKnown(intent'[k].req)
      BY IntentIsKnown
<1>4. ASSUME NEW r \in Requests, exposed'[r].held PROVE IsKnown(r)
  <2>1. CASE exposed'[r] = exposed[r]
    <3>1. Known(r)
          BY <1>4, <2>1 DEF KnownInv
    <3> QED BY <3>1, KnownAgain
  <2>2. CASE exposed'[r] # exposed[r]
    <3>1. cand[SpendId(r)].present /\ SpendId(r) \in Ids /\ SpendId(r)[1] = r
          BY <2>2, ExposedStep, IdFacts
    <3>2. Known(r)
          BY <3>1 DEF KnownInv
    <3> QED BY <3>2, KnownAgain
  <2> QED BY <2>1, <2>2
<1> QED BY <1>1, <1>2, <1>3, <1>4 DEF KnownInv, Known, IsKnown

\* Between the two reserves nothing else takes up the request.
LEMMA FreshStep ==
    ASSUME ~ SlowSends, ~ ClockRewinds, TypeOK, ClockInv, KnownInv, FreshInv, SpendInv,
           FireInv, [Next]_vars, TypeOK'
    PROVE  FreshInv'
<1> SUFFICES ASSUME sign'.pc = "reserved"
             PROVE  LET r == ReqOf[sign'.carrier] IN
                    /\ r \notin replay' /\ sign'.now < ExpiryOf[r]
                    /\ ~ cand'[SpendId(r)].present /\ ~ cand'[EscapeId(r)].present
                    /\ ~ exposed'[r].held
                    /\ armed'.sweep => armed'.escape # r
                    /\ sign'.owned = (r \in Hot)
    BY DEF FreshInv
<1>1. ASSUME NEW k \in Carriers, SubmitReserves(k)
      PROVE  LET r == ReqOf[sign'.carrier] IN
             /\ r \notin replay' /\ sign'.now < ExpiryOf[r]
             /\ ~ cand'[SpendId(r)].present /\ ~ cand'[EscapeId(r)].present
             /\ ~ exposed'[r].held
             /\ armed'.sweep => armed'.escape # r
             /\ sign'.owned = (r \in Hot)
  <2> DEFINE r == ReqOf[k]
  <2>1. /\ sign' = [pc |-> "reserved", carrier |-> k, owned |-> r \in Hot,
                    now |-> EffectiveNow, raw |-> wall]
        /\ r \notin replay' /\ EffectiveNow < ExpiryOf[r]
        /\ ~ cand[SpendId(r)].present /\ ~ cand[EscapeId(r)].present
        /\ ~ exposed[r].held
        /\ armed.sweep => armed.escape # r
        BY <1>1 DEF SubmitReserves
  <2>2. PICK S : Removal(S)
        BY <1>1 DEF SubmitReserves
  <2>3. UNCHANGED <<armed, exposed>>
        BY <2>2 DEF Removal
  <2>4. r \in Requests /\ SpendId(r) \in Ids /\ EscapeId(r) \in Ids
        BY Types, IdFacts
  <2>5. \A id \in Ids : cand'[id].present => cand[id].present
        BY <2>2, Types, RemovalFacts, Constants DEF Removal
  <2>6. sign'.carrier = k /\ sign'.now = EffectiveNow /\ sign'.owned = (r \in Hot)
        BY <2>1
  <2> QED BY <2>1, <2>3, <2>4, <2>5, <2>6
<1>2. CASE UNCHANGED sign
  <2> DEFINE r == ReqOf[sign.carrier]
  <2>1. /\ r \notin replay /\ sign.now < ExpiryOf[r]
        /\ ~ cand[SpendId(r)].present /\ ~ cand[EscapeId(r)].present
        /\ ~ exposed[r].held
        /\ armed.sweep => armed.escape # r
        /\ sign.owned = (r \in Hot)
        BY <1>2 DEF FreshInv
  <2>2. sign.pc = "reserved"
        BY <1>2
  <2>3. UNCHANGED <<armed, replay>>
        BY <1>2, <2>2, RestFacts DEF Next, vars, storeVars, logVars, RecordIntent, Submit,
               Confirm, Register, RetireIntent, EvictOnPartial, Combine, Prune,
               LatchLockdown, StartPass, PollPending, ReleasePartials, Skip, Authorize,
               Sent, MarkBroadcast, EndPending, Tick, StepWall, RaiseHighWater
  <2>4. r \in Requests /\ SpendId(r) \in Ids /\ EscapeId(r) \in Ids
        BY Types, IdFacts
  <2>5. ~ Register
        BY <1>2, <2>2, RestFacts DEF Register
  <2>6. ~ cand'[SpendId(r)].present /\ ~ cand'[EscapeId(r)].present
        BY <2>1, <2>4, <2>5, CandStep
  <2>7. exposed'[r] = exposed[r]
        BY <2>1, <2>4, ExposedStep
  <2> HIDE DEF r
  <2>8. sign' = sign
        BY <1>2
  <2> QED BY <2>1, <2>3, <2>6, <2>7, <2>8 DEF r
<1>3. UNCHANGED sign \/ Register \/ \E k \in Carriers : Submit(k)
      BY DEF Next, vars, RecordIntent,
             Confirm, RetireIntent, EvictOnPartial, Combine, Prune,
             LatchLockdown, StartPass, PollPending, ReleasePartials, Skip, Authorize,
             Sent, MarkBroadcast, EndPending, Tick, StepWall, RaiseHighWater
<1>4. ~ Register
      BY RestFacts DEF Register
<1>5. ASSUME NEW k \in Carriers, Submit(k) PROVE UNCHANGED sign \/ SubmitReserves(k)
      BY <1>5, SubmitKinds DEF Quiet, SubmitRefuses
<1> QED BY <1>1, <1>2, <1>3, <1>4, <1>5

-----------------------------------------------------------------------------
(* The budget.                                                               *)

\* Fewer reservations, less outflow.
LEMMA LessHeld ==
    ASSUME NEW l, NEW m, \A q \in Requests : m[q].held => l[q].held,
           SumOf[HeldIn(l)] <= MaxPerWindowSat
    PROVE  SumOf[HeldIn(m)] <= MaxPerWindowSat
<1>1. HeldIn(l) \in SUBSET Requests /\ HeldIn(m) \in SUBSET HeldIn(l)
      /\ HeldIn(m) \in SUBSET Requests
      BY DEF HeldIn
<1>2. SumOf[HeldIn(m)] <= SumOf[HeldIn(l)]
      BY <1>1, SumOfPart
<1>3. SumOf[HeldIn(m)] \in Nat /\ SumOf[HeldIn(l)] \in Nat /\ MaxPerWindowSat \in Nat
      BY <1>1, SumOfType, Bounds
<1> QED BY <1>2, <1>3

\* A reservation is inserted only within the budget.
LEMMA InsertedFits ==
    ASSUME NEW l \in Ledgers, NEW r \in Requests, mono \in Time,
           ReserveVerdict(l, r) = "inserted"
    PROVE  SumOf[HeldIn(Reserved(l, r))] <= MaxPerWindowSat
<1>1. ~ l[r].held /\ ~ (SumOf[HeldIn(l)] + Outflow[r] > MaxPerWindowSat)
      BY DEF ReserveVerdict
<1>2. HeldIn(l) \in SUBSET Requests /\ r \notin HeldIn(l)
      BY <1>1 DEF HeldIn
<1>3. HeldIn(Reserved(l, r)) = HeldIn(l) \cup {r}
  <2> DEFINE m == Reserved(l, r)
  <2>1. m[r].held /\ \A q \in Requests \ {r} : m[q] = l[q]
        BY ReserveFacts
  <2> HIDE DEF m
  <2>2. HeldIn(m) = HeldIn(l) \cup {r}
        BY <2>1 DEF HeldIn
  <2> QED BY <2>2 DEF m
<1>4. SumOf[HeldIn(l) \cup {r}] = SumOf[HeldIn(l)] + Outflow[r]
      BY <1>2, SumOfAdds
<1>5. SumOf[HeldIn(l)] \in Nat /\ Outflow[r] \in Nat /\ MaxPerWindowSat \in Nat
      BY <1>2, SumOfType, Bounds, StoreAssumption
<1> QED BY <1>1, <1>3, <1>4, <1>5

LEMMA BudgetStep ==
    ASSUME ~ SlowSends, TypeOK, ClockInv, KnownInv, FreshInv, SpendInv, BudgetInv,
           [Next]_vars
    PROVE  BudgetInv'
<1>1. ASSUME \A q \in Requests : ledger'[q].held => ledger[q].held
      PROVE  BudgetInv'
      BY <1>1, LessHeld DEF BudgetInv
<1>2. ASSUME NEW S, NEW q \in Requests, Metered(q, S) PROVE ledger'[q].held => ledger[q].held
      BY <1>2, Types, RemovalFacts, Constants DEF Metered
<1>3. CASE Quiet
      BY <1>1, <1>3 DEF Quiet
<1>4. CASE Pruning
      BY <1>1, <1>2, <1>4 DEF Pruning
<1>5. ASSUME NEW k \in Carriers, SubmitReserves(k) PROVE BudgetInv'
  <2> DEFINE r == ReqOf[k]
             met == LedgerPruned(PrunedRefund(EffectiveNow), wall)
  <2>1. r \in Requests /\ mono \in Time /\ EffectiveNow \in Nat
        BY Types
  <2>2. CASE r \in Hot
    <3>1. ReserveVerdict(met, r) = "inserted" /\ ledger' = Reserved(met, r)
          BY <1>5, <2>2 DEF SubmitReserves
    <3>2. met \in Ledgers
          BY <2>1, SubmitLedger
    <3> HIDE DEF r, met
    <3>3. SumOf[HeldIn(Reserved(met, r))] <= MaxPerWindowSat
          BY <2>1, <3>1, <3>2, InsertedFits
    <3>4. SumOf[HeldIn(ledger')] <= MaxPerWindowSat
          BY <3>1, <3>3
    <3> QED BY <3>4 DEF BudgetInv, HeldIn
  <2>3. CASE r \notin Hot
    <3>1. \E S : \A q \in Requests : Metered(q, S)
          BY <1>5, <2>3 DEF SubmitReserves
    <3> QED BY <1>1, <1>2, <3>1
  <2> QED BY <2>2, <2>3
<1>6. CASE Register
  <2> DEFINE r == ReqOf[sign.carrier]
             met == LedgerPruned(ledger, sign.raw)
  <2>1. r \in Requests /\ mono \in Time /\ ledger \in Ledgers
        BY Types
  <2>2. ASSUME NEW q \in Requests, AgedBy(q, sign.raw) PROVE ledger'[q].held => ledger[q].held
        BY <2>2, Constants DEF AgedBy
  <2>3. RegisterRefuses \/ RegisterAdds
        BY <1>6, RegisterKinds
  <2>4. CASE RegisterRefuses
    <3>1. /\ \A q \in Requests \ {r} : AgedBy(q, sign.raw)
          /\ ledger'[r] = NoReservation \/ ledger'[r] = ledger[r]
          BY <2>4 DEF RegisterRefuses
    <3> HIDE DEF r
    <3> QED BY <1>1, <2>2, <3>1, Constants
  <2>5. CASE RegisterAdds
    <3>1. \/ ledger' = ledger \/ ledger' = met
          \/ ledger' = Reserved(met, r) /\ ReserveVerdict(met, r) = "inserted"
          BY <2>5 DEF RegisterAdds
    <3>2. met \in Ledgers /\ \A q \in Requests : met[q].held => ledger[q].held
          BY <2>1, PruneFacts, Constants
    <3> HIDE DEF r, met
    <3>3. CASE ledger' = ledger \/ ledger' = met
          BY <1>1, <3>2, <3>3
    <3>4. CASE ledger' = Reserved(met, r) /\ ReserveVerdict(met, r) = "inserted"
      <4>1. SumOf[HeldIn(Reserved(met, r))] <= MaxPerWindowSat
            BY <2>1, <3>2, <3>4, InsertedFits
      <4>2. SumOf[HeldIn(ledger')] <= MaxPerWindowSat
            BY <3>4, <4>1
      <4> QED BY <4>2 DEF BudgetInv, HeldIn
    <3> QED BY <3>1, <3>3, <3>4
  <2> QED BY <2>3, <2>4, <2>5
<1>7. CASE ReleasePartials \/ Sent
  <2>1. UNCHANGED ledger
        BY <1>7 DEF ReleasePartials, Sent, storeVars
  <2> QED BY <1>1, <2>1
<1>8. CASE MarkBroadcast
      BY <1>1, <1>8, SettleFacts, Constants
<1> QED BY <1>3, <1>4, <1>5, <1>6, <1>7, <1>8, StepKinds

-----------------------------------------------------------------------------
(* The overlay: Lockdown comes first, and the sweep can fire.                *)

\* While the wall clock is not stepped, all clocks show the same.
LEMMA OneClock ==
    ASSUME TypeOK, ClockInv, steps = 0
    PROVE  EffectiveNow = wall /\ sign.now <= wall
<1>1. wall = peak /\ highWater <= peak /\ sign.now <= peak
      BY DEF ClockInv
<1>2. EffectiveNow \in {wall, highWater} /\ wall <= EffectiveNow
      /\ wall \in Nat /\ highWater \in Nat /\ EffectiveNow \in Nat
      BY Types
<1> QED BY <1>1, <1>2

LEMMA MostGrows ==
    ASSUME NEW a \in Nat, NEW b \in Nat, NEW c \in Nat, b <= c
    PROVE  Most(a, b) <= Most(a, c) /\ Most(a, b) \in Nat /\ Most(a, c) \in Nat
BY DEF Most

LEMMA WallUnstepped ==
    ASSUME TypeOK, [Next]_vars, steps' = 0
    PROVE  steps = 0 /\ wall' \in Nat /\ wall <= wall'
<1>1. wall \in Nat /\ steps \in Nat
      BY Types, TypesAgain
<1>2. CASE UNCHANGED <<wall, steps>>
      BY <1>1, <1>2
<1>3. CASE Tick
      BY <1>1, <1>3 DEF Tick
<1>4. ~ StepWall
      BY <1>1 DEF StepWall
<1>5. UNCHANGED <<wall, steps>> \/ Tick \/ StepWall
      BY DEF Next, vars, clockVars, RecordIntent, Submit, Confirm, RetireIntent,
             EvictOnPartial, Combine, Register, Prune, LatchLockdown, StartPass,
             PollPending, ReleasePartials, Skip, Authorize, Sent, MarkBroadcast,
             EndPending, RaiseHighWater
<1> QED BY <1>2, <1>3, <1>4, <1>5

LEMMA LockdownStep ==
    ASSUME ~ SlowSends, TypeOK, ClockInv, KnownInv, FreshInv, SpendInv,
           LockdownBeforeHoldEnds, [Next]_vars, TypeOK'
    PROVE  LockdownBeforeHoldEnds'
<1> SUFFICES ASSUME armed'.active, steps' = 0, NEW r \in Hot,
                    cand'[SpendId(r)].present, ~ cand'[SpendId(r)].broadcast,
                    ExpiryOf[r] >= wall'
             PROVE  armed'.fireAt <= Most(Monus(cand'[SpendId(r)].fireAt, EpsilonSecs), wall')
    BY DEF LockdownBeforeHoldEnds
<1> DEFINE i == SpendId(r)
           m == Monus(cand'[i].fireAt, EpsilonSecs)
<1>1. steps = 0 /\ wall' \in Nat /\ wall <= wall'
      BY WallUnstepped
<1>2. /\ r \in Requests /\ i \in Ids /\ IsHot(i) /\ i[1] = r /\ ~ IsEscape(i)
      /\ ExpiryOf[r] \in Nat /\ wall \in Nat
      BY HotFacts
<1>3. /\ cand'[i].fireAt \in Nat /\ armed'.fireAt \in Nat /\ armed.fireAt \in Nat
      /\ armed.active \in BOOLEAN
  <2>1. cand' \in [Ids -> Candidate]
        BY DEF TypeOK
  <2>2. cand'[i] \in Candidate
        BY <1>2, <2>1
  <2>3. armed'.fireAt \in Nat
        BY DEF TypeOK
  <2>4. armed.fireAt \in Nat /\ armed.active \in BOOLEAN
        BY Types DEF Overlays
  <2> QED BY <2>2, <2>3, <2>4 DEF Candidate
<1>4. m \in Nat
      BY <1>3, Bounds, Arithmetic
<1>5. EffectiveNow = wall /\ sign.now <= wall /\ sign.now \in Nat
      BY <1>1, OneClock, Types
<1>6. Most(m, wall) <= Most(m, wall') /\ Most(m, wall) \in Nat /\ Most(m, wall') \in Nat
  <2> HIDE DEF m
  <2> QED BY <1>1, <1>2, <1>4, MostGrows
<1>7. ASSUME armed'.fireAt <= Most(m, wall) PROVE armed'.fireAt <= Most(m, wall')
  <2> HIDE DEF m
  <2> QED BY <1>3, <1>6, <1>7
<1>8. ExpiryOf[r] >= wall
      BY <1>1, <1>2
<1>9. CASE Register /\ RegisterAdds /\ r = ReqOf[sign.carrier]
  <2>1. armed.active /\ armed'.fireAt <= Most(m, sign.now)
        BY <1>9 DEF RegisterAdds
  <2>2. Most(m, sign.now) <= Most(m, wall) /\ Most(m, sign.now) \in Nat
    <3> HIDE DEF m
    <3> QED BY <1>2, <1>4, <1>5, MostGrows
  <2>3. armed'.fireAt <= Most(m, wall)
    <3> HIDE DEF m
    <3> QED BY <1>3, <1>6, <2>1, <2>2
  <2> QED BY <1>7, <2>3
<1>10. CASE ~ (Register /\ RegisterAdds /\ r = ReqOf[sign.carrier])
  <2>1. cand[i].present /\ ~ cand[i].broadcast /\ cand'[i].fireAt = cand[i].fireAt
        BY <1>2, <1>10, CandStep
  <2>2. CASE armed.active
    <3>1. armed.fireAt <= Most(m, wall)
          BY <1>1, <1>8, <2>1, <2>2 DEF LockdownBeforeHoldEnds
    <3>2. armed'.fireAt <= armed.fireAt
          BY <2>2, OverlayStep
    <3>3. armed'.fireAt <= Most(m, wall)
      <4> HIDE DEF m
      <4> QED BY <1>3, <1>6, <3>1, <3>2
    <3> QED BY <1>7, <3>3
  <2>3. CASE ~ armed.active
    <3>1. ASSUME NEW k \in Carriers, Confirm(k) PROVE armed'.fireAt <= Most(m, wall)
          BY <1>2, <1>5, <1>8, <2>1, <2>3, <3>1, ConfirmFacts
    <3>2. ASSUME NEW k \in Carriers, RecordIntent(k) PROVE FALSE
      <4> DEFINE no == FALSE
      <4>1. PICK seen \in 0 .. peak : armed' = Overlay(armed, cand, no, seen, EffectiveNow)
            BY <3>2 DEF RecordIntent
      <4>2. seen \in Nat /\ no \in BOOLEAN /\ EffectiveNow \in Nat /\ ~ no
            /\ armed \in Overlays /\ cand \in Registries
            BY Types
      <4> DEFINE o == Overlay(armed, cand, no, seen, EffectiveNow)
      <4> HIDE DEF no
      <4>3. o.active = (armed.active \/ no)
            BY <4>2, OverlayFacts
      <4>4. armed' = o
            BY <4>1
      <4> HIDE DEF o
      <4> QED BY <2>3, <4>2, <4>3, <4>4
    <3>3. ASSUME NEW k \in Carriers, Submit(k) PROVE FALSE
          BY <2>3, <3>3, SubmitFacts
    <3>4. CASE Register
          BY <2>3, <3>4, RegisterFacts
    <3>5. \/ UNCHANGED armed
          \/ Register
          \/ \E k \in Carriers : RecordIntent(k) \/ Submit(k) \/ Confirm(k)
          BY DEF Next, vars, storeVars, RetireIntent, EvictOnPartial, Combine, Prune,
                 LatchLockdown, StartPass, PollPending, ReleasePartials, Skip, Authorize,
                 Sent, MarkBroadcast, EndPending, Tick, StepWall, RaiseHighWater
    <3> QED BY <1>7, <2>3, <3>1, <3>2, <3>3, <3>4, <3>5
  <2> QED BY <1>3, <2>2, <2>3
<1> QED BY <1>9, <1>10

LEMMA SweepStep ==
    ASSUME ~ SlowSends, TypeOK, ClockInv, KnownInv, FreshInv, SpendInv, SweepCanFire,
           [Next]_vars, TypeOK'
    PROVE  SweepCanFire'
<1> SUFFICES ASSUME armed'.sweep, cand'[EscapeId(armed'.escape)].present
             PROVE  cand'[EscapeId(armed'.escape)].quorum
    BY DEF SweepCanFire
<1>1. CASE armed.sweep
  <2> DEFINE e == armed.escape
             i == EscapeId(e)
  <2>1. armed'.escape = e
        BY <1>1, OverlayStep
  <2>2. e \in Requests
        BY <1>1 DEF KnownInv
  <2>3. i \in Ids /\ i[1] = e
        BY <2>2, IdFacts
  <2>4. ~ (Register /\ e = ReqOf[sign.carrier])
        BY <1>1 DEF FreshInv, Register
  <2>5. cand'[i].present
        BY <2>1
  <2>6. cand[i].present /\ (cand[i].quorum => cand'[i].quorum)
        BY <2>3, <2>4, <2>5, CandStep
  <2>7. cand[i].quorum
        BY <1>1, <2>6 DEF SweepCanFire
  <2> QED BY <2>1, <2>6, <2>7
<1>2. CASE ~ armed.sweep
  <2>1. ASSUME NEW k \in Carriers, RecordIntent(k) PROVE FALSE
    <3> DEFINE no == FALSE
    <3>1. PICK seen \in 0 .. peak : armed' = Overlay(armed, cand, no, seen, EffectiveNow)
          BY <2>1 DEF RecordIntent
    <3>2. seen \in Nat /\ no \in BOOLEAN /\ EffectiveNow \in Nat
          /\ armed \in Overlays /\ cand \in Registries
          BY Types
    <3> DEFINE o == Overlay(armed, cand, no, seen, EffectiveNow)
    <3> HIDE DEF no
    <3>3. o.sweep = armed.sweep
          BY <3>2, OverlayFacts
    <3>4. armed' = o
          BY <3>1
    <3> HIDE DEF o
    <3> QED BY <1>2, <3>3, <3>4
  <2>2. ASSUME NEW k \in Carriers, Submit(k) PROVE cand'[EscapeId(armed'.escape)].quorum
    <3>1. /\ armed'.escape = ReqOf[k] /\ EscapeLive(cand, ReqOf[k])
          /\ \A id \in Ids : cand'[id].quorum = cand[id].quorum
          BY <1>2, <2>2, SubmitFacts
    <3>2. EscapeId(ReqOf[k]) \in Ids
          BY Types, IdFacts
    <3> QED BY <3>1, <3>2 DEF EscapeLive
  <2>3. ASSUME NEW k \in Carriers, Confirm(k) PROVE cand'[EscapeId(armed'.escape)].quorum
    <3> DEFINE e == intent[k].req
    <3>1. armed'.escape = e /\ e \in Requests
          BY <1>2, <2>3, ConfirmFacts
    <3>2. EscapeId(e) \in Ids /\ EscapeId(e)[1] = e
          BY <3>1, IdFacts
    <3>3. cand'[EscapeId(e)].present
          BY <3>1
    <3> QED BY <2>3, <3>1, <3>2, <3>3, ConfirmFacts
  <2>4. CASE Register
    <3>1. RegisterRefuses \/ RegisterAdds
          BY <2>4, RegisterKinds
    <3> QED BY <1>2, <3>1 DEF RegisterRefuses, RegisterAdds
  <2>5. \/ UNCHANGED armed
        \/ Register
        \/ \E k \in Carriers : RecordIntent(k) \/ Submit(k) \/ Confirm(k)
        BY DEF Next, vars, storeVars, RetireIntent, EvictOnPartial, Combine, Prune,
               LatchLockdown, StartPass, PollPending, ReleasePartials, Skip, Authorize,
               Sent, MarkBroadcast, EndPending, Tick, StepWall, RaiseHighWater
  <2> QED BY <1>2, <2>1, <2>2, <2>3, <2>4, <2>5
<1> QED BY <1>1, <1>2

-----------------------------------------------------------------------------
(* The theorems about the registry and the ledger.                           *)

LEMMA StoreInit == Init => StoreInv
<1> SUFFICES ASSUME Init PROVE StoreInv
    OBVIOUS
<1>1. TypeOK
      BY StoreInitType
<1>2. /\ wall = 0 /\ peak = 0 /\ highWater = 0 /\ steps = 0
      /\ cand = [id \in Ids |-> Gone] /\ ledger = [r \in Requests |-> NoReservation]
      /\ exposed = [r \in Requests |-> NoReservation]
      /\ ~ armed.active /\ ~ armed.sweep
      /\ intent = [k \in Carriers |-> NoIntent] /\ sign = Free /\ fire = Resting
      /\ pending = {}
      BY DEF Init
<1>3. /\ \A id \in Ids : ~ cand[id].present
      /\ \A r \in Requests : ~ ledger[r].held /\ ~ exposed[r].held
      /\ \A k \in Carriers : intent[k].req = NoReq
      /\ sign.pc = "free" /\ sign.now = 0 /\ sign.raw = 0 /\ fire.pc = "idle"
      BY <1>2, Constants, RestFacts DEF NoIntent
<1>4. \A r \in Requests : ExpiryOf[r] \in Nat
      BY StoreAssumption
<1>5. ClockInv
      BY <1>2, <1>3, <1>4 DEF ClockInv
<1>6. KnownInv
      BY <1>2, <1>3 DEF KnownInv
<1>7. FreshInv /\ FireInv
      BY <1>2, <1>3 DEF FreshInv, FireInv
<1>8. SpendInv
  <2> SUFFICES ASSUME NEW r \in Hot PROVE SpendIsMetered(r)
      BY DEF SpendInv
  <2>1. r \in Requests /\ SpendId(r) \in Ids
        BY <1>1, HotFacts
  <2> QED BY <1>3, <2>1 DEF SpendIsMetered, ExposedInWindow
<1>9. BudgetInv
  <2>1. HeldIn(ledger) = {}
        BY <1>3 DEF HeldIn
  <2> QED BY <2>1, SumOfEmpty, Bounds DEF BudgetInv
<1>10. LockdownBeforeHoldEnds /\ SweepCanFire
       BY <1>2 DEF LockdownBeforeHoldEnds, SweepCanFire
<1> QED BY <1>1, <1>5, <1>6, <1>7, <1>8, <1>9, <1>10 DEF StoreInv

LEMMA StoreStep ==
    ASSUME ~ SlowSends, ~ ClockRewinds, StoreInv, [Next]_vars
    PROVE  StoreInv'
<1>1. /\ TypeOK /\ ClockInv /\ KnownInv /\ FreshInv /\ SpendInv /\ FireInv
      /\ BudgetInv /\ LockdownBeforeHoldEnds /\ SweepCanFire
      BY DEF StoreInv
<1>2. TypeOK'
      BY <1>1, TypeStep
<1>3. ClockInv'
      BY <1>1, ClockStep
<1>4. KnownInv'
      BY <1>1, <1>2, KnownStep
<1>5. FreshInv'
      BY <1>1, <1>2, FreshStep
<1>6. SpendInv'
      BY <1>1, <1>2, SpendStep
<1>7. FireInv'
      BY <1>1, <1>2, FireStep
<1>8. BudgetInv'
      BY <1>1, BudgetStep
<1>9. LockdownBeforeHoldEnds'
      BY <1>1, <1>2, LockdownStep
<1>10. SweepCanFire'
       BY <1>1, <1>2, SweepStep
<1> QED BY <1>2, <1>3, <1>4, <1>5, <1>6, <1>7, <1>8, <1>9, <1>10 DEF StoreInv

\* The inductive invariant, for a node whose sends end before their candidates do
\* and whose wall clock is never set back over an expiry it had reached.
THEOREM StoreInductive ==
    ASSUME ~ SlowSends, ~ ClockRewinds PROVE Spec => []StoreInv
<1>1. StoreInv /\ [Next]_vars => StoreInv'
      BY StoreStep
<1> QED BY <1>1, StoreInit, PTL DEF Spec

\* The store's invariant (register_candidates, release_if_unexposed, the safety
\* overlay): no reservation leaks, Lockdown comes before the Hold of every frozen
\* spend ends, and the sweep is on an escape that has its holders.
THEOREM CandidateInvHolds ==
    ASSUME ~ SlowSends, ~ ClockRewinds PROVE Spec => []CandidateInv
<1>1. StoreInv => CandidateInv
  <2> SUFFICES ASSUME StoreInv PROVE CandidateInv
      OBVIOUS
  <2>1. TypeOK /\ SpendInv /\ LockdownBeforeHoldEnds /\ SweepCanFire
        BY DEF StoreInv
  <2>2. ReservationsHaveSpends
        BY <2>1 DEF SpendInv, SpendIsMetered, ReservationsHaveSpends
  <2> QED BY <2>1, <2>2 DEF CandidateInv
<1> QED BY <1>1, StoreInductive, PTL

\* The aggregate bound of the Hot budget (HotLedger::reserve, register_candidates):
\* what this node has let go within a window and what it may yet let go stays within
\* max_per_window_sat, for any number of requests, carriers and reservations.
THEOREM VelocityBoundHolds ==
    ASSUME ~ SlowSends, ~ ClockRewinds PROVE Spec => []VelocityBound
<1>1. StoreInv => VelocityBound
  <2> SUFFICES ASSUME StoreInv PROVE VelocityBound
      OBVIOUS
  <2> DEFINE V == {r \in Hot : Exposable(r) \/ ExposedInWindow(r)}
  <2>1. TypeOK /\ SpendInv /\ BudgetInv
        BY DEF StoreInv
  <2>2. ASSUME NEW r \in V PROVE r \in HeldIn(ledger)
    <3>1. r \in Hot /\ SpendIsMetered(r)
          BY <2>1, <2>2 DEF SpendInv
    <3>2. CASE Exposable(r)
      <4>1. /\ cand[SpendId(r)].present /\ ~ cand[SpendId(r)].broadcast
            /\ wall <= cand[SpendId(r)].deadline
            BY <3>2 DEF Exposable
      <4>2. cand[SpendId(r)].deadline <= ExpiryOf[r]
            BY <3>1, <4>1 DEF SpendIsMetered
      <4>3. wall <= ExpiryOf[r] /\ r \in Requests
            BY <2>1, <3>1, <4>1, <4>2, HotFacts
      <4>4. ledger[r].held
            BY <3>1, <4>1, <4>3 DEF SpendIsMetered
      <4> QED BY <4>3, <4>4 DEF HeldIn
    <3>3. CASE ExposedInWindow(r)
      <4>1. ledger[r].held
            BY <3>1, <3>3 DEF SpendIsMetered, ExposedInWindow
      <4>2. r \in Requests
            BY <2>1, <3>1, HotFacts
      <4> QED BY <4>1, <4>2 DEF HeldIn
    <3> QED BY <2>2, <3>2, <3>3
  <2>3. HeldIn(ledger) \in SUBSET Requests
        BY DEF HeldIn
  <2> HIDE DEF V
  <2>4. V \in SUBSET HeldIn(ledger) /\ V \in SUBSET Requests
        BY <2>2, <2>3
  <2>5. SumOf[V] <= SumOf[HeldIn(ledger)]
        BY <2>3, <2>4, SumOfPart
  <2>6. SumOf[V] \in Nat /\ SumOf[HeldIn(ledger)] \in Nat /\ MaxPerWindowSat \in Nat
        BY <2>3, <2>4, SumOfType, Bounds
  <2>7. SumOf[V] <= MaxPerWindowSat
        BY <2>1, <2>5, <2>6 DEF BudgetInv
  <2> QED BY <2>7 DEF VelocityBound, V
<1> QED BY <1>1, StoreInductive, PTL

\* A reservation whose spend has left the node goes only when it is dead.
LEMMA KeepsReservation ==
    ASSUME ~ SlowSends, StoreInv, [Next]_vars, NEW r \in Hot,
           ledger[r].held, ~ ledger'[r].held, exposed[r].held
    PROVE  ~ IsLive(r, ledger, wall)
<1>1. TypeOK /\ ClockInv /\ KnownInv /\ FreshInv /\ SpendInv /\ SpendIsMetered(r)
      BY DEF StoreInv, SpendInv
<1>2. r \in Requests /\ SpendId(r) \in Ids
      BY <1>1, HotFacts
<1>3. ASSUME NEW S, Removal(S), Metered(r, S) PROVE ~ IsLive(r, ledger, wall)
  <2>1. \/ SpendId(r) \in S /\ UnexposedHot(SpendId(r), cand)
        \/ ~ IsLive(r, ledger, wall)
        BY <1>1, <1>2, <1>3, Types, RemovalFacts DEF Metered
  <2>2. SpendId(r) \in S =>
            cand[SpendId(r)].present /\ ~ (fire.pc = "settle" /\ fire.id = SpendId(r))
        BY <1>3 DEF Removal
  <2>3. ~ (SpendId(r) \in S /\ UnexposedHot(SpendId(r), cand))
        BY <1>1, <2>2 DEF UnexposedHot, SpendIsMetered
  <2> QED BY <2>1, <2>3
<1>4. CASE Quiet
      BY <1>4 DEF Quiet
<1>5. CASE Pruning
      BY <1>2, <1>3, <1>5 DEF Pruning
<1>6. ASSUME NEW k \in Carriers, SubmitReserves(k) PROVE ~ IsLive(r, ledger, wall)
  <2>1. r # ReqOf[k]
        BY <1>6 DEF SubmitReserves
  <2>2. PICK S : Removal(S) /\ \A q \in Requests \ {ReqOf[k]} : Metered(q, S)
        BY <1>6 DEF SubmitReserves
  <2> QED BY <1>2, <1>3, <2>1, <2>2
<1>7. CASE Register
  <2>1. sign.pc = "reserved" /\ (RegisterRefuses \/ RegisterAdds)
        BY <1>1, <1>7, RegisterKinds
  <2>2. r # ReqOf[sign.carrier]
        BY <1>1, <2>1 DEF FreshInv
  <2>3. AgedBy(r, sign.raw)
        BY <1>2, <2>1, <2>2 DEF RegisterRefuses, RegisterAdds
  <2>4. ~ IsLive(r, ledger, sign.raw)
        BY <2>3 DEF AgedBy
  <2> QED BY <1>1, <1>2, <2>4, RawAgrees
<1>8. CASE ReleasePartials \/ Sent
  <2>1. UNCHANGED ledger
        BY <1>8 DEF ReleasePartials, Sent, storeVars
  <2> QED BY <2>1
<1>9. CASE MarkBroadcast
  <2>1. /\ fire.pc = "settle" /\ SpendId(r) # fire.id /\ cand[SpendId(r)].present
        /\ UnexposedHot(SpendId(r), cand)
        BY <1>1, <1>2, <1>9, SettleFacts
  <2> QED BY <1>1, <2>1 DEF UnexposedHot, SpendIsMetered
<1> QED BY <1>1, <1>4, <1>5, <1>6, <1>7, <1>8, <1>9, StepKinds

\* The Hot ledger (release_partials, with_broadcast_authorization, mark_broadcast;
\* release_if_unexposed, unwind_hot_reservation): a hot spend leaves this node only
\* under a reservation, and that reservation is then kept until it ages out.
THEOREM HotStaysMeteredHolds ==
    ASSUME ~ SlowSends, ~ ClockRewinds PROVE Spec => HotStaysMetered
<1>1. StoreInv /\ [Next]_vars =>
          [\A r \in Hot : exposed'[r] # exposed[r] => ledger[r].held]_vars
  <2> SUFFICES ASSUME StoreInv, [Next]_vars, NEW r \in Hot, exposed'[r] # exposed[r]
               PROVE  ledger[r].held
      OBVIOUS
  <2>1. TypeOK /\ ClockInv /\ KnownInv /\ FreshInv /\ SpendInv /\ FireInv
        BY DEF StoreInv
  <2>2. r \in Requests
        BY <2>1, HotFacts
  <2> QED BY <2>1, <2>2, ExposedStep
<1>2. StoreInv /\ [Next]_vars =>
          [\A r \in Hot :
              /\ ledger[r].held /\ ~ ledger'[r].held
              /\ exposed[r].held /\ exposed[r].at = ledger[r].at
              => ~ IsLive(r, ledger, wall)]_vars
      BY KeepsReservation
<1> QED BY <1>1, <1>2, StoreInductive, PTL
        DEF Spec, HotStaysMetered, BroadcastIsMetered, ExposedKeepsReservation
=============================================================================
