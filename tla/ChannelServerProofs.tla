------------------------ MODULE ChannelServerProofs ------------------------
(***************************************************************************)
(* Proofs about the delivery over POST /channel, for any peers, alerts,    *)
(* permits, quotas, windows and bounds: the event queue of watchtower.rs,  *)
(* the ingress guards of channel.rs, and what a sender concludes from a    *)
(* replayed nonce.                                                         *)
(***************************************************************************)
EXTENDS ChannelServer, FiniteSetTheorems, WellFoundedInduction, TLAPS

\* A set of naturals that is not empty has a least element.
LEMMA LeastNatural ==
    ASSUME NEW T, T \subseteq Nat, T # {}
    PROVE  \E m \in T : \A y \in T : m <= y
<1> DEFINE R == OpToRel(<, Nat)
<1>1. IsWellFoundedOn(R, Nat)
  BY NatLessThanWellFounded
<1>2. \A x, y \in Nat : y < x => <<y, x>> \in R
  BY DEF OpToRel
<1> HIDE DEF R
<1>3. PICK m \in T : \A y \in T : ~ (<<y, m>> \in R)
  BY <1>1, WFMin
<1>4. \A y \in T : ~ (y < m)
  BY <1>2, <1>3
<1> QED
  BY <1>3, <1>4

-----------------------------------------------------------------------------
(* The event queue: what is kept.                                            *)

Entry == [seq : Nat, key : Keys, count : Nat]

OneSeq(es) == \A e, f \in es : e.seq = f.seq => e = f
OneKey(es) == \A e, f \in es : e.key = f.key => e = f

\* The loop of append pops the oldest entry and no other.
LEMMA KeptOf ==
    ASSUME NEW es \in SUBSET Entry, IsFiniteSet(es), Cardinality(es) <= Cap + 1,
           OneSeq(es), NEW n \in Nat, \A e \in es : e.seq <= n
    PROVE  /\ Kept(es) \subseteq es /\ IsFiniteSet(Kept(es)) /\ Cardinality(Kept(es)) <= Cap
           /\ \A e \in es : e.seq > n - Cap => e \in Kept(es)
<1>1. Cap \in Nat /\ Cardinality(es) \in Nat /\ \A e \in es : e.seq \in Nat
  BY QueueAssumption, FS_CardinalityType DEF Entry
<1>2. Kept(es) \subseteq es /\ IsFiniteSet(Kept(es)) /\ Cardinality(Kept(es)) <= Cardinality(es)
  <2>1. Kept(es) \in SUBSET es
    BY DEF Kept
  <2> QED
    BY <2>1, FS_Subset
<1>3. Cardinality(Kept(es)) <= Cap
  <2>1. CASE Cardinality(es) <= Cap
    BY <1>1, <1>2, <2>1, FS_CardinalityType
  <2>2. CASE ~ (Cardinality(es) <= Cap)
    <3>1. Cardinality(es) = Cap + 1 /\ Cardinality(es) # 0
      BY <1>1, <2>2
    <3>2. es # {}
      BY <3>1, FS_EmptySet
    <3> DEFINE T == {e.seq : e \in es}
    <3>3. T \subseteq Nat /\ T # {}
      BY <1>1, <3>2
    <3>4. PICK m \in T : \A y \in T : m <= y
      BY <3>3, LeastNatural
    <3>5. PICK x \in es : x.seq = m
      BY <3>4
    <3>6. {f \in es : f.seq >= x.seq} = es
      BY <1>1, <3>4, <3>5
    <3>7. x \notin Kept(es)
      BY <2>2, <3>6 DEF Kept
    <3>8. Kept(es) \in SUBSET (es \ {x})
      BY <1>2, <3>7
    <3>9. IsFiniteSet(es \ {x}) /\ Cardinality(es \ {x}) = Cap
      <4>1. /\ IsFiniteSet(es \ {x})
            /\ Cardinality(es \ {x}) = IF x \in es THEN Cardinality(es) - 1 ELSE Cardinality(es)
        BY FS_RemoveElement
      <4> QED
        BY <1>1, <3>1, <3>5, <4>1
    <3> QED
      BY <3>8, <3>9, FS_Subset
  <2> QED
    BY <2>1, <2>2
<1>4. ASSUME NEW e \in es, e.seq > n - Cap PROVE e \in Kept(es)
  <2> DEFINE S == {f \in es : f.seq >= e.seq}
             J == e.seq .. n
             g == [f \in S |-> f.seq]
  <2>1. /\ e.seq \in Nat /\ e.seq <= n /\ IsFiniteSet(J)
        /\ Cardinality(J) = IF e.seq > n THEN 0 ELSE n - e.seq + 1
    <3>1. e.seq \in Int /\ n \in Int /\ e.seq \in Nat /\ e.seq <= n
      BY <1>1
    <3> QED
      BY <3>1, FS_Interval
  <2>2. Cardinality(J) <= Cap
    BY <1>1, <1>4, <2>1
  <2>3. g \in Injection(S, J)
    <3>1. g \in [S -> J]
      BY <1>1, <2>1
    <3>2. \A a, b \in S : g[a] = g[b] => a = b
      BY DEF OneSeq
    <3> QED
      BY <3>1, <3>2 DEF Injection, IsInjective
  <2>4. IsFiniteSet(S) /\ Cardinality(S) <= Cardinality(J)
    BY <2>1, <2>3, FS_Injection
  <2>5. Cardinality(S) <= Cap
    <3>1. Cardinality(S) \in Nat /\ Cardinality(J) \in Nat
      BY <2>1, <2>4, FS_CardinalityType
    <3> QED
      BY <1>1, <2>2, <2>4, <3>1
  <2> QED
    BY <2>5 DEF Kept
<1> QED
  BY <1>2, <1>3, <1>4

NewEntry(k, c) == [seq |-> nextSeq, key |-> k, count |-> c]

\* append to entries of other keys: the queue stays within its cap, one entry per key
\* and per number, its keys are the dedupe set, and nothing recent is lost.
LEMMA Appended ==
    ASSUME nextSeq \in Nat \ {0}, NEW es \in SUBSET Entry, IsFiniteSet(es),
           Cardinality(es) <= Cap, OneSeq(es), OneKey(es),
           \A e \in es : e.seq < nextSeq, \A e \in es : e.seq > 0,
           NEW k \in Keys, NEW c \in Nat, \A e \in es : e.key # k,
           NEW sn, sn = KeysOf(es) \cup {k}, AppendTo(es, sn, k, c)
    PROVE  /\ nextSeq' = nextSeq + 1
           /\ entries' \subseteq es \cup {NewEntry(k, c)}
           /\ entries' \subseteq [seq : 1 .. nextSeq, key : Keys, count : Nat]
           /\ \A e \in es \cup {NewEntry(k, c)} : e.seq > nextSeq - Cap => e \in entries'
           /\ IsFiniteSet(entries') /\ DedupeMatchesQueue'
<1> DEFINE x == NewEntry(k, c)
           all == es \cup {x}
<1>1. /\ x \in Entry /\ x.seq = nextSeq /\ x.key = k /\ x.count = c /\ Cap \in Nat
  BY QueueAssumption DEF Entry, NewEntry
<1>2. entries' = Kept(all) /\ seen' = sn \ KeysOf(all \ Kept(all)) /\ nextSeq' = nextSeq + 1
  BY DEF AppendTo, NewEntry
<1> HIDE DEF x
<1>3. \A e \in es : e.seq \in Nat
  BY DEF Entry
<1>4. OneSeq(all) /\ OneKey(all) /\ \A e \in all : e.seq <= nextSeq /\ e.seq > 0
  BY <1>1, <1>3 DEF OneSeq, OneKey
<1>5. all \in SUBSET Entry /\ IsFiniteSet(all) /\ Cardinality(all) <= Cap + 1
  <2>1. IsFiniteSet(all) /\ Cardinality(all) =
           IF x \in es THEN Cardinality(es) ELSE Cardinality(es) + 1
    BY FS_AddElement
  <2>2. Cardinality(es) \in Nat
    BY FS_CardinalityType
  <2> QED
    BY <1>1, <2>1, <2>2
<1> DEFINE K == Kept(all)
<1>6. /\ K \subseteq all /\ IsFiniteSet(K) /\ Cardinality(K) <= Cap
      /\ \A e \in all : e.seq > nextSeq - Cap => e \in K
  BY <1>4, <1>5, KeptOf
<1> HIDE DEF K
<1>7. K \subseteq [seq : 1 .. nextSeq, key : Keys, count : Nat]
  <2>1. SUFFICES ASSUME NEW e \in K
                 PROVE  e \in [seq : 1 .. nextSeq, key : Keys, count : Nat]
    OBVIOUS
  <2>2. e \in all /\ e \in Entry
    BY <1>5, <1>6
  <2>3. e.seq \in 1 .. nextSeq
    BY <1>4, <2>2 DEF Entry
  <2> QED
    BY <2>2, <2>3 DEF Entry
<1>8. KeysOf(all) = sn
  BY <1>1 DEF KeysOf
<1>9. KeysOf(all) \ KeysOf(all \ K) = KeysOf(K)
  <2>1. ASSUME NEW y \in KeysOf(all), y \notin KeysOf(all \ K) PROVE y \in KeysOf(K)
    BY <2>1 DEF KeysOf
  <2>2. ASSUME NEW y \in KeysOf(K) PROVE y \in KeysOf(all) /\ y \notin KeysOf(all \ K)
    <3>1. PICK e \in K : e.key = y
      BY DEF KeysOf
    <3>2. \A f \in all : f.key = y => f = e
      BY <1>4, <1>6, <3>1 DEF OneKey
    <3> QED
      BY <1>6, <3>1, <3>2 DEF KeysOf
  <2> QED
    BY <2>1, <2>2
<1>10. OneSeq(K) /\ OneKey(K)
  BY <1>4, <1>6 DEF OneSeq, OneKey
<1>11. entries' = K /\ seen' = KeysOf(K)
  BY <1>2, <1>8, <1>9 DEF K
<1>12. DedupeMatchesQueue'
  BY <1>6, <1>10, <1>11 DEF DedupeMatchesQueue, KeysOf, OneSeq, OneKey
<1> QED
  BY <1>2, <1>6, <1>7, <1>11, <1>12 DEF x

-----------------------------------------------------------------------------
(* The event queue: its invariant.                                           *)

QueueShape ==
    /\ QueueTypeOK /\ DedupeMatchesQueue /\ IsFiniteSet(entries)
    /\ \A p \in Peers, e \in entries : e.key = p => e.count = published[p].count

\* The alerts among the last Cap numbers are still queued.
RecentAlertsQueued ==
    /\ pushed \subseteq (1 .. nextSeq - 1) \X Alerts
    /\ \A x \in pushed : x[1] > Cursor - Cap =>
          \E e \in entries : e.seq = x[1] /\ e.key = x[2]

\* Every number was given out once, and a published mark is the latest.
NumbersGiven ==
    /\ IsFiniteSet(pushed) /\ IsFiniteSet(outages) /\ OneEventPerOutage
    /\ outages \subseteq Peers \X Nat
    /\ \A x \in outages : x[2] <= published[x[1]].mark

QueueIInv == QueueShape /\ RecentAlertsQueued /\ NumbersGiven

LEMMA QueueFacts ==
    ASSUME QueueShape
    PROVE  /\ nextSeq \in Nat \ {0} /\ Cap \in Nat /\ entries \in SUBSET Entry
           /\ IsFiniteSet(entries) /\ Cardinality(entries) <= Cap
           /\ OneSeq(entries) /\ OneKey(entries) /\ seen = KeysOf(entries)
           /\ \A e \in entries : e.seq < nextSeq /\ e.seq > 0 /\ e.key \in Keys
<1>1. /\ nextSeq \in Nat \ {0} /\ Cap \in Nat /\ IsFiniteSet(entries)
      /\ entries \subseteq [seq : 1 .. nextSeq - 1, key : Keys, count : Nat]
      /\ Cardinality(entries) <= Cap /\ seen = KeysOf(entries)
  BY QueueAssumption DEF QueueShape, QueueTypeOK, DedupeMatchesQueue
<1>2. OneSeq(entries) /\ OneKey(entries)
  BY DEF QueueShape, DedupeMatchesQueue, OneSeq, OneKey
<1>3. ASSUME NEW e \in entries
      PROVE  e \in Entry /\ e.seq < nextSeq /\ e.seq > 0 /\ e.key \in Keys
  <2>1. e \in [seq : 1 .. nextSeq - 1, key : Keys, count : Nat] /\ e.seq \in 1 .. nextSeq - 1
    BY <1>1
  <2> QED
    BY <1>1, <2>1 DEF Entry
<1> QED
  BY <1>1, <1>2, <1>3

LEMMA QueueStart == QueueInit => QueueIInv
<1> SUFFICES ASSUME QueueInit PROVE QueueIInv
  OBVIOUS
<1>1. /\ entries = {} /\ nextSeq = 1 /\ seen = {} /\ pushed = {} /\ outages = {}
      /\ published = [p \in Peers |-> NotPublished] /\ Cap \in Nat
      /\ Cardinality({}) = 0 /\ IsFiniteSet({})
  BY QueueAssumption, FS_EmptySet DEF QueueInit
<1>2. QueueShape
  BY <1>1 DEF QueueShape, QueueTypeOK, DedupeMatchesQueue, KeysOf, NotPublished
<1>3. RecentAlertsQueued /\ NumbersGiven
  BY <1>1 DEF RecentAlertsQueued, NumbersGiven, OneEventPerOutage
<1> QED
  BY <1>2, <1>3 DEF QueueIInv

\* push: an alert that is not queued is appended.
LEMMA PushStep ==
    ASSUME QueueIInv, NEW a \in Alerts, Push(a)
    PROVE  QueueIInv'
<1>1. CASE a \in seen /\ UNCHANGED <<entries, nextSeq, seen, pushed>>
  <2>1. UNCHANGED queueVars
    BY <1>1 DEF Push, queueVars
  <2> QED
    BY <2>1 DEF QueueIInv, QueueShape, QueueTypeOK, DedupeMatchesQueue, RecentAlertsQueued,
                NumbersGiven, OneEventPerOutage, Cursor, KeysOf, queueVars
<1>2. CASE /\ a \notin seen
           /\ AppendTo(entries, seen \cup {a}, a, 0)
           /\ pushed' = pushed \cup {<<nextSeq, a>>}
  <2> DEFINE x == NewEntry(a, 0)
  <2>1. a \in Keys /\ published' = published /\ outages' = outages
    BY DEF Keys, Push
  <2>2. /\ nextSeq \in Nat \ {0} /\ Cap \in Nat /\ entries \in SUBSET Entry
        /\ IsFiniteSet(entries) /\ Cardinality(entries) <= Cap
        /\ OneSeq(entries) /\ OneKey(entries) /\ seen = KeysOf(entries)
        /\ \A e \in entries : e.seq < nextSeq /\ e.seq > 0 /\ e.key \in Keys
    BY QueueFacts DEF QueueIInv
  <2>3. \A e \in entries : e.key # a
    BY <1>2, <2>2 DEF KeysOf
  <2>4. /\ nextSeq' = nextSeq + 1
        /\ entries' \subseteq entries \cup {x}
        /\ entries' \subseteq [seq : 1 .. nextSeq, key : Keys, count : Nat]
        /\ \A e \in entries \cup {x} : e.seq > nextSeq - Cap => e \in entries'
        /\ IsFiniteSet(entries') /\ DedupeMatchesQueue'
    <3>1. 0 \in Nat /\ seen \cup {a} = KeysOf(entries) \cup {a}
      BY <2>2
    <3> QED
      BY <1>2, <2>1, <2>2, <2>3, <3>1, Appended
  <2>5. x.seq = nextSeq /\ x.key = a
    BY DEF NewEntry
  <2> HIDE DEF x
  <2>6. QueueTypeOK'
    <3>1. nextSeq' \in Nat \ {0} /\ nextSeq' - 1 = nextSeq
      BY <2>2, <2>4
    <3>2. KeysOf(entries)' \subseteq Keys
      BY <2>4 DEF KeysOf
    <3> QED
      BY <2>1, <2>4, <3>1, <3>2
         DEF QueueTypeOK, DedupeMatchesQueue, QueueIInv, QueueShape, KeysOf
  <2>7. QueueShape'
    <3>1. ASSUME NEW p \in Peers, NEW e \in entries', e.key = p
          PROVE  e.count = published[p].count
      <4>1. e # x
        BY <2>5, <3>1, QueueAssumption
      <4> QED
        BY <2>4, <3>1, <4>1 DEF QueueIInv, QueueShape
    <3> QED
      BY <2>1, <2>4, <2>6, <3>1 DEF QueueShape
  <2>8. RecentAlertsQueued'
    <3>1. /\ nextSeq' - 1 = nextSeq /\ pushed \subseteq (1 .. nextSeq - 1) \X Alerts
          /\ \A y \in pushed : y[1] > (nextSeq - 1) - Cap =>
                \E e \in entries : e.seq = y[1] /\ e.key = y[2]
      BY <2>2, <2>4 DEF QueueIInv, RecentAlertsQueued, Cursor
    <3>2. pushed' \subseteq (1 .. nextSeq) \X Alerts
      <4>1. nextSeq \in 1 .. nextSeq /\ (1 .. nextSeq - 1) \subseteq 1 .. nextSeq
        BY <2>2
      <4> QED
        BY <1>2, <3>1, <4>1
    <3>3. ASSUME NEW y \in pushed', y[1] > nextSeq - Cap
          PROVE  \E e \in entries' : e.seq = y[1] /\ e.key = y[2]
      <4>1. CASE y = <<nextSeq, a>>
        BY <2>4, <2>5, <3>3, <4>1
      <4>2. CASE y \in pushed
        <5>1. y[1] \in Nat /\ y[1] > (nextSeq - 1) - Cap
          BY <2>2, <3>1, <3>3, <4>2
        <5>2. PICK e \in entries : e.seq = y[1] /\ e.key = y[2]
          BY <3>1, <4>2, <5>1
        <5> QED
          BY <2>4, <3>3, <5>2
      <4> QED
        BY <1>2, <4>1, <4>2
    <3> QED
      BY <3>1, <3>2, <3>3 DEF RecentAlertsQueued, Cursor
  <2>9. NumbersGiven'
    <3>1. <<nextSeq, a>> \notin pushed
      BY <2>2 DEF QueueIInv, RecentAlertsQueued
    <3>2. /\ IsFiniteSet(pushed') /\ Cardinality(pushed') = Cardinality(pushed) + 1
      BY <1>2, <3>1, FS_AddElement DEF QueueIInv, NumbersGiven
    <3>3. Cardinality(pushed) \in Nat /\ Cardinality(outages) \in Nat
      BY FS_CardinalityType DEF QueueIInv, NumbersGiven
    <3>4. OneEventPerOutage'
      BY <2>1, <2>2, <2>4, <3>2, <3>3 DEF QueueIInv, NumbersGiven, OneEventPerOutage
    <3> QED
      BY <2>1, <3>2, <3>4 DEF QueueIInv, NumbersGiven
  <2> QED
    BY <2>7, <2>8, <2>9 DEF QueueIInv
<1> QED
  BY <1>1, <1>2 DEF Push

\* record_freshness at a later mark: the peer's entry is replaced by a new one.
LEMMA RepublishStep ==
    ASSUME QueueIInv, NEW p \in Peers, NEW c \in Nat, NEW hw \in Nat,
           hw > published[p].mark, Republish(p, c, hw)
    PROVE  /\ QueueIInv'
           /\ \A q \in Peers : published'[q].count >= published[q].count
<1> DEFINE n == IF published[p].count > c THEN published[p].count ELSE c
           es == {e \in entries : e.key # p}
           x == NewEntry(p, n)
<1>1. /\ published' = [published EXCEPT ![p] = [mark |-> hw, count |-> n]]
      /\ AppendTo(es, seen \cup {p}, p, n)
      /\ outages' = outages \cup {<<p, hw>>} /\ pushed' = pushed
  BY DEF Republish
<1>2. /\ published \in [Peers -> [mark : Nat \cup {-1}, count : Nat]]
      /\ \A q \in Peers : published[q].mark \in Nat \cup {-1} /\ published[q].count \in Nat
  BY DEF QueueIInv, QueueShape, QueueTypeOK
<1>3. n \in Nat /\ n >= published[p].count /\ p \in Keys
  BY <1>2 DEF Keys
<1> HIDE DEF n
<1>4. /\ published' \in [Peers -> [mark : Nat \cup {-1}, count : Nat]]
      /\ published'[p] = [mark |-> hw, count |-> n]
      /\ \A q \in Peers : q # p => published'[q] = published[q]
  <2>1. [mark |-> hw, count |-> n] \in [mark : Nat \cup {-1}, count : Nat]
    BY <1>3
  <2> QED
    BY <1>1, <1>2, <2>1
<1>5. \A q \in Peers : /\ published'[q].count >= published[q].count
                       /\ published'[q].mark >= published[q].mark
  <2>1. /\ published'[p].count = n /\ published'[p].mark = hw
    BY <1>4
  <2> QED
    BY <1>2, <1>3, <1>4, <2>1
<1>6. /\ nextSeq \in Nat \ {0} /\ Cap \in Nat /\ entries \in SUBSET Entry
      /\ IsFiniteSet(entries) /\ Cardinality(entries) <= Cap
      /\ OneSeq(entries) /\ OneKey(entries) /\ seen = KeysOf(entries)
      /\ \A e \in entries : e.seq < nextSeq /\ e.seq > 0 /\ e.key \in Keys
  BY QueueFacts DEF QueueIInv
<1>7. /\ es \in SUBSET Entry /\ IsFiniteSet(es) /\ Cardinality(es) <= Cap
      /\ OneSeq(es) /\ OneKey(es)
  <2>1. es \in SUBSET entries
    OBVIOUS
  <2>2. IsFiniteSet(es) /\ Cardinality(es) <= Cardinality(entries)
    BY <1>6, <2>1, FS_Subset
  <2>3. Cardinality(es) \in Nat /\ Cardinality(entries) \in Nat
    BY <1>6, <2>2, FS_CardinalityType
  <2> QED
    BY <1>6, <2>1, <2>2, <2>3 DEF OneSeq, OneKey
<1>8. seen \cup {p} = KeysOf(es) \cup {p}
  BY <1>6 DEF KeysOf
<1>9. /\ nextSeq' = nextSeq + 1
      /\ entries' \subseteq es \cup {x}
      /\ entries' \subseteq [seq : 1 .. nextSeq, key : Keys, count : Nat]
      /\ \A e \in es \cup {x} : e.seq > nextSeq - Cap => e \in entries'
      /\ IsFiniteSet(entries') /\ DedupeMatchesQueue'
  <2>1. /\ \A e \in es : e.seq < nextSeq
        /\ \A e \in es : e.seq > 0
        /\ \A e \in es : e.key # p
    BY <1>6
  <2> HIDE DEF es
  <2> QED
    BY <1>1, <1>3, <1>6, <1>7, <1>8, <2>1, Appended
<1>10. x.key = p /\ x.count = n
  BY DEF NewEntry
<1> HIDE DEF x
<1>11. QueueTypeOK'
  <2>1. nextSeq' \in Nat \ {0} /\ nextSeq' - 1 = nextSeq
    BY <1>6, <1>9
  <2>2. KeysOf(entries)' \subseteq Keys
    BY <1>9 DEF KeysOf
  <2> QED
    BY <1>4, <1>9, <2>1, <2>2 DEF QueueTypeOK, DedupeMatchesQueue, KeysOf
<1>12. QueueShape'
  <2>1. ASSUME NEW q \in Peers, NEW e \in entries', e.key = q
        PROVE  e.count = published'[q].count
    <3>1. CASE e = x
      BY <1>4, <1>10, <2>1, <3>1
    <3>2. CASE e \in es
      <4>1. e \in entries /\ q # p
        BY <2>1, <3>2
      <4> QED
        BY <1>4, <2>1, <4>1 DEF QueueIInv, QueueShape
    <3> QED
      BY <1>9, <3>1, <3>2
  <2> QED
    BY <1>9, <1>11, <2>1 DEF QueueShape
<1>13. RecentAlertsQueued'
  <2>1. /\ nextSeq' - 1 = nextSeq /\ pushed \subseteq (1 .. nextSeq - 1) \X Alerts
        /\ \A y \in pushed : y[1] > (nextSeq - 1) - Cap =>
              \E e \in entries : e.seq = y[1] /\ e.key = y[2]
    BY <1>6, <1>9 DEF QueueIInv, RecentAlertsQueued, Cursor
  <2>2. (1 .. nextSeq - 1) \subseteq 1 .. nextSeq
    BY <1>6
  <2>3. pushed' \subseteq (1 .. nextSeq) \X Alerts
    BY <1>1, <2>1, <2>2
  <2>4. ASSUME NEW y \in pushed, y[1] > nextSeq - Cap
        PROVE  \E e \in entries' : e.seq = y[1] /\ e.key = y[2]
    <3>1. y[1] \in Nat /\ y[1] > (nextSeq - 1) - Cap /\ y[2] \in Alerts
      BY <1>6, <2>1, <2>4
    <3>2. PICK e \in entries : e.seq = y[1] /\ e.key = y[2]
      BY <2>1, <3>1
    <3>3. e \in es
      BY <3>1, <3>2, QueueAssumption
    <3> QED
      BY <1>9, <2>4, <3>2, <3>3
  <2> QED
    BY <1>1, <2>1, <2>3, <2>4 DEF RecentAlertsQueued, Cursor
<1>14. NumbersGiven'
  <2>1. <<p, hw>> \notin outages
    BY <1>2 DEF QueueIInv, NumbersGiven
  <2>2. IsFiniteSet(outages') /\ Cardinality(outages') = Cardinality(outages) + 1
    BY <1>1, <2>1, FS_AddElement DEF QueueIInv, NumbersGiven
  <2>3. Cardinality(pushed) \in Nat /\ Cardinality(outages) \in Nat
    BY FS_CardinalityType DEF QueueIInv, NumbersGiven
  <2>4. OneEventPerOutage'
    BY <1>1, <1>6, <1>9, <2>2, <2>3 DEF QueueIInv, NumbersGiven, OneEventPerOutage
  <2>5. outages' \subseteq Peers \X Nat
    BY <1>1 DEF QueueIInv, NumbersGiven
  <2>6. ASSUME NEW y \in outages' PROVE y[2] <= published'[y[1]].mark
    <3>1. CASE y = <<p, hw>>
      BY <1>4, <3>1
    <3>2. CASE y \in outages
      <4>1. y[1] \in Peers /\ y[2] \in Nat /\ y[2] <= published[y[1]].mark
        BY <3>2 DEF QueueIInv, NumbersGiven
      <4>2. published'[y[1]].mark \in Nat \cup {-1} /\ published[y[1]].mark \in Nat \cup {-1}
        BY <1>2, <1>4, <4>1
      <4>3. published'[y[1]].mark >= published[y[1]].mark
        BY <1>5, <4>1
      <4> QED
        BY <4>1, <4>2, <4>3
    <3> QED
      BY <1>1, <3>1, <3>2
  <2> QED
    BY <1>1, <2>2, <2>4, <2>5, <2>6 DEF QueueIInv, NumbersGiven
<1> QED
  BY <1>5, <1>12, <1>13, <1>14 DEF QueueIInv

\* record_freshness at the same mark: the retained entry's count is raised in place.
LEMMA UpdateRetainedStep ==
    ASSUME QueueIInv, NEW p \in Peers, NEW c \in Nat, c > published[p].count,
           UpdateRetained(p, c)
    PROVE  /\ QueueIInv'
           /\ \A q \in Peers : published'[q].count >= published[q].count
<1> DEFINE Up(e) == IF e.key = p THEN [e EXCEPT !.count = c] ELSE e
<1>1. /\ published' = [published EXCEPT ![p].count = c]
      /\ entries' = {Up(e) : e \in entries} /\ nextSeq' = nextSeq
      /\ seen' = seen /\ pushed' = pushed /\ outages' = outages
  BY DEF UpdateRetained
<1>2. /\ published \in [Peers -> [mark : Nat \cup {-1}, count : Nat]]
      /\ \A q \in Peers : published[q].mark \in Nat \cup {-1} /\ published[q].count \in Nat
      /\ entries \subseteq [seq : 1 .. nextSeq - 1, key : Keys, count : Nat]
  BY DEF QueueIInv, QueueShape, QueueTypeOK
<1>3. /\ published' \in [Peers -> [mark : Nat \cup {-1}, count : Nat]]
      /\ published'[p].count = c
      /\ \A q \in Peers : q # p => published'[q] = published[q]
      /\ \A q \in Peers : published'[q].mark = published[q].mark
  BY <1>1, <1>2
<1>4. \A q \in Peers : published'[q].count >= published[q].count
  BY <1>2, <1>3
<1>5. \A e \in entries : /\ Up(e) \in [seq : 1 .. nextSeq - 1, key : Keys, count : Nat]
                         /\ Up(e).seq = e.seq /\ Up(e).key = e.key
                         /\ e.key = p => Up(e).count = c
                         /\ e.key # p => Up(e) = e
  BY <1>2
<1> HIDE DEF Up
<1>6. /\ IsFiniteSet(entries) /\ Cardinality(entries) <= Cap /\ Cap \in Nat
      /\ OneSeq(entries) /\ OneKey(entries) /\ seen = KeysOf(entries)
  BY QueueFacts DEF QueueIInv
<1>7. IsFiniteSet(entries') /\ Cardinality(entries') <= Cap
  <2> DEFINE g == [e \in entries |-> Up(e)]
  <2>1. g \in Surjection(entries, entries')
    BY <1>1 DEF Surjection
  <2>2. IsFiniteSet(entries') /\ Cardinality(entries') <= Cardinality(entries)
    BY <1>6, <2>1, FS_Surjection
  <2>3. Cardinality(entries') \in Nat /\ Cardinality(entries) \in Nat
    BY <1>6, <2>2, FS_CardinalityType
  <2> QED
    BY <1>6, <2>2, <2>3
<1>8. DedupeMatchesQueue'
  <2>1. KeysOf(entries') = KeysOf(entries)
    BY <1>1, <1>5 DEF KeysOf
  <2>2. \A e, f \in entries' : (e.seq = f.seq \/ e.key = f.key) => e = f
    <3>1. SUFFICES ASSUME NEW e \in entries', NEW f \in entries', e.seq = f.seq \/ e.key = f.key
                   PROVE  e = f
      OBVIOUS
    <3>2. PICK a \in entries : e = Up(a)
      BY <1>1
    <3>3. PICK b \in entries : f = Up(b)
      BY <1>1
    <3>4. a = b
      BY <1>5, <1>6, <3>1, <3>2, <3>3 DEF OneSeq, OneKey
    <3> QED
      BY <3>2, <3>3, <3>4
  <2> QED
    BY <1>1, <1>6, <1>7, <2>1, <2>2 DEF DedupeMatchesQueue, KeysOf
<1>9. QueueShape'
  <2>1. QueueTypeOK'
    BY <1>1, <1>3, <1>5 DEF QueueIInv, QueueShape, QueueTypeOK
  <2>2. ASSUME NEW q \in Peers, NEW e \in entries', e.key = q
        PROVE  e.count = published'[q].count
    <3>1. PICK a \in entries : e = Up(a)
      BY <1>1
    <3>2. CASE q = p
      BY <1>3, <1>5, <2>2, <3>1, <3>2
    <3>3. CASE q # p
      <4>1. e = a
        BY <1>5, <2>2, <3>1, <3>3
      <4> QED
        BY <1>3, <2>2, <3>3, <4>1 DEF QueueIInv, QueueShape
    <3> QED
      BY <3>2, <3>3
  <2> QED
    BY <1>7, <1>8, <2>1, <2>2 DEF QueueShape
<1>10. RecentAlertsQueued'
  <2>1. ASSUME NEW y \in pushed, y[1] > (nextSeq - 1) - Cap
        PROVE  \E e \in entries' : e.seq = y[1] /\ e.key = y[2]
    <3>1. PICK a \in entries : a.seq = y[1] /\ a.key = y[2]
      BY <2>1 DEF QueueIInv, RecentAlertsQueued, Cursor
    <3> QED
      BY <1>1, <1>5, <3>1
  <2> QED
    BY <1>1, <2>1 DEF QueueIInv, RecentAlertsQueued, Cursor
<1>11. NumbersGiven'
  BY <1>1, <1>3 DEF QueueIInv, NumbersGiven, OneEventPerOutage
<1> QED
  BY <1>4, <1>9, <1>10, <1>11 DEF QueueIInv

LEMMA RecordFreshnessStep ==
    ASSUME QueueIInv, NEW p \in Peers, NEW c \in Nat, NEW hw \in Nat,
           RecordFreshness(p, c, hw)
    PROVE  /\ QueueIInv'
           /\ \A q \in Peers : published'[q].count >= published[q].count
<1>1. CASE hw > published[p].mark /\ Republish(p, c, hw)
  BY <1>1, RepublishStep
<1>2. CASE hw = published[p].mark /\ c > published[p].count /\ UpdateRetained(p, c)
  BY <1>2, UpdateRetainedStep
<1>3. CASE UNCHANGED queueVars
  <2>1. \A q \in Peers : published[q].count \in Nat
    BY DEF QueueIInv, QueueShape, QueueTypeOK
  <2> QED
    BY <1>3, <2>1
       DEF QueueIInv, QueueShape, QueueTypeOK, DedupeMatchesQueue, RecentAlertsQueued,
           NumbersGiven, OneEventPerOutage, Cursor, KeysOf, queueVars
<1> QED
  BY <1>1, <1>2, <1>3 DEF RecordFreshness

-----------------------------------------------------------------------------
(* The ingress guards.                                                       *)

Envelope == [peer : Peers, nonce : Nat, ts : Nat]

GuardTypes ==
    /\ highWater \in Nat /\ seenNonces \subseteq Envelope
    /\ charged \in [Peers -> Seq(Nat)] /\ charges \in [Peers -> Seq(Nat)]
    /\ accepts \subseteq Peers \X Nat \X Nat

SeenWasAccepted == \A s \in seenNonces : <<s.peer, s.nonce, s.ts>> \in accepts

\* What a peer's quota keeps is the end of all its charges; the others are outside
\* the window.
ChargesKept(p) ==
    /\ Len(charged[p]) <= Len(charges[p])
    /\ \A i \in 1 .. Len(charged[p]) :
          charged[p][i] = charges[p][(Len(charges[p]) - Len(charged[p])) + i]
    /\ \A i \in 1 .. Len(charges[p]) - Len(charged[p]) :
          charges[p][i] <= Floor(highWater, QuotaWindow)

GuardsIInv ==
    /\ GuardTypes /\ SeenWasAccepted /\ \A p \in Peers : ChargesKept(p)
    /\ GuardsInv

LEMMA FloorOf ==
    \A a, b, n \in Nat : /\ Floor(a, n) \in Nat
                         /\ a <= b => Floor(a, n) <= Floor(b, n)
                         /\ a > n => Floor(a, n) = a - n
  BY DEF Floor

\* The loop of charge_quota ends.
LEMMA PoppedOf ==
    ASSUME NEW p \in Peers, NEW now \in Nat, charged[p] \in Seq(Nat)
    PROVE  /\ Popped(p, now) \in 0 .. Len(charged[p])
           /\ \A i \in 1 .. Popped(p, now) : charged[p][i] <= Floor(now, QuotaWindow)
<1> DEFINE a == charged[p]
           cut == Floor(now, QuotaWindow)
           P(k) == /\ \A i \in 1 .. k : a[i] <= cut
                   /\ k < Len(a) => a[k + 1] > cut
           T == {k \in 0 .. Len(a) : k = Len(a) \/ a[k + 1] > cut}
<1>1. Len(a) \in Nat /\ cut \in Nat /\ \A i \in 1 .. Len(a) : a[i] \in Nat
  <2>1. cut \in Nat
    BY GuardsAssumption, FloorOf
  <2> QED
    BY <2>1
<1> HIDE DEF a, cut
<1>2. T \subseteq Nat /\ T # {}
  BY <1>1
<1>3. PICK k \in T : \A y \in T : k <= y
  BY <1>2, LeastNatural
<1>4. k \in 0 .. Len(a) /\ k \in Nat /\ (k < Len(a) => a[k + 1] > cut)
  BY <1>1, <1>3
<1>5. ASSUME NEW i \in 1 .. k PROVE a[i] <= cut
  <2>1. i - 1 \in 0 .. Len(a) /\ ~ (k <= i - 1) /\ (i - 1) + 1 = i /\ i \in 1 .. Len(a)
    BY <1>1, <1>4
  <2>2. i - 1 \notin T
    BY <1>3, <2>1
  <2>3. ~ (a[i] > cut)
    BY <2>1, <2>2
  <2> QED
    BY <1>1, <2>1, <2>3
<1>6. P(k)
  BY <1>4, <1>5
<1>7. Popped(p, now) = CHOOSE j \in 0 .. Len(a) : P(j)
  BY DEF Popped, a, cut
<1>8. Popped(p, now) \in 0 .. Len(a) /\ P(Popped(p, now))
  <2> HIDE DEF P
  <2> QED
    BY <1>4, <1>6, <1>7
<1> QED
  BY <1>8 DEF a, cut

LEMMA LiveOf ==
    ASSUME NEW p \in Peers, NEW now \in Nat, charged[p] \in Seq(Nat)
    PROVE  /\ LiveCharges(p, now) \in Seq(Nat)
           /\ Len(LiveCharges(p, now)) = Len(charged[p]) - Popped(p, now)
           /\ \A i \in 1 .. Len(charged[p]) - Popped(p, now) :
                 LiveCharges(p, now)[i] = charged[p][Popped(p, now) + i]
<1> DEFINE k == Popped(p, now)
           a == charged[p]
<1>1. k \in 0 .. Len(a) /\ a \in Seq(Nat) /\ Len(a) \in Nat
  BY PoppedOf
<1>2. LiveCharges(p, now) = SubSeq(a, k + 1, Len(a))
  BY DEF LiveCharges
<1> HIDE DEF k, a
<1>3. /\ SubSeq(a, k + 1, Len(a)) \in Seq(Nat)
      /\ Len(SubSeq(a, k + 1, Len(a))) = Len(a) - k
      /\ \A i \in 1 .. Len(a) - k : SubSeq(a, k + 1, Len(a))[i] = a[k + i]
  BY <1>1
<1> QED
  BY <1>2, <1>3 DEF a, k

LEMMA GuardsStart == GuardsInit => GuardsIInv
<1> SUFFICES ASSUME GuardsInit PROVE GuardsIInv
  OBVIOUS
<1>1. /\ highWater = 0 /\ seenNonces = {} /\ accepts = {} /\ acceptedTwice = FALSE
      /\ charged = [p \in Peers |-> << >>] /\ charges = [p \in Peers |-> << >>]
      /\ Senders = Peers /\ Quota \in Nat \ {0}
  BY ServerAssumption, GuardsAssumption DEF GuardsInit
<1>2. GuardTypes /\ SeenWasAccepted /\ EnvelopeOnce /\ AcceptedRememberedOrStale
  BY <1>1 DEF GuardTypes, SeenWasAccepted, EnvelopeOnce, AcceptedRememberedOrStale
<1>3. \A p \in Peers : ChargesKept(p)
  BY <1>1 DEF ChargesKept
<1>4. QuotaHolds
  <2>1. \A p \in Peers : DOMAIN charges[p] = {}
    BY <1>1
  <2> QED
    BY <1>1, <2>1 DEF QuotaHolds
<1> QED
  BY <1>2, <1>3, <1>4 DEF GuardsIInv, GuardsInv

\* charge_quota at a clock past the first window.
LEMMA ChargeStep ==
    ASSUME GuardsIInv, NEW p \in Peers, NEW now \in Nat, now >= highWater,
           now > QuotaWindow, ChargeQuota(p, now), highWater' = now
    PROVE  /\ charged' \in [Peers -> Seq(Nat)] /\ charges' \in [Peers -> Seq(Nat)]
           /\ \A q \in Peers : ChargesKept(q)'
           /\ QuotaHolds'
<1> DEFINE a == charged[p]
           b == charges[p]
           k == Popped(p, now)
           live == LiveCharges(p, now)
           gone == Len(b) - Len(a)
           cut == Floor(now, QuotaWindow)
           under == UnderQuota(p, now)
           A == IF under THEN Append(live, now) ELSE live
           B == IF under THEN Append(b, now) ELSE b
<1>1. /\ charged \in [Peers -> Seq(Nat)] /\ charges \in [Peers -> Seq(Nat)]
      /\ a \in Seq(Nat) /\ b \in Seq(Nat) /\ highWater \in Nat
  BY DEF GuardsIInv, GuardTypes
<1>2. charged' = [charged EXCEPT ![p] = A] /\ charges' = [charges EXCEPT ![p] = B]
  BY <1>1 DEF ChargeQuota
<1>3. /\ Len(a) <= Len(b)
      /\ \A i \in 1 .. Len(a) : a[i] = b[gone + i]
      /\ \A i \in 1 .. gone : b[i] <= Floor(highWater, QuotaWindow)
  BY DEF GuardsIInv, ChargesKept
<1>4. k \in 0 .. Len(a) /\ \A i \in 1 .. k : a[i] <= cut
  BY <1>1, PoppedOf
<1>5. /\ live \in Seq(Nat) /\ Len(live) = Len(a) - k
      /\ \A i \in 1 .. Len(a) - k : live[i] = a[k + i]
  BY <1>1, LiveOf
<1>6. under <=> Len(live) < Quota
  BY DEF UnderQuota
<1>7. /\ QuotaWindow \in Nat /\ Quota \in Nat \ {0} /\ cut = now - QuotaWindow
      /\ Floor(highWater, QuotaWindow) <= cut /\ Floor(highWater, QuotaWindow) \in Nat
      /\ \A q \in Peers : Floor(highWater, QuotaWindow) <= cut
  BY <1>1, GuardsAssumption, FloorOf
<1> HIDE DEF a, b, k, live, cut, under
<1>8. Len(a) \in Nat /\ Len(b) \in Nat /\ k \in Nat /\ gone \in Nat
  BY <1>1, <1>3, <1>4
\* The charges that are gone now: those before, and those popped.
<1>9. \A i \in 1 .. gone + k : b[i] <= cut
  <2>1. SUFFICES ASSUME NEW i \in 1 .. gone + k PROVE b[i] <= cut
    OBVIOUS
  <2>2. CASE i <= gone
    <3>1. i \in 1 .. gone /\ i \in 1 .. Len(b)
      BY <1>8, <2>2
    <3>2. b[i] <= Floor(highWater, QuotaWindow) /\ b[i] \in Nat
      BY <1>1, <1>3, <3>1
    <3> QED
      BY <1>7, <3>2
  <2>3. CASE ~ (i <= gone)
    <3>1. i - gone \in 1 .. k /\ i - gone \in 1 .. Len(a) /\ gone + (i - gone) = i
      BY <1>4, <1>8, <2>3
    <3> HIDE DEF gone
    <3> QED
      BY <1>3, <1>4, <3>1
  <2> QED
    BY <2>2, <2>3
<1>10. \A i \in 1 .. Len(live) : live[i] = b[(gone + k) + i]
  <2>1. SUFFICES ASSUME NEW i \in 1 .. Len(live) PROVE live[i] = b[(gone + k) + i]
    OBVIOUS
  <2>2. i \in 1 .. Len(a) - k /\ k + i \in 1 .. Len(a) /\ gone + (k + i) = (gone + k) + i
    BY <1>4, <1>5, <1>8
  <2> HIDE DEF gone
  <2> QED
    BY <1>3, <1>5, <2>2
<1>11. Len(b) = (gone + k) + Len(live) /\ Len(live) \in Nat /\ gone + k \in Nat
  BY <1>4, <1>5, <1>8
<1> DEFINE G == gone + k
<1>12. /\ A \in Seq(Nat) /\ B \in Seq(Nat) /\ Len(B) - Len(A) = G /\ Len(A) <= Len(B)
       /\ \A i \in 1 .. Len(A) : A[i] = B[G + i]
       /\ \A i \in 1 .. G : B[i] <= cut
  <2> HIDE DEF G
  <2>1. CASE ~ under
    BY <1>1, <1>5, <1>9, <1>10, <1>11, <2>1 DEF G
  <2>2. CASE under
    <3> DEFINE x == Append(live, now)
               y == Append(b, now)
    <3>1. /\ x \in Seq(Nat) /\ Len(x) = Len(live) + 1 /\ x[Len(live) + 1] = now
          /\ \A i \in 1 .. Len(live) : x[i] = live[i]
      BY <1>5
    <3>2. /\ y \in Seq(Nat) /\ Len(y) = Len(b) + 1 /\ y[Len(b) + 1] = now
          /\ \A i \in 1 .. Len(b) : y[i] = b[i]
      BY <1>1
    <3>3. A = x /\ B = y
      BY <2>2
    <3> HIDE DEF x, y, A, B
    <3>4. Len(B) - Len(A) = G /\ Len(A) <= Len(B)
      BY <1>11, <3>1, <3>2, <3>3 DEF G
    <3>5. ASSUME NEW i \in 1 .. Len(A) PROVE A[i] = B[G + i]
      <4>1. CASE i = Len(live) + 1
        <5>1. G + i = Len(b) + 1
          BY <1>11, <4>1 DEF G
        <5> QED
          BY <3>1, <3>2, <3>3, <4>1, <5>1
      <4>2. CASE i # Len(live) + 1
        <5>1. i \in 1 .. Len(live) /\ G + i \in 1 .. Len(b)
          BY <1>11, <3>1, <3>3, <4>2 DEF G
        <5> QED
          BY <1>10, <3>1, <3>2, <3>3, <5>1 DEF G
      <4> QED
        BY <4>1, <4>2
    <3>6. \A i \in 1 .. G : i \in 1 .. Len(b)
      BY <1>11 DEF G
    <3>7. \A i \in 1 .. G : B[i] <= cut
      BY <1>9, <3>2, <3>3, <3>6 DEF G
    <3> QED
      BY <3>1, <3>2, <3>3, <3>4, <3>5, <3>7
  <2> QED
    BY <2>1, <2>2
<1> HIDE DEF A, B, gone
<1>13. /\ charged' \in [Peers -> Seq(Nat)] /\ charges' \in [Peers -> Seq(Nat)]
       /\ charged'[p] = A /\ charges'[p] = B
       /\ \A q \in Peers : q # p => charged'[q] = charged[q] /\ charges'[q] = charges[q]
  BY <1>1, <1>2, <1>12
<1>14. ASSUME NEW q \in Peers PROVE ChargesKept(q)'
  <2>1. CASE q = p
    BY <1>12, <1>13, <2>1 DEF ChargesKept, cut
  <2>2. CASE q # p
    <3>1. ChargesKept(q) /\ charged'[q] = charged[q] /\ charges'[q] = charges[q]
      BY <1>13, <2>2 DEF GuardsIInv
    <3>2. ASSUME NEW i \in 1 .. Len(charges[q]) - Len(charged[q])
          PROVE  charges[q][i] <= Floor(now, QuotaWindow)
      <4>1. charges[q][i] <= Floor(highWater, QuotaWindow)
        BY <3>1 DEF ChargesKept
      <4>2. charges[q] \in Seq(Nat) /\ charged[q] \in Seq(Nat)
        BY <1>1
      <4>3. i \in 1 .. Len(charges[q])
        BY <4>2
      <4>4. charges[q][i] \in Nat
        BY <4>2, <4>3
      <4> QED
        BY <1>7, <4>1, <4>4 DEF cut
    <3> QED
      BY <3>1, <3>2 DEF ChargesKept
  <2> QED
    BY <2>1, <2>2
<1>15. QuotaHolds'
  <2>1. SUFFICES ASSUME NEW q \in Peers, NEW i \in DOMAIN charges'[q],
                        i + Quota \in DOMAIN charges'[q]
                 PROVE  charges'[q][i + Quota] - charges'[q][i] >= QuotaWindow
    BY ServerAssumption DEF QuotaHolds
  <2>2. \A r \in Peers : \A j \in DOMAIN charges[r] : j + Quota \in DOMAIN charges[r] =>
           charges[r][j + Quota] - charges[r][j] >= QuotaWindow
    BY ServerAssumption DEF GuardsIInv, GuardsInv, QuotaHolds
  <2>3. CASE q # p \/ ~ under
    <3>1. charges'[q] = charges[q]
      BY <1>13, <2>3 DEF B, b
    <3> QED
      BY <2>1, <2>2, <3>1
  <2>4. CASE q = p /\ under
    <3>1. /\ charges'[q] = B /\ B \in Seq(Nat) /\ Len(B) = Len(b) + 1 /\ B[Len(b) + 1] = now
          /\ \A j \in 1 .. Len(b) : B[j] = b[j]
      BY <1>1, <1>12, <1>13, <2>4 DEF B
    <3>2. i \in 1 .. Len(b) + 1 /\ i + Quota \in 1 .. Len(b) + 1
      BY <2>1, <3>1
    <3>3. CASE i + Quota = Len(b) + 1
      <4>1. i \in 1 .. G /\ i \in 1 .. Len(B)
        BY <1>6, <1>7, <1>8, <1>11, <2>4, <3>1, <3>2, <3>3 DEF gone
      <4>2. B[i] <= cut /\ B[i] \in Nat
        BY <1>12, <3>1, <4>1
      <4> QED
        BY <1>7, <3>1, <3>3, <4>2
    <3>4. CASE i + Quota # Len(b) + 1
      <4>1. i \in 1 .. Len(b) /\ i + Quota \in 1 .. Len(b)
        BY <1>7, <1>8, <3>2, <3>4
      <4>2. DOMAIN b = 1 .. Len(b)
        BY <1>1
      <4>3. b[i + Quota] - b[i] >= QuotaWindow
        BY <2>2, <4>1, <4>2 DEF b
      <4> QED
        BY <3>1, <4>1, <4>3
    <3> QED
      BY <3>3, <3>4
  <2> QED
    BY <2>3, <2>4
<1> QED
  BY <1>13, <1>14, <1>15

\* check_and_consume on an authenticated envelope.
LEMMA CheckStep ==
    ASSUME GuardsIInv, NEW e \in Envelope, NEW reading \in Nat, reading > QuotaWindow,
           CheckAndConsume(e, reading)
    PROVE  GuardsIInv' /\ accepts \subseteq accepts'
<1> DEFINE now == Clock(reading)
           key == <<e.peer, e.nonce, e.ts>>
           cut == Floor(now, FreshnessPast)
           ok == Verdict(e, now) = "accepted"
<1>1. /\ highWater \in Nat /\ seenNonces \subseteq Envelope
      /\ accepts \subseteq Peers \X Nat \X Nat
      /\ e.peer \in Peers /\ e.nonce \in Nat /\ e.ts \in Nat
  BY DEF GuardsIInv, GuardTypes, Envelope
<1>2. now \in Nat /\ now >= highWater /\ now >= reading /\ now > QuotaWindow
  BY <1>1, GuardsAssumption DEF Clock, Later
<1>3. highWater' = now /\ ChargeQuota(e.peer, now)
  BY DEF CheckAndConsume
<1>4. /\ cut \in Nat /\ Floor(highWater, FreshnessPast) \in Nat
      /\ Floor(highWater, FreshnessPast) <= cut
  BY <1>1, <1>2, GuardsAssumption, FloorOf
<1>5. IF ok
      THEN /\ seenNonces' = Retained(now)
                  \cup {[peer |-> e.peer, nonce |-> e.nonce, ts |-> e.ts]}
           /\ accepts' = accepts \cup {key}
           /\ acceptedTwice' = (acceptedTwice \/ key \in accepts)
      ELSE /\ seenNonces' = IF Fresh(e.ts, now) THEN Retained(now) ELSE seenNonces
           /\ accepts' = accepts /\ acceptedTwice' = acceptedTwice
  BY DEF CheckAndConsume
<1>6. ok => Fresh(e.ts, now) /\ ~ Known(e, now)
  BY DEF Verdict
<1>7. /\ charged' \in [Peers -> Seq(Nat)] /\ charges' \in [Peers -> Seq(Nat)]
      /\ \A q \in Peers : ChargesKept(q)'
      /\ QuotaHolds'
  BY <1>1, <1>2, <1>3, ChargeStep
<1> HIDE DEF now, ok
<1>8. [peer |-> e.peer, nonce |-> e.nonce, ts |-> e.ts] = e
  BY DEF Envelope
<1>9. Retained(now) \subseteq seenNonces
      /\ \A s \in seenNonces : s.ts >= cut => s \in Retained(now)
  BY DEF Retained
<1>10. /\ seenNonces' \subseteq seenNonces \cup {e} /\ Retained(now) \subseteq seenNonces'
       /\ ok => e \in seenNonces'
  BY <1>5, <1>8, <1>9
<1>11. /\ accepts' \subseteq accepts \cup {key} /\ accepts \subseteq accepts'
       /\ seenNonces' \subseteq seenNonces \/ ok
       /\ ok => key \in accepts'
       /\ ~ ok => accepts' = accepts
  BY <1>5, <1>9
<1>12. GuardTypes'
  BY <1>1, <1>2, <1>3, <1>7, <1>10, <1>11 DEF GuardTypes, GuardsIInv
<1>13. SeenWasAccepted'
  <2>1. SUFFICES ASSUME NEW s \in seenNonces' PROVE <<s.peer, s.nonce, s.ts>> \in accepts'
    BY DEF SeenWasAccepted
  <2>2. CASE s \in seenNonces
    BY <1>11, <2>2 DEF GuardsIInv, SeenWasAccepted
  <2>3. CASE s \notin seenNonces
    <3>1. s = e /\ ok
      BY <1>10, <1>11, <2>3
    <3> QED
      BY <1>11, <3>1
  <2> QED
    BY <2>2, <2>3
<1>14. AcceptedRememberedOrStale'
  <2>1. SUFFICES ASSUME NEW a \in accepts'
                 PROVE  \/ [peer |-> a[1], nonce |-> a[2], ts |-> a[3]] \in seenNonces'
                        \/ a[3] < cut
    BY <1>3 DEF AcceptedRememberedOrStale
  <2>2. CASE a \in accepts
    <3> DEFINE s == [peer |-> a[1], nonce |-> a[2], ts |-> a[3]]
    <3>1. a[3] \in Nat /\ s.ts = a[3]
      BY <1>1, <2>2
    <3>2. s \in seenNonces \/ a[3] < Floor(highWater, FreshnessPast)
      BY <2>2 DEF GuardsIInv, GuardsInv, AcceptedRememberedOrStale
    <3> HIDE DEF s
    <3>3. CASE s \in seenNonces
      <4>1. a[3] < cut \/ s.ts >= cut
        BY <1>4, <3>1
      <4> QED
        BY <1>9, <1>10, <3>3, <4>1 DEF s
    <3>4. CASE a[3] < Floor(highWater, FreshnessPast)
      <4>1. a[3] < cut
        BY <1>4, <3>1, <3>4
      <4> QED
        BY <4>1
    <3> QED
      BY <3>2, <3>3, <3>4
  <2>3. CASE a \notin accepts
    <3>1. a = key /\ ok
      BY <1>11, <2>3
    <3> QED
      BY <1>8, <1>10, <3>1
  <2> QED
    BY <2>2, <2>3
<1>15. EnvelopeOnce'
  <2>1. ASSUME ok, key \in accepts PROVE FALSE
    <3>1. e.ts >= cut
      BY <1>1, <1>4, <1>6, <2>1 DEF Fresh
    <3>2. e \in seenNonces \/ e.ts < Floor(highWater, FreshnessPast)
      <4>1. key[1] = e.peer /\ key[2] = e.nonce /\ key[3] = e.ts
        OBVIOUS
      <4>2. \/ [peer |-> key[1], nonce |-> key[2], ts |-> key[3]] \in seenNonces
            \/ key[3] < Floor(highWater, FreshnessPast)
        BY <2>1 DEF GuardsIInv, GuardsInv, AcceptedRememberedOrStale
      <4> QED
        BY <1>8, <4>1, <4>2
    <3>3. e \in seenNonces
      BY <1>1, <1>4, <3>1, <3>2
    <3>4. e \in Retained(now)
      BY <1>9, <3>1, <3>3
    <3> QED
      BY <1>6, <2>1, <3>4 DEF Known
  <2>2. ~ acceptedTwice
    BY DEF GuardsIInv, GuardsInv, EnvelopeOnce
  <2> QED
    BY <1>5, <2>1, <2>2 DEF EnvelopeOnce
<1> QED
  BY <1>7, <1>11, <1>12, <1>13, <1>14, <1>15 DEF GuardsIInv, GuardsInv

-----------------------------------------------------------------------------
(* The server and the senders.                                               *)

HandlerState ==
    [pc : {"idle", "read", "count", "publish"}, env : Envelope \cup {NoEnvelope},
     first : BOOLEAN, now : Nat, count : Nat]

SenderState ==
    [pc : {"endpoint", "sending", "sleep", "done"}, ep : Nat, tries : Nat, built : Nat,
     until : Nat,
     answer : {"none", "accepted", "rejected", "replayed", "stale", "gave up"}]

Replies == Permanent \cup {"accepted", "limited", "unknown", "error"}

\* What a permit is held for is an envelope of a peer, and so is what is under way.
HandlersInv ==
    /\ handler \in [Handlers -> HandlerState]
    /\ \A h \in Handlers : handler[h].pc # "idle" => handler[h].env \in Envelope

NetInv ==
    /\ time \in Start .. MaxTime
    /\ sent \subseteq Envelope /\ wire \subseteq sent
    /\ HandlersInv /\ counts \in [Peers -> Nat]

\* A sender has an answer only when its loop has returned.
SenderInv ==
    /\ sender \in [Peers -> SenderState]
    /\ \A p \in Peers : sender[p].answer # "none" => sender[p].pc = "done"

ServerIInv == QueueIInv /\ GuardsIInv /\ NetInv /\ SenderInv /\ ReplayedWasDelivered

LEMMA ClockFacts ==
    ASSUME NetInv
    PROVE  /\ time \in Nat /\ Reading \in Nat /\ Reading > QuotaWindow
           /\ Clock(Reading) \in Nat \/ highWater \notin Nat
<1>1. /\ time \in Nat /\ time >= Start /\ Start \in Nat /\ Start > QuotaWindow
      /\ QuotaWindow \in Nat /\ Excursion \in Nat
  BY ServerAssumption, GuardsAssumption DEF NetInv
<1> QED
  BY <1>1 DEF Reading, Clock, Later

Sleeping(s, u, j) == [s EXCEPT !.pc = "sleep", !.ep = 1, !.until = u, !.tries = j]

LEMMA SleepingType ==
    ASSUME NEW s \in SenderState, NEW u \in Nat, NEW j \in Nat
    PROVE  /\ Sleeping(s, u, j) \in SenderState /\ Sleeping(s, u, j).built = s.built
           /\ Sleeping(s, u, j).answer = s.answer
<1> DEFINE a == [s EXCEPT !.pc = "sleep", !.ep = 1]
<1>1. a \in SenderState /\ a.built = s.built /\ a.answer = s.answer
  BY DEF SenderState
<1>2. Sleeping(s, u, j) = [a EXCEPT !.until = u, !.tries = j]
  BY DEF Sleeping, SenderState
<1> HIDE DEF a
<1> QED
  BY <1>1, <1>2 DEF SenderState

\* A turn of retry_loop.
LEMMA ResolvedOf ==
    ASSUME NetInv, SenderInv, NEW p \in Peers, NEW r \in Replies, NEW w \in Nat,
           sender[p].pc # "done"
    PROVE  /\ Resolved(p, r, w) \in SenderState
           /\ Resolved(p, r, w).built = sender[p].built
           /\ Resolved(p, r, w).answer # "none" => Resolved(p, r, w).pc = "done"
           /\ Resolved(p, r, w).answer = "replayed" => r = "replayed"
<1> DEFINE s == sender[p]
           i == IF s.tries < Len(Backoff) THEN s.tries + 1 ELSE Len(Backoff)
           nap == Later(IF r = "limited" THEN w ELSE Backoff[i], 1)
           left == Floor(Deadline[p], time) + 1
           u == time + (IF nap < left THEN nap ELSE left)
<1>1. s \in SenderState /\ s.answer = "none" /\ s.tries \in Nat
  BY DEF SenderInv, SenderState
<1>2. time \in Nat /\ Deadline[p] \in Nat
  BY ClockFacts, ServerAssumption
<1>3. Backoff \in Seq(Nat) /\ Len(Backoff) \in Nat /\ Len(Backoff) # 0
  BY ServerAssumption
<1>4. i \in 1 .. Len(Backoff) /\ i \in Nat
  BY <1>1, <1>3
<1> HIDE DEF i
<1>5. Backoff[i] \in Nat
  BY <1>3, <1>4
<1>6. nap \in Nat /\ left \in Nat
  <2>1. Floor(Deadline[p], time) \in Nat
    BY <1>2, FloorOf
  <2> QED
    BY <1>5, <2>1 DEF Later
<1> HIDE DEF nap, left
<1>7. u \in Nat
  BY <1>2, <1>6
<1>8. Resolved(p, r, w) =
        IF r \in Permanent \cup {"accepted"} THEN [s EXCEPT !.pc = "done", !.answer = r]
        ELSE IF time > Deadline[p] THEN [s EXCEPT !.pc = "done", !.answer = "gave up"]
        ELSE [s EXCEPT !.pc = "sleep", !.ep = 1, !.until = u,
                       !.tries = IF r = "limited" THEN @ ELSE i]
  BY DEF Resolved, i, nap, left
<1> HIDE DEF u, s
<1>9. CASE r \in Permanent \cup {"accepted"}
  <2>1. r \in {"accepted", "rejected", "replayed", "stale"}
    BY <1>9 DEF Permanent
  <2>2. Resolved(p, r, w) = [s EXCEPT !.pc = "done", !.answer = r]
    BY <1>8, <1>9
  <2> QED
    BY <1>1, <2>1, <2>2 DEF SenderState, s
<1>10. CASE r \notin Permanent \cup {"accepted"} /\ time > Deadline[p]
  <2>1. Resolved(p, r, w) = [s EXCEPT !.pc = "done", !.answer = "gave up"]
    BY <1>8, <1>10
  <2> QED
    BY <1>1, <2>1 DEF SenderState, s
<1>11. CASE r \notin Permanent \cup {"accepted"} /\ ~ (time > Deadline[p])
  <2> DEFINE j == IF r = "limited" THEN s.tries ELSE i
  <2>1. Resolved(p, r, w) = [s EXCEPT !.pc = "sleep", !.ep = 1, !.until = u, !.tries = j]
    BY <1>8, <1>11
  <2>2. j \in Nat
    BY <1>1, <1>4
  <2> HIDE DEF j
  <2>3. Sleeping(s, u, j) \in SenderState /\ Sleeping(s, u, j).built = s.built
        /\ Sleeping(s, u, j).answer = "none"
    BY <1>1, <1>7, <2>2, SleepingType
  <2>4. Resolved(p, r, w) = Sleeping(s, u, j)
    BY <2>1 DEF Sleeping
  <2> QED
    BY <2>3, <2>4 DEF s
<1> QED
  BY <1>9, <1>10, <1>11

\* A sender that is told a reply: only a replayed envelope, which was accepted, makes
\* its answer "replayed".
LEMMA TellStep ==
    ASSUME NetInv, SenderInv, ReplayedWasDelivered, accepts \subseteq accepts',
           NEW p \in Peers, NEW n \in Nat, NEW r \in Replies, NEW w \in Nat,
           r = "replayed" => \E a \in accepts' : a[1] = p /\ a[2] = n,
           Tell(p, n, r, w)
    PROVE  SenderInv' /\ ReplayedWasDelivered'
<1>1. CASE UNCHANGED sender
  BY <1>1 DEF SenderInv, ReplayedWasDelivered
<1>2. CASE /\ sender[p].pc = "sending" /\ sender[p].built = n
           /\ sender' = [sender EXCEPT ![p] = Resolved(p, r, w)]
  <2> DEFINE s == Resolved(p, r, w)
  <2>1. /\ s \in SenderState /\ s.built = n
        /\ s.answer # "none" => s.pc = "done"
        /\ s.answer = "replayed" => r = "replayed"
    BY <1>2, ResolvedOf
  <2> HIDE DEF s
  <2>2. /\ sender' \in [Peers -> SenderState] /\ sender'[p] = s
        /\ \A q \in Peers : q # p => sender'[q] = sender[q]
    BY <1>2, <2>1 DEF SenderInv, s
  <2>3. SenderInv'
    BY <2>1, <2>2 DEF SenderInv
  <2>4. ReplayedWasDelivered'
    <3>1. SUFFICES ASSUME NEW q \in Peers, sender'[q].answer = "replayed"
                   PROVE  \E a \in accepts' : a[1] = q /\ a[2] = sender'[q].built
      BY DEF ReplayedWasDelivered
    <3>2. CASE q = p
      BY <2>1, <2>2, <3>1, <3>2
    <3>3. CASE q # p
      BY <2>2, <3>1, <3>3 DEF ReplayedWasDelivered
    <3> QED
      BY <3>2, <3>3
  <2> QED
    BY <2>3, <2>4
<1> QED
  BY <1>1, <1>2 DEF Tell

LEMMA QueueKept == QueueIInv /\ UNCHANGED queueVars => QueueIInv'
  BY DEF QueueIInv, QueueShape, QueueTypeOK, DedupeMatchesQueue, RecentAlertsQueued,
         NumbersGiven, OneEventPerOutage, Cursor, KeysOf, queueVars

LEMMA GuardsKept ==
    GuardsIInv /\ UNCHANGED guardVars => GuardsIInv' /\ accepts' = accepts
  BY DEF GuardsIInv, GuardTypes, SeenWasAccepted, ChargesKept, GuardsInv, EnvelopeOnce,
         AcceptedRememberedOrStale, QuotaHolds, guardVars

LEMMA HandlerSet ==
    ASSUME HandlersInv, NEW h \in Handlers, NEW s \in HandlerState,
           s.pc # "idle" => s.env \in Envelope, handler' = [handler EXCEPT ![h] = s]
    PROVE  HandlersInv'
<1>1. /\ handler' \in [Handlers -> HandlerState] /\ handler'[h] = s
      /\ \A g \in Handlers : g # h => handler'[g] = handler[g]
  BY DEF HandlersInv
<1> QED
  BY <1>1 DEF HandlersInv

LEMMA IdleType == Idle \in HandlerState /\ Idle.pc = "idle"
<1>1. NoEnvelope \in Envelope \cup {NoEnvelope} /\ 0 \in Nat /\ FALSE \in BOOLEAN
  OBVIOUS
<1> QED
  BY <1>1 DEF Idle, HandlerState

\* The answer of a handler, whatever it is.
LEMMA AnswerStep ==
    ASSUME NetInv, SenderInv, ReplayedWasDelivered, accepts \subseteq accepts',
           NEW h \in Handlers, handler[h].pc # "idle", NEW r \in Replies, NEW w \in Nat,
           r = "replayed" => \E a \in accepts' :
               a[1] = handler[h].env.peer /\ a[2] = handler[h].env.nonce,
           Answer(h, r, w)
    PROVE  HandlersInv' /\ SenderInv' /\ ReplayedWasDelivered'
<1>1. HandlersInv'
  BY IdleType, HandlerSet DEF Answer, NetInv
<1>2. handler[h].env.peer \in Peers /\ handler[h].env.nonce \in Nat
  BY DEF NetInv, HandlersInv, Envelope
<1>3. CASE handler[h].first
  BY <1>1, <1>2, <1>3, TellStep DEF Answer
<1>4. CASE ~ handler[h].first
  <2>1. UNCHANGED sender
    BY <1>4 DEF Answer
  <2> QED
    BY <1>1, <2>1 DEF SenderInv, ReplayedWasDelivered
<1> QED
  BY <1>3, <1>4

LEMMA ServerInit == Init => ServerIInv
<1> SUFFICES ASSUME Init PROVE ServerIInv
  OBVIOUS
<1>1. QueueIInv /\ GuardsIInv
  BY QueueStart, GuardsStart DEF Init
<1>2. NetInv
  <2>1. time \in Start .. MaxTime
    BY ServerAssumption DEF Init
  <2>2. HandlersInv
    BY IdleType DEF Init, HandlersInv
  <2> QED
    BY <2>1, <2>2, ServerAssumption DEF Init, NetInv
<1>3. SenderInv /\ ReplayedWasDelivered
  BY DEF Init, SenderInv, SenderState, ReplayedWasDelivered
<1> QED
  BY <1>1, <1>2, <1>3 DEF ServerIInv

\* The steps of a sender's loop.
LEMMA SenderSteps ==
    ASSUME ServerIInv, NEW p \in Peers, SenderStep(p)
    PROVE  ServerIInv'
<1>1. UNCHANGED queueVars /\ UNCHANGED guardVars /\ UNCHANGED timeVars /\ UNCHANGED serverVars
  BY DEF SenderStep, TryEndpoint, SendFails, Wake
<1>2. QueueIInv' /\ GuardsIInv' /\ accepts' = accepts
  BY <1>1, QueueKept, GuardsKept DEF ServerIInv
<1>3. /\ time' = time /\ handler' = handler /\ counts' = counts /\ time \in Nat
      /\ sender \in [Peers -> SenderState] /\ sender[p] \in SenderState
  BY <1>1, ClockFacts DEF ServerIInv, SenderInv, timeVars, serverVars
\* What is left to show of a new state s of the sender.
<1>4. ASSUME NEW s \in SenderState, sender' = [sender EXCEPT ![p] = s],
             s.answer # "none" => s.pc = "done", s.answer # "replayed"
      PROVE  SenderInv' /\ ReplayedWasDelivered'
  <2>1. /\ sender' \in [Peers -> SenderState] /\ sender'[p] = s
        /\ \A q \in Peers : q # p => sender'[q] = sender[q]
    BY <1>3, <1>4
  <2> QED
    BY <1>2, <1>4, <2>1 DEF SenderInv, ReplayedWasDelivered, ServerIInv
<1>5. CASE TryEndpoint(p)
  <2>1. sender[p].pc = "endpoint" /\ sender[p].answer = "none"
    BY <1>5 DEF TryEndpoint, ServerIInv, SenderInv, SenderState
  <2>2. CASE /\ sender' = [sender EXCEPT ![p] = Resolved(p, "error", 0)]
             /\ UNCHANGED netVars
    <3> DEFINE s == Resolved(p, "error", 0)
    <3>1. "error" \in Replies /\ 0 \in Nat
      BY DEF Replies
    <3>2. /\ s \in SenderState /\ (s.answer # "none" => s.pc = "done")
          /\ s.answer # "replayed"
      BY <2>1, <3>1, ResolvedOf DEF ServerIInv
    <3> HIDE DEF s
    <3>3. SenderInv' /\ ReplayedWasDelivered'
      BY <1>4, <2>2, <3>2 DEF s
    <3>4. NetInv'
      BY <1>3, <2>2 DEF ServerIInv, NetInv, HandlersInv, netVars
    <3> QED
      BY <1>2, <3>3, <3>4 DEF ServerIInv
  <2>3. CASE LET e == [peer |-> p, nonce |-> NonceFor(p), ts |-> time] IN
             /\ sent' = sent \cup {e} /\ wire' = wire \cup {e}
             /\ sender' = [sender EXCEPT ![p].pc = "sending", ![p].built = e.nonce]
    <3> DEFINE n == NonceFor(p)
               e == [peer |-> p, nonce |-> n, ts |-> time]
               s == [sender[p] EXCEPT !.pc = "sending", !.built = n]
    <3>1. n \in Nat
      <4>1. sender[p].built \in Nat
        BY <1>3 DEF SenderState
      <4> QED
        BY <4>1 DEF NonceFor
    <3>2. e.nonce = n /\ sent' = sent \cup {e} /\ wire' = wire \cup {e}
      BY <2>3
    <3>3. sender' = [sender EXCEPT ![p] = s]
      BY <1>3, <2>3
    <3>4. s \in SenderState /\ s.answer = "none"
      BY <1>3, <2>1, <3>1 DEF SenderState
    <3>5. e \in Envelope
      BY <1>3, <3>1 DEF Envelope
    <3> HIDE DEF n, s, e
    <3>6. SenderInv' /\ ReplayedWasDelivered'
      BY <1>4, <3>3, <3>4
    <3>7. NetInv'
      BY <1>3, <3>2, <3>5 DEF ServerIInv, NetInv, HandlersInv
    <3> QED
      BY <1>2, <3>6, <3>7 DEF ServerIInv
  <2> QED
    BY <1>5, <2>2, <2>3 DEF TryEndpoint
<1>6. CASE SendFails(p)
  <2> DEFINE s == [sender[p] EXCEPT !.pc = "endpoint", !.ep = @ + 1]
  <2>1. sender' = [sender EXCEPT ![p] = s] /\ UNCHANGED netVars
    BY <1>3, <1>6 DEF SendFails
  <2>2. sender[p].answer = "none"
    BY <1>6 DEF SendFails, ServerIInv, SenderInv, SenderState
  <2>3. s \in SenderState /\ s.answer = "none"
    <3> DEFINE n == sender[p].ep + 1
    <3>1. n \in Nat
      <4>1. sender[p].ep \in Nat
        BY <1>3 DEF SenderState
      <4> QED
        BY <4>1
    <3>2. s = [sender[p] EXCEPT !.pc = "endpoint", !.ep = n]
      OBVIOUS
    <3> HIDE DEF n
    <3> QED
      BY <1>3, <2>2, <3>1, <3>2 DEF SenderState
  <2> HIDE DEF s
  <2>4. SenderInv' /\ ReplayedWasDelivered'
    BY <1>4, <2>1, <2>3
  <2>5. NetInv'
    BY <1>3, <2>1 DEF ServerIInv, NetInv, HandlersInv, netVars
  <2> QED
    BY <1>2, <2>4, <2>5 DEF ServerIInv
<1>7. CASE Wake(p)
  <2> DEFINE a == [sender[p] EXCEPT !.pc = "done", !.answer = "gave up"]
             b == [sender[p] EXCEPT !.pc = "endpoint", !.until = 0]
             s == IF time > Deadline[p] THEN a ELSE b
  <2>1. sender' = [sender EXCEPT ![p] = s] /\ UNCHANGED netVars
    BY <1>3, <1>7 DEF Wake
  <2>2. sender[p].answer = "none"
    BY <1>7 DEF Wake, ServerIInv, SenderInv, SenderState
  <2>3. a \in SenderState /\ a.pc = "done" /\ a.answer = "gave up"
    BY <1>3 DEF SenderState
  <2>4. b \in SenderState /\ b.answer = "none"
    BY <1>3, <2>2 DEF SenderState
  <2>5. s \in SenderState /\ (s.answer # "none" => s.pc = "done") /\ s.answer # "replayed"
    <3> HIDE DEF a, b
    <3> QED
      BY <2>3, <2>4
  <2> HIDE DEF s
  <2>6. SenderInv' /\ ReplayedWasDelivered'
    BY <1>4, <2>1, <2>5
  <2>7. NetInv'
    BY <1>3, <2>1 DEF ServerIInv, NetInv, HandlersInv, netVars
  <2> QED
    BY <1>2, <2>6, <2>7 DEF ServerIInv
<1> QED
  BY <1>5, <1>6, <1>7 DEF SenderStep

\* A copy that reaches POST /channel was sent by a peer.
LEMMA ArrivesOf ==
    ASSUME NetInv, NEW e \in sent, NEW first \in BOOLEAN, Arrives(e, first)
    PROVE  e \in Envelope /\ sent' = sent /\ wire' \subseteq wire
  BY DEF NetInv, Arrives

LEMMA ArriveSteps ==
    ASSUME ServerIInv, NEW e \in sent, NEW first \in BOOLEAN,
           NoPermit(e, first) \/ \E h \in Handlers : Accept(h, e, first)
    PROVE  ServerIInv'
<1>1. /\ UNCHANGED queueVars /\ UNCHANGED guardVars /\ UNCHANGED timeVars
      /\ counts' = counts /\ Arrives(e, first)
  BY DEF NoPermit, Accept, serverVars
<1>2. QueueIInv' /\ GuardsIInv' /\ accepts' = accepts /\ NetInv /\ SenderInv
  BY <1>1, QueueKept, GuardsKept DEF ServerIInv
<1>3. e \in Envelope /\ sent' = sent /\ wire' \subseteq wire
  BY <1>1, <1>2, ArrivesOf
<1>4. HandlersInv' => NetInv'
  BY <1>1, <1>2, <1>3 DEF NetInv, timeVars
<1>5. CASE NoPermit(e, first)
  <2>1. HandlersInv'
    BY <1>2, <1>5 DEF NoPermit, serverVars, NetInv, HandlersInv
  <2>2. SenderInv' /\ ReplayedWasDelivered'
    <3>1. CASE first
      <4>1. /\ e.peer \in Peers /\ e.nonce \in Nat /\ "limited" \in Replies /\ 1 \in Nat
            /\ "limited" # "replayed" /\ accepts \subseteq accepts'
        BY <1>2, <1>3 DEF Envelope, Replies
      <4>2. Tell(e.peer, e.nonce, "limited", 1)
        BY <1>5, <3>1 DEF NoPermit
      <4> QED
        BY <1>2, <4>1, <4>2, TellStep DEF ServerIInv
    <3>2. CASE ~ first
      BY <1>2, <1>5, <3>2 DEF NoPermit, ServerIInv, SenderInv, ReplayedWasDelivered
    <3> QED
      BY <3>1, <3>2
  <2> QED
    BY <1>2, <1>4, <2>1, <2>2 DEF ServerIInv
<1>6. ASSUME NEW h \in Handlers, Accept(h, e, first) PROVE ServerIInv'
  <2> DEFINE s == [Idle EXCEPT !.pc = "read", !.env = e, !.first = first]
  <2>1. s \in HandlerState /\ s.env = e
    BY <1>3, IdleType DEF HandlerState
  <2>2. handler' = [handler EXCEPT ![h] = s] /\ sender' = sender
    BY <1>6 DEF Accept
  <2> HIDE DEF s
  <2>3. HandlersInv'
    BY <1>2, <1>3, <2>1, <2>2, HandlerSet DEF NetInv
  <2> QED
    BY <1>2, <1>4, <2>2, <2>3 DEF ServerIInv, SenderInv, ReplayedWasDelivered
<1> QED
  BY <1>5, <1>6

\* What a handler does with its request.
LEMMA HandlerSteps ==
    ASSUME ServerIInv, NEW h \in Handlers, HandlerStep(h)
    PROVE  ServerIInv'
<1> DEFINE e == handler[h].env
<1>1. /\ UNCHANGED timeVars /\ UNCHANGED netVars
  BY DEF HandlerStep, TurnAway, Ingest, CountReject, PublishReject
<1>2. /\ NetInv /\ SenderInv /\ ReplayedWasDelivered /\ GuardsIInv /\ QueueIInv
      /\ HandlersInv /\ handler[h] \in HandlerState
  BY DEF ServerIInv, NetInv, HandlersInv
<1>3. HandlersInv' /\ counts' \in [Peers -> Nat] => NetInv'
  BY <1>1, <1>2 DEF NetInv, timeVars, netVars
<1>4. handler[h].pc # "idle" /\ e \in Envelope
  <2>1. handler[h].pc \in {"read", "count", "publish"}
    BY DEF HandlerStep, TurnAway, Ingest, CountReject, PublishReject
  <2> QED
    BY <1>2, <2>1 DEF HandlersInv
<1>5. /\ e.peer \in Peers /\ e.nonce \in Nat /\ handler[h].now \in Nat
      /\ handler[h].count \in Nat
  BY <1>2, <1>4 DEF Envelope, HandlerState
<1>6. counts \in [Peers -> Nat]
  BY <1>2 DEF NetInv
<1>7. CASE TurnAway(h)
  <2>1. /\ UNCHANGED queueVars /\ UNCHANGED guardVars /\ counts' = counts
        /\ Answer(h, "limited", 1) \/ Answer(h, "rejected", 0)
    BY <1>7 DEF TurnAway
  <2>2. QueueIInv' /\ GuardsIInv' /\ accepts \subseteq accepts'
    BY <1>2, <2>1, QueueKept, GuardsKept
  <2>3. /\ "limited" \in Replies /\ "rejected" \in Replies /\ 1 \in Nat /\ 0 \in Nat
        /\ "limited" # "replayed" /\ "rejected" # "replayed"
    BY DEF Replies, Permanent
  <2>4. HandlersInv' /\ SenderInv' /\ ReplayedWasDelivered'
    BY <1>2, <1>4, <2>1, <2>2, <2>3, AnswerStep
  <2> QED
    BY <1>3, <1>6, <2>1, <2>2, <2>4 DEF ServerIInv
<1>8. CASE Ingest(h)
  <2> DEFINE now == Clock(Reading)
             v == Verdict(e, now)
  <2>1. /\ UNCHANGED queueVars /\ counts' = counts /\ CheckAndConsume(e, Reading)
        /\ \/ v = "accepted" /\ \E r \in Dispatched : Answer(h, r, 0)
           \/ /\ v = "stale" /\ UNCHANGED sender
              /\ handler' = [handler EXCEPT ![h].pc = "count", ![h].now = now]
           \/ v = "replayed" /\ Answer(h, "replayed", 0)
           \/ v = "limited" /\ Answer(h, "limited", RetryAfter(e.peer, now))
    BY <1>8 DEF Ingest
  <2>2. Reading \in Nat /\ Reading > QuotaWindow /\ now \in Nat
    BY <1>2, ClockFacts DEF GuardsIInv, GuardTypes
  <2>3. QueueIInv' /\ GuardsIInv' /\ accepts \subseteq accepts'
    BY <1>2, <1>4, <2>1, <2>2, QueueKept, CheckStep
  <2>4. HandlersInv' /\ SenderInv' /\ ReplayedWasDelivered'
    <3>1. ASSUME NEW r \in Dispatched, Answer(h, r, 0)
          PROVE  HandlersInv' /\ SenderInv' /\ ReplayedWasDelivered'
      <4>1. r \in Replies /\ r # "replayed" /\ 0 \in Nat
        BY DEF Dispatched, Replies, Permanent
      <4> QED
        BY <1>2, <1>4, <2>3, <3>1, <4>1, AnswerStep
    <3>2. ASSUME UNCHANGED sender,
                 handler' = [handler EXCEPT ![h].pc = "count", ![h].now = now]
          PROVE  HandlersInv' /\ SenderInv' /\ ReplayedWasDelivered'
      <4> DEFINE s == [handler[h] EXCEPT !.pc = "count", !.now = now]
      <4> HIDE DEF now
      <4>1. s \in HandlerState /\ s.env = e
        BY <1>2, <2>2 DEF HandlerState
      <4>2. handler' = [handler EXCEPT ![h] = s]
        BY <1>2, <3>2 DEF HandlersInv
      <4> HIDE DEF s
      <4>3. HandlersInv'
        BY <1>2, <1>4, <4>1, <4>2, HandlerSet
      <4> QED
        BY <1>2, <2>3, <3>2, <4>3 DEF SenderInv, ReplayedWasDelivered
    <3>3. ASSUME v = "replayed", Answer(h, "replayed", 0)
          PROVE  HandlersInv' /\ SenderInv' /\ ReplayedWasDelivered'
      <4>1. Known(e, now)
        BY <3>3 DEF Verdict
      <4>2. PICK s \in seenNonces : s.peer = e.peer /\ s.nonce = e.nonce
        BY <4>1 DEF Known, Retained
      <4> DEFINE a == <<s.peer, s.nonce, s.ts>>
      <4>3. a \in accepts' /\ a[1] = e.peer /\ a[2] = e.nonce
        BY <1>2, <2>3, <4>2 DEF GuardsIInv, SeenWasAccepted
      <4>4. "replayed" \in Replies /\ 0 \in Nat
        BY DEF Replies, Permanent
      <4>5. \E b \in accepts' : b[1] = e.peer /\ b[2] = e.nonce
        BY <4>3
      <4> QED
        BY <1>2, <1>4, <2>3, <3>3, <4>4, <4>5, AnswerStep
    <3>4. ASSUME v = "limited", Answer(h, "limited", RetryAfter(e.peer, now))
          PROVE  HandlersInv' /\ SenderInv' /\ ReplayedWasDelivered'
      <4> DEFINE live == LiveCharges(e.peer, now)
      <4>1. ~ UnderQuota(e.peer, now)
        BY <3>4 DEF Verdict
      <4>2. charged[e.peer] \in Seq(Nat)
        BY <1>2, <1>5 DEF GuardsIInv, GuardTypes
      <4>3. live \in Seq(Nat) /\ ~ (Len(live) < Quota) /\ Quota \in Nat \ {0}
        BY <1>5, <2>2, <4>1, <4>2, LiveOf, GuardsAssumption DEF UnderQuota
      <4>4. Head(live) \in Nat
        BY <4>3
      <4> HIDE DEF live, now
      <4>5. Floor(Head(live) + QuotaWindow, now) \in Nat
        <5> DEFINE m == Head(live) + QuotaWindow
        <5>1. m \in Nat
          BY <4>4, GuardsAssumption
        <5> HIDE DEF m
        <5>2. Floor(m, now) \in Nat
          BY <2>2, <5>1, FloorOf
        <5> QED
          BY <5>2 DEF m
      <4>6. RetryAfter(e.peer, now) \in Nat
        BY <4>5 DEF RetryAfter, Later, live
      <4>7. "limited" \in Replies /\ "limited" # "replayed"
        BY DEF Replies
      <4> QED
        BY <1>2, <1>4, <2>3, <3>4, <4>6, <4>7, AnswerStep
    <3> QED
      BY <2>1, <3>1, <3>2, <3>3, <3>4
  <2> QED
    BY <1>3, <1>6, <2>1, <2>3, <2>4 DEF ServerIInv
<1>9. CASE CountReject(h)
  <2> DEFINE c == counts[e.peer] + 1
             s == [handler[h] EXCEPT !.pc = "publish", !.count = c]
  <2>1. /\ UNCHANGED queueVars /\ UNCHANGED guardVars /\ sender' = sender
        /\ counts' = [counts EXCEPT ![e.peer] = c]
    BY <1>9 DEF CountReject
  <2>2. handler' = [handler EXCEPT ![h] = s]
    BY <1>2, <1>9 DEF CountReject, HandlersInv
  <2>3. c \in Nat
    BY <1>5, <1>6
  <2> HIDE DEF c
  <2>4. s \in HandlerState /\ s.env = e /\ counts' \in [Peers -> Nat]
    BY <1>2, <1>5, <1>6, <2>1, <2>3 DEF HandlerState
  <2> HIDE DEF s
  <2>5. HandlersInv'
    BY <1>2, <1>4, <2>2, <2>4, HandlerSet
  <2>6. QueueIInv' /\ GuardsIInv' /\ accepts' = accepts
    BY <1>2, <2>1, QueueKept, GuardsKept
  <2> QED
    BY <1>2, <1>3, <2>1, <2>4, <2>5, <2>6 DEF ServerIInv, SenderInv, ReplayedWasDelivered
<1>10. CASE PublishReject(h)
  <2>1. /\ UNCHANGED guardVars /\ counts' = counts
        /\ RecordFreshness(e.peer, handler[h].count, handler[h].now)
        /\ \E r \in StaleDispatched : Answer(h, r, 0)
    BY <1>10 DEF PublishReject, StaleDispatched
  <2>2. QueueIInv' /\ GuardsIInv' /\ accepts \subseteq accepts'
    BY <1>2, <1>5, <2>1, RecordFreshnessStep, GuardsKept
  <2>3. PICK r \in StaleDispatched : Answer(h, r, 0)
    BY <2>1
  <2>4. r \in Replies /\ r # "replayed" /\ 0 \in Nat
    BY DEF StaleDispatched, Replies, Permanent
  <2>5. HandlersInv' /\ SenderInv' /\ ReplayedWasDelivered'
    BY <1>2, <1>4, <2>2, <2>3, <2>4, AnswerStep
  <2> QED
    BY <1>3, <1>6, <2>1, <2>2, <2>5 DEF ServerIInv
<1> QED
  BY <1>7, <1>8, <1>9, <1>10 DEF HandlerStep

LEMMA ServerStep == ServerIInv /\ [Next]_vars => ServerIInv'
<1> SUFFICES ASSUME ServerIInv, [Next]_vars PROVE ServerIInv'
  OBVIOUS
<1>1. ASSUME NEW p \in Peers, SenderStep(p) PROVE ServerIInv'
  BY <1>1, SenderSteps
<1>2. ASSUME NEW e \in sent, NEW first \in BOOLEAN,
             NoPermit(e, first) \/ \E h \in Handlers : Accept(h, e, first)
      PROVE  ServerIInv'
  BY <1>2, ArriveSteps
<1>3. ASSUME NEW h \in Handlers, HandlerStep(h) PROVE ServerIInv'
  BY <1>3, HandlerSteps
<1>4. ASSUME UNCHANGED <<guardVars, netVars, serverVars, sender>>, QueueIInv',
             time' \in Start .. MaxTime
      PROVE  ServerIInv'
  <2>1. GuardsIInv' /\ accepts' = accepts
    BY <1>4, GuardsKept DEF ServerIInv
  <2>2. NetInv'
    BY <1>4 DEF ServerIInv, NetInv, HandlersInv, netVars, serverVars
  <2>3. SenderInv' /\ ReplayedWasDelivered'
    BY <1>4, <2>1 DEF ServerIInv, SenderInv, ReplayedWasDelivered
  <2> QED
    BY <1>4, <2>1, <2>2, <2>3 DEF ServerIInv
<1>5. ASSUME NEW a \in Alerts, Alert(a) PROVE ServerIInv'
  <2>1. QueueIInv'
    BY <1>5, PushStep DEF Alert, ServerIInv
  <2>2. time' = time /\ UNCHANGED <<guardVars, netVars, serverVars, sender>>
    BY <1>5 DEF Alert, timeVars
  <2> QED
    BY <1>4, <2>1, <2>2 DEF ServerIInv, NetInv
<1>6. CASE Tick \/ StepClock
  <2>1. QueueIInv' /\ UNCHANGED <<guardVars, netVars, serverVars, sender>>
    BY <1>6, QueueKept DEF Tick, StepClock, ServerIInv
  <2>2. time' \in Start .. MaxTime
    <3>1. time \in Start .. MaxTime /\ Start \in Nat /\ MaxTime \in Nat
      BY ServerAssumption DEF ServerIInv, NetInv
    <3>2. time' = time \/ (time < MaxTime /\ time' = time + 1)
      BY <1>6 DEF Tick, StepClock
    <3> QED
      BY <3>1, <3>2
  <2> QED
    BY <1>4, <2>1, <2>2
<1>7. CASE UNCHANGED vars
  <2>1. QueueIInv' /\ time' = time /\ UNCHANGED <<guardVars, netVars, serverVars, sender>>
    BY <1>7, QueueKept DEF vars, timeVars, ServerIInv
  <2> QED
    BY <1>4, <2>1 DEF ServerIInv, NetInv
<1> QED
  BY <1>1, <1>2, <1>3, <1>5, <1>6, <1>7 DEF Next

-----------------------------------------------------------------------------
(* The theorems.                                                             *)

\* The inductive invariant holds: the queue, the guards, the permits and the senders
\* after every hold of the guards', the counters' and the queue's lock.
THEOREM ServerInductive == Spec => []ServerIInv
  BY ServerInit, ServerStep, PTL DEF Spec

\* check_and_consume and charge_quota, for any peers, windows and quota: an envelope
\* passes at most once however many copies arrive and however the clock moves, an
\* accepted one is remembered or stale for ever, and no window of any alignment has
\* more than the quota charged.
THEOREM GuardsInvHolds == Spec => []GuardsInv
<1>1. ServerIInv => GuardsInv
  BY DEF ServerIInv, GuardsIInv
<1> QED
  BY <1>1, ServerInductive, PTL

\* AlertQueue, for any cap, alerts and peers: the dedupe set is what is queued, a client
\* of /events that is at most cap events behind misses no alert, and an outage at one
\* mark is one event, though handlers reach the queue in any order.
THEOREM EventsInvHolds == Spec => []EventsInv
<1>1. ServerIInv => EventsInv
  <2> SUFFICES ASSUME ServerIInv PROVE EventsInv
    OBVIOUS
  <2>1. TypeOK
    <3>1. \A p \in Peers : sender[p].pc \in {"endpoint", "sending", "sleep", "done"}
      BY DEF ServerIInv, SenderInv, SenderState
    <3> QED
      BY <3>1 DEF ServerIInv, QueueIInv, QueueShape, GuardsIInv, GuardTypes, NetInv, TypeOK
  <2>2. NoAlertMissed
    <3>1. SUFFICES ASSUME NEW c \in 0 .. Cursor, Cursor - c <= Cap, NEW x \in pushed, x[1] > c
                   PROVE  \E e \in Since(c) : e.seq = x[1] /\ e.key = x[2]
      BY DEF NoAlertMissed
    <3>2. /\ nextSeq \in Nat \ {0} /\ Cap \in Nat /\ x[1] \in Nat
          /\ x[1] > Cursor - Cap => \E e \in entries : e.seq = x[1] /\ e.key = x[2]
      BY QueueAssumption DEF ServerIInv, QueueIInv, QueueShape, QueueTypeOK, RecentAlertsQueued
    <3>3. x[1] > Cursor - Cap
      BY <3>1, <3>2 DEF Cursor
    <3>4. PICK e \in entries : e.seq = x[1] /\ e.key = x[2]
      BY <3>2, <3>3
    <3> QED
      BY <3>1, <3>4 DEF Since
  <2> QED
    BY <2>1, <2>2
       DEF EventsInv, ServerIInv, QueueIInv, QueueShape, NumbersGiven
<1> QED
  BY <1>1, ServerInductive, PTL

\* retry_loop may take REPLAYED_NONCE for final: some copy of that very envelope passed
\* the receiver's guards, whatever was lost, repeated or turned away for quota.
THEOREM ReplayedWasDeliveredHolds == Spec => []ReplayedWasDelivered
<1>1. ServerIInv => ReplayedWasDelivered
  BY DEF ServerIInv
<1> QED
  BY <1>1, ServerInductive, PTL

\* record_freshness: a peer's published count never falls and its retained entry shows
\* that count, in whatever order the handlers take the queue's lock.
THEOREM CountsGrowHolds == Spec => CountsGrow
<1> DEFINE Grows == \A p \in Peers : published'[p].count >= published[p].count
           Shown == \A p \in Peers : \A e \in entries' : e.key = p => e.count = published'[p].count
<1>1. ServerIInv /\ [Next]_vars => Grows
  <2> SUFFICES ASSUME ServerIInv, [Next]_vars PROVE Grows
    OBVIOUS
  <2>1. \A p \in Peers : published[p].count \in Nat
    BY DEF ServerIInv, QueueIInv, QueueShape, QueueTypeOK
  <2>2. ASSUME NEW h \in Handlers, PublishReject(h) PROVE Grows
    <3>1. /\ handler[h] \in HandlerState /\ handler[h].env \in Envelope
      BY <2>2 DEF PublishReject, ServerIInv, NetInv, HandlersInv
    <3>2. /\ handler[h].env.peer \in Peers /\ handler[h].count \in Nat
          /\ handler[h].now \in Nat
      BY <3>1 DEF HandlerState, Envelope
    <3> QED
      BY <2>2, <3>2, RecordFreshnessStep DEF PublishReject, ServerIInv
  <2>3. ASSUME published' = published PROVE Grows
    BY <2>1, <2>3
  <2>4. \/ \E h \in Handlers : PublishReject(h)
        \/ published' = published
    BY DEF Next, SenderStep, TryEndpoint, SendFails, Wake, NoPermit, Accept, HandlerStep,
           TurnAway, Ingest, CountReject, Alert, Push, Tick, StepClock, queueVars, vars
  <2> QED
    BY <2>2, <2>3, <2>4
<1>2. ServerIInv' => Shown
  BY DEF ServerIInv, QueueIInv, QueueShape
<1>3. ServerIInv /\ ServerIInv' /\ [Next]_vars =>
         [\A p \in Peers : /\ published'[p].count >= published[p].count
                           /\ \A e \in entries' : e.key = p => e.count = published'[p].count]_queueVars
  BY <1>1, <1>2
<1> QED
  BY <1>3, ServerInductive, PTL DEF Spec, CountsGrow

=============================================================================
