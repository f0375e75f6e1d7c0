-------------------------- MODULE WatchtowerProofs --------------------------
(***************************************************************************)
(* Proofs about the watchtower for every chain height, reorg window and    *)
(* set of spends: the cursor always is one chain that has been scanned     *)
(* down to genesis, and it advances only along that chain.                 *)
(*                                                                         *)
(* The argument is about spines: the last blocks of one chain, oldest      *)
(* first.  The anchors are a spine, the blocks of a pass are one that      *)
(* starts where the anchors end, and a rewind, a trim, a scanned block and *)
(* a commit each make a spine out of spines.                               *)
(***************************************************************************)
EXTENDS Watchtower, SequenceTheorems, TLAPS

Labels == Empty \cup Spends \cup {Genesis}

\* Every element of bs is the prefix of the newest one, and lengths rise by one.
IsSpine(bs) ==
    \A i \in 1 .. Len(bs) :
        /\ Len(bs[i]) = Len(Newest(bs)) - Len(bs) + i
        /\ bs[i] = SubSeq(Newest(bs), 1, Len(bs[i]))

Passes == [pc : {"idle", "walk", "tip", "hash", "scan", "commit"},
           i : Nat, from : Nat, tip : Nat, tipHash : Seq(Labels),
           known : SUBSET Spends, blocks : Seq(Chains)]

WatchTypes ==
    /\ active \in Chains
    /\ authorized \subseteq Spends
    /\ raised \subseteq Spends
    /\ anchors \in Seq(Chains)
    /\ Len(anchors) <= MaxReorgDepth + 1
    /\ nextFrom \in Nat
    /\ pass \in Passes
    /\ faults \in 0 .. MaxFaults

\* What the cursor says: the length of the block it stands on, and a spine.
CursorInv ==
    /\ nextFrom = IF anchors = <<>> THEN 0 ELSE Len(Newest(anchors))
    /\ IsSpine(anchors)

\* The blocks read so far go on from the newest anchor.
BlocksInv ==
    /\ IsSpine(pass.blocks)
    /\ Len(pass.blocks) <= pass.tip + 1 - pass.from
    /\ pass.blocks # <<>> =>
          /\ Len(Newest(pass.blocks)) = pass.from + Len(pass.blocks)
          /\ anchors # <<>> => Parent(pass.blocks[1]) = Newest(anchors)

\* What a pass knows at each of its RPCs.
PassInv ==
    /\ pass.pc = "walk" => pass.i <= Len(anchors)
    /\ pass.pc \in {"idle", "walk", "tip", "hash"} => pass.blocks = <<>>
    /\ pass.pc \in {"tip", "hash", "scan", "commit"} => pass.from = nextFrom
    /\ pass.pc \in {"hash", "scan", "commit"} =>
          pass.tip <= MaxHeight /\ pass.from <= pass.tip + 1
    /\ pass.pc \in {"scan", "commit"} => pass.known \subseteq authorized /\ BlocksInv
    /\ pass.pc = "commit" => Len(pass.blocks) = pass.tip + 1 - pass.from

WatchIInv == WatchTypes /\ CursorInv /\ ScannedIsAlerted /\ PassInv

-----------------------------------------------------------------------------
(* Blocks: sequences of labels, closed under prefixes.                       *)

LEMMA ChainType ==
    ASSUME NEW b \in Chains
    PROVE  b \in Seq(Labels) /\ Len(b) \in 1 .. MaxHeight + 1
<1> USE WatchtowerAssumption
<1>0. PICK n \in 0 .. MaxHeight :
          \E q \in [1 .. n -> Empty \cup Spends] : b = <<Genesis>> \o q
      BY DEF Chains
<1>1. PICK q \in [1 .. n -> Empty \cup Spends] : b = <<Genesis>> \o q
      BY <1>0
<1>2. q \in Seq(Labels) /\ Len(q) = n
      BY DEF Labels
<1>3. <<Genesis>> \in Seq(Labels) /\ Len(<<Genesis>>) = 1
      BY DEF Labels
<1> QED BY <1>1, <1>2, <1>3, ConcatProperties

LEMMA ChainPrefix ==
    ASSUME NEW b \in Chains, NEW k \in 1 .. Len(b)
    PROVE  SubSeq(b, 1, k) \in Chains
<1> USE WatchtowerAssumption
<1> DEFINE L == Empty \cup Spends
<1>0. PICK n \in 0 .. MaxHeight : \E q \in [1 .. n -> L] :
          /\ b = <<Genesis>> \o q
          /\ \A i, j \in DOMAIN q : q[i] = q[j] /\ q[i] \in Spends => i = j
      BY DEF Chains
<1>1. PICK q \in [1 .. n -> L] :
          /\ b = <<Genesis>> \o q
          /\ \A i, j \in DOMAIN q : q[i] = q[j] /\ q[i] \in Spends => i = j
      BY <1>0
<1>2. q \in Seq(Labels) /\ Len(q) = n
      BY DEF Labels
<1>3. <<Genesis>> \in Seq(Labels) /\ Len(<<Genesis>>) = 1
      BY DEF Labels
<1>4. /\ b \in Seq(Labels) /\ Len(b) = 1 + n
      /\ \A i \in 1 .. 1 + n : b[i] = IF i <= 1 THEN <<Genesis>>[i] ELSE q[i - 1]
      BY <1>1, <1>2, <1>3, ConcatProperties
<1> DEFINE p == [i \in 1 .. k - 1 |-> q[i]]
<1>5. k - 1 \in 0 .. MaxHeight /\ k - 1 <= n
      BY <1>4
<1>6. p \in [1 .. k - 1 -> L]
      BY <1>5
<1>7. p \in Seq(Labels) /\ Len(p) = k - 1
      BY <1>6, <1>5 DEF Labels
<1>8. \A i, j \in DOMAIN p : p[i] = p[j] /\ p[i] \in Spends => i = j
      BY <1>1, <1>5
<1>9. <<Genesis>> \o p \in Chains
      BY <1>5, <1>6, <1>8 DEF Chains
<1>10. /\ <<Genesis>> \o p \in Seq(Labels) /\ Len(<<Genesis>> \o p) = k
       /\ \A i \in 1 .. k :
            (<<Genesis>> \o p)[i] = IF i <= 1 THEN <<Genesis>>[i] ELSE p[i - 1]
       BY <1>3, <1>7, ConcatProperties
<1>11. /\ SubSeq(b, 1, k) \in Seq(Labels) /\ Len(SubSeq(b, 1, k)) = k
       /\ \A i \in 1 .. k : SubSeq(b, 1, k)[i] = b[i]
       BY <1>4
<1> DEFINE u == <<Genesis>> \o p
           v == SubSeq(b, 1, k)
<1>12. /\ u \in Seq(Labels) /\ v \in Seq(Labels) /\ Len(u) = k /\ Len(v) = k
       /\ \A i \in 1 .. k : v[i] = b[i]
       /\ \A i \in 1 .. k : u[i] = IF i <= 1 THEN <<Genesis>>[i] ELSE p[i - 1]
       BY <1>10, <1>11
<1> HIDE DEF p, u, v
<1>13. ASSUME NEW i \in 1 .. k PROVE u[i] = v[i]
  <2>1. CASE i <= 1
        BY <2>1, <1>4, <1>5, <1>12
  <2>2. CASE i > 1
    <3>1. p[i - 1] = q[i - 1]
          BY <2>2 DEF p
    <3>2. u[i] = p[i - 1]
          BY <2>2, <1>12
    <3>3. i \in 1 .. 1 + n /\ b[i] = q[i - 1]
          BY <2>2, <1>4, <1>5
    <3> QED BY <3>1, <3>2, <3>3, <1>12
  <2> QED BY <2>1, <2>2
<1>14. u = v
       BY <1>12, <1>13, SeqEqual
<1> QED BY <1>9, <1>14 DEF u, v

\* A prefix of a prefix, and its labels.
LEMMA PrefixOfPrefix ==
    ASSUME NEW b \in Seq(Labels), NEW k \in 0 .. Len(b), NEW m \in 0 .. k
    PROVE  /\ SubSeq(b, 1, k) \in Seq(Labels)
           /\ Len(SubSeq(b, 1, k)) = k
           /\ \A i \in 1 .. k : SubSeq(b, 1, k)[i] = b[i]
           /\ SubSeq(SubSeq(b, 1, k), 1, m) = SubSeq(b, 1, m)
<1>1. /\ SubSeq(b, 1, k) \in Seq(Labels) /\ Len(SubSeq(b, 1, k)) = k
      /\ \A i \in 1 .. k : SubSeq(b, 1, k)[i] = b[i]
      OBVIOUS
<1>2. /\ SubSeq(b, 1, m) \in Seq(Labels) /\ Len(SubSeq(b, 1, m)) = m
      /\ \A i \in 1 .. m : SubSeq(b, 1, m)[i] = b[i]
      OBVIOUS
<1> DEFINE c == SubSeq(b, 1, k)
<1>3. /\ SubSeq(c, 1, m) \in Seq(Labels) /\ Len(SubSeq(c, 1, m)) = m
      /\ \A i \in 1 .. m : SubSeq(c, 1, m)[i] = c[i]
  <2> HIDE DEF c
  <2>1. c \in Seq(Labels) /\ Len(c) = k
        BY <1>1 DEF c
  <2> QED BY <2>1
<1>4. SubSeq(c, 1, m) = SubSeq(b, 1, m)
      BY <1>1, <1>2, <1>3, SeqEqual
<1> QED BY <1>1, <1>4

-----------------------------------------------------------------------------
(* Spines.                                                                   *)

\* A rewind or a trim of a spine is one.
LEMMA SpineSlice ==
    ASSUME NEW bs \in Seq(Chains), IsSpine(bs),
           NEW lo \in 1 .. Len(bs), NEW hi \in lo .. Len(bs)
    PROVE  LET s == SubSeq(bs, lo, hi) IN
           /\ s \in Seq(Chains) /\ Len(s) = hi - lo + 1 /\ s # <<>>
           /\ \A i \in 1 .. Len(s) : s[i] = bs[lo + i - 1]
           /\ Newest(s) = bs[hi]
           /\ IsSpine(s)
<1> DEFINE s == SubSeq(bs, lo, hi)
           n == Len(Newest(bs))
<1>1. /\ s \in Seq(Chains) /\ Len(s) = hi - lo + 1
      /\ \A i \in 1 .. Len(s) : s[i] = bs[lo + i - 1]
      OBVIOUS
<1> HIDE DEF s
<1>2. s # <<>> /\ Newest(s) = bs[hi]
      BY <1>1 DEF Newest
<1>3. Newest(bs) \in Seq(Labels) /\ n \in Nat
      BY ChainType DEF Newest
<1>4. ASSUME NEW i \in 1 .. Len(s)
      PROVE  /\ Len(s[i]) = Len(Newest(s)) - Len(s) + i
             /\ s[i] = SubSeq(Newest(s), 1, Len(s[i]))
  <2>0. lo + i - 1 \in 1 .. Len(bs)
        BY <1>1
  <2>1. /\ Len(bs[lo + i - 1]) = n - Len(bs) + (lo + i - 1)
        /\ bs[lo + i - 1] = SubSeq(Newest(bs), 1, Len(bs[lo + i - 1]))
        BY <2>0 DEF IsSpine
  <2>2. /\ Len(bs[hi]) = n - Len(bs) + hi
        /\ bs[hi] = SubSeq(Newest(bs), 1, Len(bs[hi]))
        BY DEF IsSpine
  <2>3. bs[lo + i - 1] \in Chains /\ bs[hi] \in Chains
        BY <1>1
  <2>4. Len(bs[lo + i - 1]) \in Nat /\ Len(bs[hi]) \in Nat
        BY <2>3, ChainType
  <2> HIDE DEF n
  <2>5. Len(bs[lo + i - 1]) <= Len(bs[hi]) /\ Len(bs[hi]) <= n
        BY <2>1, <2>2, <1>1, <1>3
  <2>6. SubSeq(bs[hi], 1, Len(bs[lo + i - 1]))
            = SubSeq(Newest(bs), 1, Len(bs[lo + i - 1]))
    <3> USE DEF n
    <3> DEFINE N == Newest(bs)
               k == Len(bs[hi])
               m == Len(bs[lo + i - 1])
    <3>1. N \in Seq(Labels) /\ k \in 0 .. Len(N) /\ m \in 0 .. k
          BY <1>3, <2>4, <2>5
    <3>2. bs[hi] = SubSeq(N, 1, k)
          BY <2>2
    <3> HIDE DEF N, k, m
    <3>3. SubSeq(SubSeq(N, 1, k), 1, m) = SubSeq(N, 1, m)
          BY <3>1, PrefixOfPrefix
    <3>4. SubSeq(bs[hi], 1, m) = SubSeq(N, 1, m)
          BY <3>2, <3>3
    <3> QED BY <3>4 DEF N, m
  <2>7. Len(s[i]) = Len(Newest(s)) - Len(s) + i
    <3> HIDE DEF n
    <3>1. Len(s[i]) = n - Len(bs) + (lo + i - 1)
          BY <2>1, <1>1
    <3>2. Len(Newest(s)) = n - Len(bs) + hi
          BY <2>2, <1>2
    <3>3. Len(s) = hi - lo + 1 /\ Len(bs) \in Nat
          BY <1>1
    <3> QED BY <3>1, <3>2, <3>3, <1>3
  <2>8. s[i] = SubSeq(Newest(s), 1, Len(s[i]))
    <3>1. s[i] = bs[lo + i - 1]
          BY <1>1
    <3> QED BY <3>1, <2>1, <2>6, <1>2
  <2> QED BY <2>7, <2>8
<1>5. IsSpine(s)
      BY <1>4 DEF IsSpine
<1> QED BY <1>1, <1>2, <1>5 DEF s

\* A block that chains onto the newest one of a spine extends it.
LEMMA SpineAppend ==
    ASSUME NEW bs \in Seq(Chains), IsSpine(bs), NEW b \in Chains,
           bs # <<>> => Parent(b) = Newest(bs)
    PROVE  /\ Append(bs, b) \in Seq(Chains) /\ Len(Append(bs, b)) = Len(bs) + 1
           /\ Append(bs, b)[1] = IF bs = <<>> THEN b ELSE bs[1]
           /\ Newest(Append(bs, b)) = b
           /\ IsSpine(Append(bs, b))
<1> DEFINE s == Append(bs, b)
<1>1. /\ s \in Seq(Chains) /\ Len(s) = Len(bs) + 1 /\ Len(bs) \in Nat
      /\ \A i \in 1 .. Len(bs) : s[i] = bs[i]
      /\ s[Len(bs) + 1] = b
      OBVIOUS
<1> HIDE DEF s
<1>2. Newest(s) = b
      BY <1>1 DEF Newest
<1>3. b \in Seq(Labels) /\ Len(b) \in Nat \ {0}
      BY ChainType, WatchtowerAssumption
<1>4. s[1] = IF bs = <<>> THEN b ELSE bs[1]
      BY <1>1
<1>5. ASSUME NEW i \in 1 .. Len(s)
      PROVE  /\ Len(s[i]) = Len(b) - Len(s) + i
             /\ s[i] = SubSeq(b, 1, Len(s[i]))
  <2>1. CASE i = Len(bs) + 1
        BY <2>1, <1>1, <1>3
  <2>2. CASE i \in 1 .. Len(bs)
    <3>1. Newest(bs) = SubSeq(b, 1, Len(b) - 1)
          BY <2>2, <1>1 DEF Parent
    <3>2. Len(SubSeq(b, 1, Len(b) - 1)) = Len(b) - 1
      <4>1. Len(b) - 1 \in 0 .. Len(b) /\ 0 \in 0 .. Len(b) - 1
            BY <1>3
      <4> QED BY <4>1, <1>3, PrefixOfPrefix
    <3>3. /\ Len(bs[i]) = Len(b) - 1 - Len(bs) + i
          /\ bs[i] = SubSeq(SubSeq(b, 1, Len(b) - 1), 1, Len(bs[i]))
          BY <2>2, <3>1, <3>2 DEF IsSpine
    <3>4. bs[i] \in Chains
          BY <2>2
    <3>5. Len(bs[i]) \in 0 .. Len(b) - 1
          BY <3>3, <3>4, ChainType, <2>2, <1>1, <1>3
    <3>6. SubSeq(SubSeq(b, 1, Len(b) - 1), 1, Len(bs[i])) = SubSeq(b, 1, Len(bs[i]))
          BY <3>5, <1>3, PrefixOfPrefix
    <3>7. bs[i] = SubSeq(b, 1, Len(bs[i]))
          BY ONLY <3>3, <3>6, Zenon
    <3>8. s[i] = bs[i]
          BY <2>2, <1>1
    <3>9. Len(s[i]) = Len(b) - Len(s) + i
          BY <3>3, <3>8, <1>1, <1>3
    <3> QED BY <3>7, <3>8, <3>9
  <2> QED BY <2>1, <2>2, <1>1
<1>6. IsSpine(s)
      BY <1>2, <1>5 DEF IsSpine
<1> QED BY <1>1, <1>2, <1>4, <1>6 DEF s

\* Two spines, the second of which chains onto the first, are one.
LEMMA SpineConcat ==
    ASSUME NEW xs \in Seq(Chains), IsSpine(xs), Len(xs) > 0,
           NEW bs \in Seq(Chains), IsSpine(bs), Len(bs) > 0,
           Parent(bs[1]) = Newest(xs)
    PROVE  /\ xs \o bs \in Seq(Chains) /\ Len(xs \o bs) = Len(xs) + Len(bs)
           /\ Newest(xs \o bs) = Newest(bs)
           /\ IsSpine(xs \o bs)
<1> DEFINE s == xs \o bs
           N == Newest(bs)
<1>1. /\ s \in Seq(Chains) /\ Len(s) = Len(xs) + Len(bs)
      /\ Len(xs) \in Nat \ {0} /\ Len(bs) \in Nat \ {0}
      /\ \A i \in 1 .. Len(xs) : s[i] = xs[i]
      /\ \A i \in 1 .. Len(bs) : s[Len(xs) + i] = bs[i]
  <2>1. Len(xs) \in Nat \ {0} /\ Len(bs) \in Nat \ {0}
        OBVIOUS
  <2>2. /\ s \in Seq(Chains) /\ Len(s) = Len(xs) + Len(bs)
        /\ \A i \in 1 .. Len(xs) + Len(bs) :
              s[i] = IF i <= Len(xs) THEN xs[i] ELSE bs[i - Len(xs)]
        BY ConcatProperties
  <2> HIDE DEF s
  <2>3. \A i \in 1 .. Len(xs) : s[i] = xs[i]
        BY <2>1, <2>2
  <2>4. ASSUME NEW i \in 1 .. Len(bs) PROVE s[Len(xs) + i] = bs[i]
    <3>1. Len(xs) + i \in 1 .. Len(xs) + Len(bs) /\ ~ (Len(xs) + i <= Len(xs))
          /\ Len(xs) + i - Len(xs) = i
          BY <2>1
    <3> QED BY <2>2, <3>1
  <2> QED BY <2>1, <2>2, <2>3, <2>4
<1> HIDE DEF s
<1>2. Newest(s) = N
      BY <1>1 DEF Newest
<1>3. /\ N \in Seq(Labels) /\ Len(N) \in Nat \ {0}
      /\ bs[1] \in Seq(Labels) /\ Len(bs[1]) \in Nat \ {0}
  <2>1. N \in Chains /\ bs[1] \in Chains
        BY <1>1 DEF Newest
  <2> QED BY <2>1, ChainType, WatchtowerAssumption
<1>4. \A i \in 1 .. Len(bs) :
          Len(bs[i]) = Len(N) - Len(bs) + i /\ bs[i] = SubSeq(N, 1, Len(bs[i]))
      BY DEF IsSpine
<1> DEFINE d == Len(bs[1]) - 1
<1>5. Newest(xs) = SubSeq(N, 1, d) /\ Len(SubSeq(N, 1, d)) = d /\ d \in 0 .. Len(N)
      /\ d = Len(N) - Len(bs)
  <2>1. Len(bs[1]) = Len(N) - Len(bs) + 1 /\ bs[1] = SubSeq(N, 1, Len(bs[1]))
        BY <1>1, <1>4
  <2> DEFINE k == Len(bs[1])
  <2>2. k \in 1 .. Len(N)
        BY <2>1, <1>1, <1>3
  <2>3. Newest(xs) = SubSeq(bs[1], 1, k - 1)
        BY DEF Parent
  <2>4. bs[1] = SubSeq(N, 1, k)
        BY <2>1
  <2> HIDE DEF N, k
  <2>5. SubSeq(SubSeq(N, 1, k), 1, k - 1) = SubSeq(N, 1, k - 1)
        /\ Len(SubSeq(N, 1, k - 1)) = k - 1
        BY <2>2, <1>3, PrefixOfPrefix
  <2>6. Newest(xs) = SubSeq(N, 1, k - 1)
        BY ONLY <2>3, <2>4, <2>5, Zenon
  <2> QED BY <2>1, <2>2, <2>5, <2>6, <1>1, <1>3 DEF k
<1> HIDE DEF N, d
<1>6. ASSUME NEW i \in 1 .. Len(s)
      PROVE  Len(s[i]) = Len(N) - Len(s) + i /\ s[i] = SubSeq(N, 1, Len(s[i]))
  <2>1. CASE i \in 1 .. Len(xs)
    <3>1. /\ Len(xs[i]) = d - Len(xs) + i
          /\ xs[i] = SubSeq(SubSeq(N, 1, d), 1, Len(xs[i]))
          BY <2>1, <1>5 DEF IsSpine
    <3>2. xs[i] \in Chains
          BY <2>1, ElementOfSeq
    <3>3. Len(xs[i]) \in 0 .. d
      <4>1. Len(xs[i]) \in Nat
            BY <3>2, ChainType
      <4>2. d \in Nat /\ Len(xs) \in Nat
            BY <1>1, <1>3, <1>5
      <4> QED BY <3>1, <4>1, <4>2, <2>1
    <3>4. SubSeq(SubSeq(N, 1, d), 1, Len(xs[i])) = SubSeq(N, 1, Len(xs[i]))
          BY <3>3, <1>3, <1>5, PrefixOfPrefix
    <3>5. xs[i] = SubSeq(N, 1, Len(xs[i]))
          BY ONLY <3>1, <3>4, Zenon
    <3>6. s[i] = xs[i]
          BY <2>1, <1>1
    <3>7. Len(s[i]) = Len(N) - Len(s) + i
          BY <3>1, <3>6, <1>1, <1>3, <1>5
    <3> QED BY <3>5, <3>6, <3>7
  <2>2. CASE i > Len(xs)
    <3> DEFINE j == i - Len(xs)
    <3>1. j \in 1 .. Len(bs) /\ s[i] = bs[j]
          BY <2>2, <1>1
    <3>2. Len(bs[j]) = Len(N) - Len(bs) + j /\ bs[j] = SubSeq(N, 1, Len(bs[j]))
          BY <3>1, <1>4
    <3>3. Len(s[i]) = Len(N) - Len(s) + i
          BY <3>1, <3>2, <1>1, <1>3
    <3> QED BY <3>1, <3>2, <3>3
  <2> QED BY <2>1, <2>2, <1>1
<1>7. IsSpine(s)
      BY <1>2, <1>6 DEF IsSpine
<1> QED BY <1>1, <1>2, <1>7 DEF s, N

\* The elements of a spine are parents and children.
LEMMA SpineParents ==
    ASSUME NEW bs \in Seq(Chains), IsSpine(bs), NEW i \in 1 .. Len(bs) - 1
    PROVE  bs[i] = Parent(bs[i + 1])
<1> DEFINE N == Newest(bs)
           k == Len(bs[i + 1])
<1>1. i \in 1 .. Len(bs) /\ i + 1 \in 1 .. Len(bs) /\ Len(bs) \in Nat
      OBVIOUS
<1>2. N \in Chains /\ bs[i] \in Chains /\ bs[i + 1] \in Chains
      BY <1>1 DEF Newest
<1>3. N \in Seq(Labels) /\ Len(N) \in Nat /\ Len(bs[i]) \in Nat /\ k \in Nat
      BY <1>2, ChainType
<1>4. /\ Len(bs[i]) = Len(N) - Len(bs) + i /\ bs[i] = SubSeq(N, 1, Len(bs[i]))
      /\ k = Len(N) - Len(bs) + (i + 1) /\ bs[i + 1] = SubSeq(N, 1, k)
      BY <1>1 DEF IsSpine
<1> HIDE DEF N
<1>5. k \in 0 .. Len(N) /\ k - 1 \in 0 .. k /\ Len(bs[i]) = k - 1
  <2> HIDE DEF k
  <2> QED BY <1>1, <1>3, <1>4
<1>6. Parent(bs[i + 1]) = SubSeq(SubSeq(N, 1, k), 1, k - 1)
      BY <1>4 DEF Parent
<1> HIDE DEF k
<1>7. SubSeq(SubSeq(N, 1, k), 1, k - 1) = SubSeq(N, 1, k - 1)
      BY <1>3, <1>5, PrefixOfPrefix
<1> QED BY <1>4, <1>5, <1>6, <1>7

-----------------------------------------------------------------------------
(* The invariant, step by step.                                              *)

LEMMA WatchInit ==
    ASSUME Init PROVE WatchIInv
<1> USE WatchtowerAssumption
<1>1. <<Genesis>> \in Chains
  <2> DEFINE q == [i \in 1 .. 0 |-> Genesis]
  <2>1. q \in [1 .. 0 -> Empty \cup Spends] /\ q \in Seq(Labels) /\ Len(q) = 0
        BY DEF Labels
  <2>2. q = <<>>
        BY <2>1, EmptySeq
  <2>3. <<Genesis>> \o q \in Chains
    <3>1. \A i, j \in DOMAIN q : q[i] = q[j] /\ q[i] \in Spends => i = j
          OBVIOUS
    <3> HIDE DEF q
    <3>2. 0 \in 0 .. MaxHeight
          OBVIOUS
    <3> QED BY <2>1, <3>1, <3>2 DEF Chains
  <2>4. <<Genesis>> \o <<>> = <<Genesis>>
        OBVIOUS
  <2> QED BY <2>2, <2>3, <2>4
<1>2. pass \in Passes
      BY DEF Init, NoPass, Passes
<1>3. WatchTypes
      BY <1>1, <1>2 DEF WatchTypes, Init
<1>4. CursorInv
      BY DEF Init, CursorInv, IsSpine
<1>5. ScannedIsAlerted
      BY DEF Init, ScannedIsAlerted
<1>6. PassInv
      BY DEF Init, PassInv, NoPass
<1> QED BY <1>3, <1>4, <1>5, <1>6 DEF WatchIInv

\* A step that ends the pass, or leaves it alone, and leaves the cursor alone.
LEMMA CursorKept ==
    ASSUME WatchIInv, UNCHANGED <<anchors, nextFrom>>,
           authorized \subseteq authorized', raised \subseteq raised'
    PROVE  CursorInv' /\ ScannedIsAlerted'
<1>1. CursorInv'
      BY DEF WatchIInv, CursorInv
<1>2. ScannedIsAlerted'
      BY DEF WatchIInv, ScannedIsAlerted
<1> QED BY <1>1, <1>2

LEMMA NoPassInv ==
    ASSUME pass' = NoPass
    PROVE  pass' \in Passes /\ PassInv'
<1>1. pass' \in Passes
      BY DEF NoPass, Passes
<1>2. PassInv'
      BY DEF NoPass, PassInv
<1> QED BY <1>1, <1>2

LEMMA StartPassKeeps ==
    ASSUME WatchIInv, StartPass PROVE WatchIInv'
<1>1. CursorInv' /\ ScannedIsAlerted'
      BY CursorKept DEF StartPass, cursor
<1>2. pass' \in Passes
  <2>0. NoPass \in Passes
        BY DEF NoPass, Passes
  <2>1. nextFrom \in Nat /\ Len(anchors) \in Nat
        BY DEF WatchIInv, WatchTypes
  <2>2. CASE pass' = [NoPass EXCEPT !.pc = "tip", !.from = nextFrom]
        BY <2>0, <2>1, <2>2 DEF Passes
  <2>3. CASE pass' = [NoPass EXCEPT !.pc = "walk", !.i = Len(anchors)]
        BY <2>0, <2>1, <2>3 DEF Passes
  <2> QED BY <2>2, <2>3 DEF StartPass
<1>3. WatchTypes'
      BY <1>2 DEF StartPass, WatchIInv, WatchTypes, cursor
<1>4. PassInv'
  <2>1. CASE pass' = [NoPass EXCEPT !.pc = "tip", !.from = nextFrom]
        BY <2>1 DEF NoPass, PassInv, StartPass, cursor
  <2>2. CASE pass' = [NoPass EXCEPT !.pc = "walk", !.i = Len(anchors)]
        BY <2>2 DEF NoPass, PassInv, StartPass, cursor, WatchIInv, WatchTypes
  <2> QED BY <2>1, <2>2 DEF StartPass
<1> QED BY <1>1, <1>3, <1>4 DEF WatchIInv

LEMMA ReadTipKeeps ==
    ASSUME WatchIInv, ReadTip PROVE WatchIInv'
<1> USE WatchtowerAssumption
<1>1. CursorInv' /\ ScannedIsAlerted'
      BY CursorKept DEF ReadTip, cursor
<1>2. active \in Seq(Labels) /\ Len(active) \in 1 .. MaxHeight + 1
      BY ChainType DEF WatchIInv, WatchTypes
<1>3. pass' \in Passes /\ PassInv'
  <2>1. CASE pass' = NoPass
        BY <2>1, NoPassInv
  <2>2. CASE /\ ~ Shrunk(HeightOf(active))
             /\ pass' = [pass EXCEPT !.pc = "hash", !.tip = HeightOf(active)]
    <3>1. pass' \in Passes
      <4>1. HeightOf(active) \in Nat
            BY <1>2 DEF HeightOf
      <4>2. pass \in Passes
            BY DEF WatchIInv, WatchTypes
      <4> QED BY <2>2, <4>1, <4>2 DEF Passes
    <3>2. nextFrom <= Len(active)
      <4>1. CASE anchors = <<>>
            BY <4>1, <1>2 DEF WatchIInv, CursorInv
      <4>2. CASE anchors # <<>>
        <5>1. nextFrom = Len(Newest(anchors)) /\ nextFrom \in Nat
              BY <4>2 DEF WatchIInv, CursorInv, WatchTypes
        <5>2. ~ (HeightOf(active) < HeightOf(Newest(anchors)))
              BY <4>2, <2>2 DEF Shrunk
        <5> QED BY <5>1, <5>2, <1>2 DEF HeightOf
      <4> QED BY <4>1, <4>2
    <3>3. pass'.pc = "hash" /\ pass'.tip = Len(active) - 1 /\ pass'.from = pass.from
          /\ pass'.blocks = pass.blocks
          BY <2>2 DEF WatchIInv, WatchTypes, Passes, HeightOf
    <3>4. pass.from = nextFrom /\ pass.blocks = <<>> /\ nextFrom' = nextFrom
          BY DEF ReadTip, cursor, WatchIInv, PassInv
    <3>5. PassInv'
          BY <3>2, <3>3, <3>4, <1>2 DEF PassInv
    <3> QED BY <3>1, <3>5
  <2> QED BY <2>1, <2>2 DEF ReadTip
<1>4. WatchTypes'
      BY <1>3 DEF ReadTip, WatchIInv, WatchTypes, cursor
<1> QED BY <1>1, <1>3, <1>4 DEF WatchIInv

LEMMA ReadTipHashKeeps ==
    ASSUME WatchIInv, ReadTipHash PROVE WatchIInv'
<1> USE WatchtowerAssumption
<1>1. CursorInv' /\ ScannedIsAlerted'
      BY CursorKept DEF ReadTipHash, cursor
<1>2. active \in Seq(Labels) /\ Len(active) \in 1 .. MaxHeight + 1
      BY ChainType DEF WatchIInv, WatchTypes
<1>3. pass' \in Passes /\ PassInv'
  <2>1. CASE pass' = NoPass
        BY <2>1, NoPassInv
  <2>2. CASE /\ HasBlock(pass.tip)
             /\ pass' = [pass EXCEPT !.pc = "scan", !.tipHash = BlockAt(pass.tip),
                                     !.known = authorized]
    <3>1. BlockAt(pass.tip) \in Seq(Labels)
      <4>1. pass.tip \in Nat /\ pass.tip + 1 \in 1 .. Len(active)
            BY <2>2, <1>2 DEF HasBlock, WatchIInv, WatchTypes, Passes
      <4> QED BY <4>1, <1>2 DEF BlockAt
    <3>2. pass' \in Passes
          BY <2>2, <3>1 DEF WatchIInv, WatchTypes, Passes
    <3>3. /\ pass'.pc = "scan" /\ pass'.tip = pass.tip /\ pass'.from = pass.from
          /\ pass'.blocks = pass.blocks /\ pass'.known = authorized
          BY <2>2 DEF WatchIInv, WatchTypes, Passes
    <3>4. /\ pass.from = nextFrom /\ pass.blocks = <<>> /\ nextFrom' = nextFrom
          /\ pass.tip <= MaxHeight /\ pass.from <= pass.tip + 1
          /\ authorized' = authorized /\ pass.tip \in Nat /\ pass.from \in Nat
          BY DEF ReadTipHash, cursor, WatchIInv, PassInv, WatchTypes, Passes
    <3>5. BlocksInv'
          BY <3>3, <3>4 DEF BlocksInv, IsSpine
    <3>6. PassInv'
          BY <3>3, <3>4, <3>5 DEF PassInv
    <3> QED BY <3>2, <3>6
  <2> QED BY <2>1, <2>2 DEF ReadTipHash
<1>4. WatchTypes'
      BY <1>3 DEF ReadTipHash, WatchIInv, WatchTypes, cursor
<1> QED BY <1>1, <1>3, <1>4 DEF WatchIInv

LEMMA ScanBlockKeeps ==
    ASSUME WatchIInv, ScanBlock PROVE WatchIInv'
<1> USE WatchtowerAssumption
<1>1. CursorInv' /\ ScannedIsAlerted'
      BY CursorKept DEF ScanBlock, cursor
<1>2. active \in Seq(Labels) /\ Len(active) \in 1 .. MaxHeight + 1
      BY ChainType DEF WatchIInv, WatchTypes
<1> DEFINE b == BlockAt(ScanHeight)
<1>3. pass' \in Passes /\ PassInv'
  <2>1. CASE pass' = NoPass
        BY <2>1, NoPassInv
  <2>2. CASE /\ HasBlock(ScanHeight) /\ ChainsOnto(b)
             /\ pass' = [pass EXCEPT !.blocks = Append(@, b)]
    <3>1. /\ pass.pc = "scan" /\ pass.blocks \in Seq(Chains) /\ pass.tip \in Nat
          /\ pass.from \in Nat /\ pass.from = nextFrom /\ BlocksInv
          /\ pass.tip <= MaxHeight /\ pass.from <= pass.tip + 1
          /\ pass.known \subseteq authorized
          /\ Len(pass.blocks) \in Nat /\ pass \in Passes /\ anchors \in Seq(Chains)
          BY DEF ScanBlock, WatchIInv, WatchTypes, Passes, PassInv
    <3>2. /\ ScanHeight = pass.from + Len(pass.blocks) /\ ScanHeight <= pass.tip
          /\ ScanHeight \in Nat /\ ScanHeight + 1 \in 1 .. Len(active)
      <4>1. ScanHeight = pass.from + Len(pass.blocks) /\ ScanHeight <= pass.tip
            BY DEF ScanHeight, ScanBlock
      <4>2. ScanHeight \in Nat
            BY <3>1, <4>1
      <4>3. ScanHeight < Len(active)
            BY <2>2 DEF HasBlock
      <4> QED BY <4>1, <4>2, <4>3, <1>2
    <3>3. b \in Chains /\ b \in Seq(Labels) /\ Len(b) = ScanHeight + 1
      <4>1. active \in Chains
            BY DEF WatchIInv, WatchTypes
      <4>2. SubSeq(active, 1, ScanHeight + 1) \in Chains
            BY <4>1, <3>2, ChainPrefix
      <4>3. /\ SubSeq(active, 1, ScanHeight + 1) \in Seq(Labels)
            /\ Len(SubSeq(active, 1, ScanHeight + 1)) = ScanHeight + 1
            BY <1>2, <3>2, PrefixOfPrefix
      <4> QED BY <4>2, <4>3 DEF BlockAt
    <3>4. /\ pass.blocks # <<>> => Parent(b) = Newest(pass.blocks)
          /\ pass.blocks = <<>> /\ anchors # <<>> => Parent(b) = Newest(anchors)
          BY <2>2 DEF ChainsOnto
    <3> DEFINE bs == pass.blocks
               cs == Append(bs, b)
    <3> HIDE DEF b
    <3>5. IsSpine(bs) /\ bs \in Seq(Chains) /\ Len(bs) \in Nat
          BY <3>1 DEF BlocksInv
    <3>6. /\ cs \in Seq(Chains) /\ Len(cs) = Len(bs) + 1
          /\ cs[1] = IF bs = <<>> THEN b ELSE bs[1]
          /\ Newest(cs) = b
          /\ IsSpine(cs)
      <4> HIDE DEF bs
      <4>1. bs # <<>> => Parent(b) = Newest(bs)
            BY <3>4 DEF bs
      <4> QED BY <3>3, <3>5, <4>1, SpineAppend
    <3>7. pass' = [pass EXCEPT !.blocks = cs]
          BY <2>2
    <3> HIDE DEF cs
    <3>8. /\ pass' \in Passes /\ pass'.blocks = cs /\ pass'.pc = "scan"
          /\ pass'.tip = pass.tip /\ pass'.from = pass.from /\ pass'.known = pass.known
          BY <3>7, <3>6, <3>1 DEF Passes
    <3>9. UNCHANGED <<anchors, nextFrom, authorized>>
          BY DEF ScanBlock, cursor
    <3>10. Len(Newest(cs)) = pass.from + Len(cs)
           BY <3>6, <3>3, <3>2, <3>1
    <3>11. anchors # <<>> => Parent(cs[1]) = Newest(anchors)
      <4>1. CASE bs = <<>>
            BY <4>1, <3>4, <3>6
      <4>2. CASE bs # <<>>
            BY <4>2, <3>1, <3>6 DEF BlocksInv
      <4> QED BY <4>1, <4>2
    <3>12. Len(cs) <= pass.tip + 1 - pass.from
           BY <3>6, <3>2, <3>1
    <3>13. BlocksInv'
           BY <3>6, <3>8, <3>9, <3>10, <3>11, <3>12 DEF BlocksInv, IsSpine, Newest, Parent
    <3>14. PassInv'
           BY <3>8, <3>9, <3>1, <3>13 DEF PassInv
    <3> QED BY <3>8, <3>14
  <2> QED BY <2>1, <2>2 DEF ScanBlock
<1>4. WatchTypes'
      BY <1>3 DEF ScanBlock, WatchIInv, WatchTypes, cursor
<1> QED BY <1>1, <1>3, <1>4 DEF WatchIInv

LEMMA EndScanKeeps ==
    ASSUME WatchIInv, EndScan PROVE WatchIInv'
<1> USE WatchtowerAssumption
<1>1. CursorInv' /\ ScannedIsAlerted'
      BY CursorKept DEF EndScan, cursor
<1>2. pass' \in Passes /\ PassInv'
  <2>1. CASE pass' = NoPass
        BY <2>1, NoPassInv
  <2>2. CASE pass' = [pass EXCEPT !.pc = "commit"]
    <3>1. /\ pass.pc = "scan" /\ pass \in Passes /\ pass.tip \in Nat
          /\ pass.from \in Nat /\ pass.blocks \in Seq(Chains)
          /\ pass.from = nextFrom /\ pass.known \subseteq authorized /\ BlocksInv
          /\ pass.tip <= MaxHeight /\ pass.from <= pass.tip + 1
          BY DEF EndScan, WatchIInv, WatchTypes, Passes, PassInv
    <3>2. /\ pass' \in Passes /\ pass'.pc = "commit" /\ pass'.blocks = pass.blocks
          /\ pass'.tip = pass.tip /\ pass'.from = pass.from /\ pass'.known = pass.known
          BY <2>2, <3>1 DEF Passes
    <3>3. UNCHANGED <<anchors, nextFrom, authorized>>
          BY DEF EndScan, cursor
    <3>4. Len(pass.blocks) = pass.tip + 1 - pass.from
      <4>1. Len(pass.blocks) \in Nat
            BY <3>1
      <4>2. Len(pass.blocks) <= pass.tip + 1 - pass.from
            BY <3>1 DEF BlocksInv
      <4>3. pass.from + Len(pass.blocks) > pass.tip
            BY DEF EndScan, ScanHeight
      <4> QED BY <3>1, <4>1, <4>2, <4>3
    <3>5. BlocksInv'
          BY <3>1, <3>2, <3>3 DEF BlocksInv, IsSpine, Newest, Parent
    <3>6. PassInv'
          BY <3>1, <3>2, <3>3, <3>4, <3>5 DEF PassInv
    <3> QED BY <3>2, <3>6
  <2> QED BY <2>1, <2>2 DEF EndScan
<1>3. WatchTypes'
      BY <1>2 DEF EndScan, WatchIInv, WatchTypes, cursor
<1> QED BY <1>1, <1>2, <1>3 DEF WatchIInv

\* The walk rewinds the cursor to a block of its own chain, or to genesis.
LEMMA WalkKeeps ==
    ASSUME WatchIInv, Walk PROVE WatchIInv'
<1> USE WatchtowerAssumption
<1>1. /\ pass \in Passes /\ pass.pc = "walk" /\ pass.i \in Nat /\ pass.i <= Len(anchors)
      /\ pass.blocks = <<>> /\ anchors \in Seq(Chains) /\ Len(anchors) \in Nat
      /\ Len(anchors) <= MaxReorgDepth + 1 /\ IsSpine(anchors) /\ nextFrom \in Nat
      BY DEF Walk, WatchIInv, WatchTypes, CursorInv, PassInv, Passes
<1>2. CASE pass.i > 0 /\ pass' = [pass EXCEPT !.i = @ - 1] /\ UNCHANGED cursor
  <2>1. CursorInv' /\ ScannedIsAlerted'
        BY <1>2, CursorKept DEF Walk, cursor
  <2>2. pass.i - 1 \in Nat
        BY <1>1, <1>2
  <2>3. /\ pass' \in Passes /\ pass'.pc = "walk" /\ pass'.i = pass.i - 1
        /\ pass'.blocks = <<>>
        BY <2>2, <1>1, <1>2 DEF Passes
  <2>4. PassInv'
        BY <2>3, <1>1, <1>2 DEF PassInv, cursor
  <2>5. WatchTypes'
        BY <2>3, <1>2 DEF Walk, cursor, WatchIInv, WatchTypes
  <2> QED BY <2>1, <2>4, <2>5 DEF WatchIInv
<1>3. CASE /\ pass.i > 0
           /\ anchors' = SubSeq(anchors, 1, pass.i)
           /\ nextFrom' = HeightOf(anchors[pass.i]) + 1
           /\ pass' = [pass EXCEPT !.pc = "tip", !.from = nextFrom']
  <2> DEFINE k == pass.i
  <2>1. 1 \in 1 .. Len(anchors) /\ k \in 1 .. Len(anchors)
        BY <1>1, <1>3
  <2> DEFINE s == SubSeq(anchors, 1, k)
  <2>2. /\ s \in Seq(Chains) /\ Len(s) = k - 1 + 1 /\ s # <<>>
        /\ Newest(s) = anchors[k]
        /\ IsSpine(s)
    <3> HIDE DEF k
    <3> QED BY <2>1, <1>1, SpineSlice
  <2>3. anchors' = s
        BY <1>3
  <2>4. anchors[k] \in Chains /\ Len(anchors[k]) \in 1 .. MaxHeight + 1
    <3>1. anchors[k] \in Chains
          BY <2>1, <1>1
    <3> QED BY <3>1, ChainType
  <2>5. nextFrom' = Len(anchors[k]) /\ nextFrom' \in Nat
        BY <1>3, <2>4 DEF HeightOf
  <2> HIDE DEF s
  <2>6. CursorInv'
        BY <2>2, <2>3, <2>5 DEF CursorInv, Newest, IsSpine
  <2>7. /\ anchors # <<>> /\ Newest(anchors) \in Seq(Labels)
        /\ Len(anchors[k]) \in 0 .. Len(Newest(anchors))
        /\ anchors[k] = SubSeq(Newest(anchors), 1, Len(anchors[k]))
    <3>1. anchors # <<>> /\ Newest(anchors) \in Chains
          BY <2>1, <1>1 DEF Newest
    <3>2. Newest(anchors) \in Seq(Labels) /\ Len(Newest(anchors)) \in Nat
          BY <3>1, ChainType
    <3>3. /\ Len(anchors[k]) = Len(Newest(anchors)) - Len(anchors) + k
          /\ anchors[k] = SubSeq(Newest(anchors), 1, Len(anchors[k]))
          BY <2>1, <1>1 DEF IsSpine
    <3> HIDE DEF k
    <3> QED BY <3>1, <3>2, <3>3, <2>1, <2>4, <1>1
  <2>8. ScannedIsAlerted'
    <3> DEFINE N == Newest(anchors)
               m == Len(anchors[k])
    <3>1. /\ \A i \in 1 .. m : anchors[k][i] = N[i]
          /\ DOMAIN anchors[k] = 1 .. m /\ DOMAIN N = 1 .. Len(N)
          /\ m \in 0 .. Len(N)
      <4>1. N \in Seq(Labels) /\ m \in 0 .. Len(N) /\ anchors[k] = SubSeq(N, 1, m)
            BY <2>7
      <4>2. DOMAIN anchors[k] = 1 .. m
            BY <2>4, ChainType
      <4>3. 0 \in 0 .. m
            BY <4>1
      <4> HIDE DEF N, m, k
      <4>4. \A i \in 1 .. m : SubSeq(N, 1, m)[i] = N[i]
            BY <4>1, <4>3, PrefixOfPrefix
      <4>5. DOMAIN N = 1 .. Len(N)
            BY <4>1
      <4> QED BY <4>1, <4>2, <4>4, <4>5
    <3>2. Newest(anchors') = anchors[k] /\ UNCHANGED <<authorized, raised>>
          BY <2>2, <2>3 DEF Walk
    <3>3. \A i \in DOMAIN N : N[i] \in Recovery \/ N[i] \in Spends \ authorized
                                 => N[i] \in raised
          BY <2>7 DEF WatchIInv, ScannedIsAlerted
    <3> HIDE DEF N, m, k
    <3>4. \A i \in DOMAIN anchors[k] :
              anchors[k][i] \in Recovery \/ anchors[k][i] \in Spends \ authorized
                  => anchors[k][i] \in raised
          BY <3>1, <3>3
    <3> QED BY <3>2, <3>4 DEF ScannedIsAlerted, Newest
  <2>9. /\ pass' \in Passes /\ pass'.pc = "tip" /\ pass'.from = nextFrom'
        /\ pass'.blocks = <<>>
        BY <2>5, <1>1, <1>3 DEF Passes
  <2>10. PassInv'
         BY <2>9 DEF PassInv
  <2>11. WatchTypes'
         BY <2>1, <2>2, <2>3, <2>5, <2>9, <1>1 DEF Walk, WatchIInv, WatchTypes
  <2> QED BY <2>6, <2>8, <2>10, <2>11 DEF WatchIInv
<1>4. CASE /\ anchors' = <<>> /\ nextFrom' = DeepReorgFrom
           /\ pass' = [pass EXCEPT !.pc = "tip", !.from = nextFrom']
  <2>1. CursorInv' /\ nextFrom' \in Nat
        BY <1>4 DEF CursorInv, DeepReorgFrom, IsSpine
  <2>2. ScannedIsAlerted'
        BY <1>4 DEF ScannedIsAlerted
  <2>3. /\ pass' \in Passes /\ pass'.pc = "tip" /\ pass'.from = nextFrom'
        /\ pass'.blocks = <<>>
        BY <2>1, <1>1, <1>4 DEF Passes
  <2>4. PassInv'
        BY <2>3 DEF PassInv
  <2>5. WatchTypes'
        BY <2>1, <2>3, <1>4 DEF Walk, WatchIInv, WatchTypes
  <2> QED BY <2>1, <2>2, <2>4, <2>5 DEF WatchIInv
<1> QED BY <1>2, <1>3, <1>4 DEF Walk

\* What a commit leaves: the cursor stands on the last block scanned, which
\* descends from where it stood, or nothing was scanned and it stays.
LEMMA CommitMoves ==
    ASSUME WatchIInv, Commit, ~ (Gapped \/ ~ Matches(pass.tipHash))
    PROVE  /\ anchors' \in Seq(Chains) /\ Len(anchors') <= MaxReorgDepth + 1
           /\ IsSpine(anchors') /\ nextFrom' = pass.tip + 1
           /\ \/ /\ pass.blocks = <<>> /\ anchors' = anchors /\ nextFrom' = nextFrom
              \/ /\ pass.blocks # <<>> /\ anchors' # <<>>
                 /\ Newest(anchors') = Newest(pass.blocks)
                 /\ Len(Newest(anchors')) = nextFrom'
<1> USE WatchtowerAssumption
<1> DEFINE bs == pass.blocks
           from == pass.from
           tip == pass.tip
<1>1. /\ pass.pc = "commit" /\ bs \in Seq(Chains) /\ from \in Nat /\ tip \in Nat
      /\ from = nextFrom /\ from <= tip + 1 /\ Len(bs) = tip + 1 - from /\ Len(bs) \in Nat
      /\ BlocksInv /\ anchors \in Seq(Chains) /\ Len(anchors) <= MaxReorgDepth + 1
      /\ IsSpine(anchors) /\ Len(anchors) \in Nat
      /\ nextFrom = IF anchors = <<>> THEN 0 ELSE Len(Newest(anchors))
      BY DEF Commit, WatchIInv, WatchTypes, CursorInv, PassInv, Passes
<1>2. anchors' = Extended /\ nextFrom' = tip + 1
      BY DEF Commit
<1>3. /\ IsSpine(bs)
      /\ bs # <<>> => /\ Len(Newest(bs)) = from + Len(bs)
                      /\ anchors # <<>> => Parent(bs[1]) = Newest(anchors)
      BY <1>1 DEF BlocksInv
<1>4. CASE tip < from
  <2>1. tip + 1 = from /\ Len(bs) = 0
        BY <1>1, <1>4
  <2>2. bs = <<>>
        BY <2>1, <1>1, EmptySeq
  <2>3. anchors' = anchors
        BY <1>2, <1>4 DEF Extended
  <2> QED BY <1>1, <1>2, <2>1, <2>2, <2>3 DEF IsSpine, Newest
<1>5. CASE ~ (tip < from)
  <2> HIDE DEF bs, from, tip
  <2>0. /\ from \in Nat /\ tip \in Nat /\ from <= tip /\ Len(bs) = tip + 1 - from
        /\ Len(bs) \in Nat
    <3>1. from \in Nat /\ tip \in Nat /\ Len(bs) = tip + 1 - from /\ Len(bs) \in Nat
          BY <1>1
    <3> QED BY ONLY <3>1, <1>5
  <2>1. Len(bs) > 0 /\ bs # <<>>
    <3>1. Len(bs) > 0
          BY ONLY <2>0
    <3> QED BY <3>1
  <2> DEFINE lo == Lowest - from + 1
  <2>2. /\ Lowest \in Int /\ from <= Lowest /\ Lowest <= tip
        /\ tip - MaxReorgDepth <= Lowest
        /\ lo \in 1 .. Len(bs)
    <3>1. Lowest = IF from > tip - MaxReorgDepth THEN from ELSE tip - MaxReorgDepth
          BY DEF Lowest, Most, from, tip
    <3>2. /\ Lowest \in Int /\ from <= Lowest /\ Lowest <= tip
          /\ tip - MaxReorgDepth <= Lowest
          BY ONLY <3>1, <2>0, WatchtowerAssumption
    <3> QED BY ONLY <3>2, <2>0
  <2>3. /\ Kept \in Seq(Chains) /\ IsSpine(Kept)
        /\ Kept # <<>> => Kept = anchors /\ anchors # <<>> /\ Lowest = from
    <3>1. CASE anchors = <<>> \/ Lowest > HeightOf(Newest(anchors)) + 1
      <4>1. Kept = <<>>
            BY <3>1 DEF Kept
      <4> QED BY <4>1, EmptySeq DEF IsSpine
    <3>2. CASE anchors # <<>> /\ ~ (Lowest > HeightOf(Newest(anchors)) + 1)
      <4>1. Kept = anchors
            BY <3>2 DEF Kept
      <4>2. from = Len(Newest(anchors))
            BY <3>2, <1>1
      <4>3. ~ (Lowest > from - 1 + 1)
            BY <3>2, <4>2 DEF HeightOf
      <4>4. Lowest = from
            BY <4>3, <2>2, <1>1
      <4> QED BY <4>1, <4>4, <3>2, <1>1
    <3> QED BY <3>1, <3>2
  <2>4. Joining = SubSeq(bs, lo, Len(bs))
    <3>1. Joining = Newer(Lowest)
      <4>1. CASE Kept = <<>>
            BY <4>1 DEF Joining
      <4>2. CASE Kept # <<>>
        <5>1. Len(Newest(Kept)) = Lowest
              BY <4>2, <2>3, <1>1
        <5>2. Most(HeightOf(Newest(Kept)) + 1, Lowest) = Lowest
              BY <5>1, <2>2 DEF Most, HeightOf
        <5> QED BY <4>2, <5>2 DEF Joining
      <4> QED BY <4>1, <4>2
    <3>2. Most(Lowest - from, 0) + 1 = lo
          BY ONLY <2>0, <2>2 DEF Most
    <3> QED BY <3>1, <3>2 DEF Newer, bs, from
  <2>5. /\ Joining \in Seq(Chains) /\ Len(Joining) = Len(bs) - lo + 1 /\ Joining # <<>>
        /\ Joining[1] = bs[lo]
        /\ Newest(Joining) = Newest(bs) /\ IsSpine(Joining)
    <3> DEFINE j == SubSeq(bs, lo, Len(bs))
               n == Len(bs)
    <3>0. n \in lo .. Len(bs) /\ lo \in 1 .. Len(bs)
          BY <2>1, <2>2, <1>1
    <3> HIDE DEF n, lo
    <3>1. LET t == SubSeq(bs, lo, n) IN
          /\ t \in Seq(Chains) /\ Len(t) = n - lo + 1 /\ t # <<>>
          /\ \A i \in 1 .. Len(t) : t[i] = bs[lo + i - 1]
          /\ Newest(t) = bs[n]
          /\ IsSpine(t)
          BY <3>0, <1>1, <1>3, SpineSlice
    <3>2. Joining = SubSeq(bs, lo, n)
          BY <2>4 DEF n
    <3>3. /\ Joining \in Seq(Chains) /\ Len(Joining) = n - lo + 1 /\ Joining # <<>>
          /\ \A i \in 1 .. Len(Joining) : Joining[i] = bs[lo + i - 1]
          /\ Newest(Joining) = bs[n]
          /\ IsSpine(Joining)
          BY <3>1, <3>2
    <3>4. lo \in Int /\ n \in Int /\ 1 \in 1 .. Len(Joining) /\ lo + 1 - 1 = lo
          BY <3>0, <3>3
    <3> QED BY <3>3, <3>4 DEF n, Newest
  <2> DEFINE a == Kept \o Joining
  <2>6. /\ a \in Seq(Chains) /\ Len(a) \in Nat /\ Len(a) > 0
        /\ Newest(a) = Newest(bs) /\ IsSpine(a)
    <3>1. CASE Kept = <<>>
      <4>1. a = Joining
            BY <3>1, <2>5, ConcatEmptySeq
      <4> QED BY <4>1, <2>5, EmptySeq
    <3>2. CASE Kept # <<>>
      <4>1. lo = 1
            BY <3>2, <2>3, <1>1
      <4>2. Parent(Joining[1]) = Newest(Kept)
            BY <4>1, <3>2, <2>1, <2>3, <2>5, <1>3
      <4>3. Len(Kept) > 0 /\ Len(Kept) \in Nat /\ Len(Joining) > 0 /\ Len(Joining) \in Nat
            BY <3>2, <2>3, <2>5, EmptySeq
      <4>4. /\ a \in Seq(Chains) /\ Len(a) = Len(Kept) + Len(Joining)
            /\ Newest(a) = Newest(Joining) /\ IsSpine(a)
            BY <4>2, <4>3, <2>3, <2>5, SpineConcat
      <4> QED BY <4>3, <4>4, <2>5
    <3> QED BY <3>1, <3>2
  <2>7. anchors' = Trimmed(a)
        BY <1>2, <1>5 DEF Extended, from, tip
  <2> HIDE DEF a
  <2>8. /\ anchors' \in Seq(Chains) /\ Len(anchors') <= MaxReorgDepth + 1
        /\ anchors' # <<>> /\ Newest(anchors') = Newest(bs) /\ IsSpine(anchors')
    <3> DEFINE w == MaxReorgDepth + 1
               n == Len(a)
    <3>1. CASE n > w
      <4> DEFINE q == n - w + 1
      <4>1. anchors' = SubSeq(a, q, n)
            BY <3>1, <2>7 DEF Trimmed, Last
      <4>2. q \in 1 .. Len(a) /\ n \in q .. Len(a) /\ n - q + 1 = w /\ w \in Nat
            BY <3>1, <2>6
      <4> HIDE DEF q, n, w
      <4>3. LET t == SubSeq(a, q, n) IN
            /\ t \in Seq(Chains) /\ Len(t) = n - q + 1 /\ t # <<>>
            /\ \A i \in 1 .. Len(t) : t[i] = a[q + i - 1]
            /\ Newest(t) = a[n]
            /\ IsSpine(t)
            BY <4>2, <2>6, SpineSlice
      <4>4. /\ anchors' \in Seq(Chains) /\ Len(anchors') = w /\ anchors' # <<>>
            /\ Newest(anchors') = a[n] /\ IsSpine(anchors')
            BY <4>1, <4>2, <4>3
      <4> QED BY <4>2, <4>4, <2>6 DEF n, w, Newest
    <3>2. CASE ~ (n > w)
      <4>1. anchors' = a
            BY <3>2, <2>7 DEF Trimmed, Last
      <4> QED BY <4>1, <3>2, <2>6
    <3> QED BY <3>1, <3>2
  <2>9. Len(Newest(bs)) = tip + 1
        BY <2>1, <1>1, <1>3
  <2> QED BY <2>1, <2>8, <2>9, <1>2 DEF bs, tip
<1> QED BY <1>4, <1>5

LEMMA CommitKeeps ==
    ASSUME WatchIInv, Commit PROVE WatchIInv'
<1> USE WatchtowerAssumption
<1>1. pass' \in Passes /\ PassInv'
      BY NoPassInv DEF Commit
<1>2. CASE (Gapped \/ ~ Matches(pass.tipHash)) /\ UNCHANGED <<cursor, raised>>
  <2>1. CursorInv' /\ ScannedIsAlerted'
        BY <1>2, CursorKept DEF Commit, cursor
  <2>2. WatchTypes'
        BY <1>1, <1>2 DEF Commit, cursor, WatchIInv, WatchTypes
  <2> QED BY <1>1, <2>1, <2>2 DEF WatchIInv
<1>3. CASE /\ ~ (Gapped \/ ~ Matches(pass.tipHash))
           /\ raised' = raised \cup {s \in SpendsIn(pass.blocks) : Alarming(s)}
  <2> DEFINE bs == pass.blocks
             Quiet(b) == \A i \in DOMAIN b :
                 b[i] \in Recovery \/ b[i] \in Spends \ authorized => b[i] \in raised'
  <2>1. /\ anchors' \in Seq(Chains) /\ Len(anchors') <= MaxReorgDepth + 1
        /\ IsSpine(anchors') /\ nextFrom' = pass.tip + 1
        /\ \/ /\ bs = <<>> /\ anchors' = anchors /\ nextFrom' = nextFrom
           \/ /\ bs # <<>> /\ anchors' # <<>> /\ Newest(anchors') = Newest(bs)
              /\ Len(Newest(anchors')) = nextFrom'
        BY <1>3, CommitMoves
  <2>2. /\ bs \in Seq(Chains) /\ pass.from \in Nat /\ pass.tip \in Nat
        /\ pass.from = nextFrom /\ pass.known \subseteq authorized /\ BlocksInv
        /\ nextFrom = IF anchors = <<>> THEN 0 ELSE Len(Newest(anchors))
        /\ anchors \in Seq(Chains)
        BY DEF Commit, WatchIInv, WatchTypes, CursorInv, PassInv, Passes
  <2>3. UNCHANGED <<active, authorized, faults>> /\ raised \subseteq raised'
        BY <1>3 DEF Commit
  <2>4. raised' \subseteq Spends /\ nextFrom' \in Nat
        BY <2>1, <2>2, <1>3 DEF WatchIInv, WatchTypes, SpendsIn
  <2>5. WatchTypes'
        BY <1>1, <2>1, <2>3, <2>4 DEF WatchIInv, WatchTypes
  <2>6. CursorInv'
    <3>1. CASE bs = <<>> /\ anchors' = anchors /\ nextFrom' = nextFrom
          BY <3>1 DEF WatchIInv, CursorInv, Newest, IsSpine
    <3>2. CASE anchors' # <<>> /\ Len(Newest(anchors')) = nextFrom'
          BY <3>2, <2>1 DEF CursorInv, Newest, IsSpine
    <3> QED BY <2>1, <3>1, <3>2
  <2>7. anchors # <<>> => Quiet(Newest(anchors))
        BY <2>3 DEF WatchIInv, ScannedIsAlerted
  <2>8. CASE bs = <<>> /\ anchors' = anchors
        BY <2>7, <2>8, <2>3, <1>1, <2>5, <2>6 DEF WatchIInv, ScannedIsAlerted, Newest
  <2>9. CASE bs # <<>> /\ anchors' # <<>> /\ Newest(anchors') = Newest(bs)
    <3> DEFINE N == Newest(bs)
               from == pass.from
    <3>1. /\ IsSpine(bs) /\ Len(bs) \in Nat \ {0} /\ N \in Chains
          /\ Len(N) = from + Len(bs)
          /\ anchors # <<>> => Parent(bs[1]) = Newest(anchors)
      <4>1. Len(bs) \in Nat \ {0}
            BY <2>9, <2>2, EmptySeq
      <4>2. N \in Chains
            BY <4>1, <2>2 DEF Newest
      <4> HIDE DEF N
      <4>3. Len(Newest(bs)) = from + Len(bs) /\ IsSpine(bs)
            /\ (anchors # <<>> => Parent(bs[1]) = Newest(anchors))
            BY <2>2, <2>9 DEF BlocksInv
      <4> QED BY <4>1, <4>2, <4>3 DEF N
    <3>2. N \in Seq(Labels) /\ DOMAIN N = 1 .. Len(N) /\ Len(N) \in Nat
          BY <3>1, ChainType
    <3>3. \A k \in 1 .. Len(bs) : /\ bs[k] \in Chains /\ Len(bs[k]) = from + k
                                  /\ bs[k] = SubSeq(N, 1, from + k)
      <4> HIDE DEF bs, from
      <4> TAKE k \in 1 .. Len(bs)
      <4>1. bs[k] \in Chains
            BY <2>2
      <4>2. Len(bs[k]) = Len(N) - Len(bs) + k /\ bs[k] = SubSeq(N, 1, Len(bs[k]))
            BY <3>1 DEF IsSpine
      <4>3. Len(bs[k]) = from + k
            BY <4>2, <3>1, <3>2, <2>2 DEF from
      <4> QED BY <4>1, <4>2, <4>3
    <3>4. ASSUME NEW i \in 1 .. Len(N), i > from,
                 N[i] \in Recovery \/ N[i] \in Spends \ authorized
          PROVE  N[i] \in raised'
      <4> DEFINE k == i - from
      <4> HIDE DEF bs, from, N
      <4>1. k \in 1 .. Len(bs) /\ from + k = i
            BY <3>4, <3>1, <3>2, <2>2 DEF from
      <4>2. bs[k] = SubSeq(N, 1, i) /\ Len(bs[k]) = i
            BY <4>1, <3>3
      <4>3. SubSeq(N, 1, i)[i] = N[i]
        <5>1. i \in 0 .. Len(N) /\ 0 \in 0 .. i
              BY <3>2
        <5> QED BY <5>1, <3>2, PrefixOfPrefix
      <4>4. bs[k][Len(bs[k])] = N[i]
            BY <4>2, <4>3
      <4>5. k \in DOMAIN bs
            BY <4>1, <2>2 DEF bs
      <4>6. N[i] \in Spends
            BY <3>4
      <4>7. N[i] \in SpendsIn(bs)
            BY <4>4, <4>5, <4>6 DEF SpendsIn
      <4>8. Alarming(N[i])
            BY <3>4, <2>2 DEF Alarming
      <4> QED BY <4>7, <4>8, <1>3 DEF bs
    <3>5. ASSUME NEW i \in 1 .. Len(N), ~ (i > from)
          PROVE  /\ anchors # <<>> /\ i \in DOMAIN Newest(anchors)
                 /\ Newest(anchors)[i] = N[i]
      <4>1. anchors # <<>> /\ Len(Newest(anchors)) = from
            BY <3>5, <2>2
      <4>2. Newest(anchors) \in Chains
        <5>1. Len(anchors) \in Nat \ {0}
              BY <4>1, <2>2, EmptySeq
        <5> QED BY <5>1, <2>2 DEF Newest
      <4>3. Newest(anchors) \in Seq(Labels) /\ DOMAIN Newest(anchors) = 1 .. from
            BY <4>1, <4>2, ChainType
      <4>4. bs[1] = SubSeq(N, 1, from + 1) /\ Len(bs[1]) = from + 1
            BY <3>1, <3>3
      <4>5. Newest(anchors) = SubSeq(SubSeq(N, 1, from + 1), 1, from)
        <5>1. Newest(anchors) = SubSeq(bs[1], 1, Len(bs[1]) - 1)
              BY <4>1, <3>1 DEF Parent
        <5>2. Len(bs[1]) - 1 = from
              BY <2>2, <4>4
        <5>3. Newest(anchors) = SubSeq(bs[1], 1, from)
              BY ONLY <5>1, <5>2, Zenon
        <5> HIDE DEF N, bs, from
        <5> QED BY <5>3, <4>4
      <4> HIDE DEF N, bs, from
      <4>6. from + 1 \in 0 .. Len(N) /\ from \in 0 .. from + 1 /\ from \in 0 .. Len(N)
            /\ 0 \in 0 .. from
            BY <3>1, <3>2, <2>2 DEF from
      <4>7. SubSeq(SubSeq(N, 1, from + 1), 1, from) = SubSeq(N, 1, from)
            BY <4>6, <3>2, PrefixOfPrefix
      <4>8. i \in 1 .. from
            BY <3>5, <2>2 DEF from
      <4>9. SubSeq(N, 1, from)[i] = N[i]
            BY <4>6, <4>8, <3>2, PrefixOfPrefix
      <4> QED BY <4>1, <4>3, <4>5, <4>7, <4>8, <4>9
    <3>6. Quiet(N)
      <4> SUFFICES ASSUME NEW i \in 1 .. Len(N),
                          N[i] \in Recovery \/ N[i] \in Spends \ authorized
                   PROVE  N[i] \in raised'
          BY <3>2
      <4> HIDE DEF N, from
      <4>1. CASE i > from
            BY <4>1, <3>4
      <4>2. CASE ~ (i > from)
            BY <4>2, <3>5, <2>7
      <4> QED BY <4>1, <4>2
    <3>7. ScannedIsAlerted'
      <4>1. Newest(anchors)' = N
            BY <2>9 DEF Newest
      <4> HIDE DEF N
      <4> QED BY <4>1, <3>6, <2>3 DEF ScannedIsAlerted
    <3> QED BY <3>7, <1>1, <2>5, <2>6 DEF WatchIInv
  <2> QED BY <2>1, <2>8, <2>9
<1> QED BY <1>2, <1>3 DEF Commit

LEMMA EnvironmentKeeps ==
    ASSUME WatchIInv,
           PassFails \/ PassPanics \/ (\E s \in Spends : Accept(s)) \/ Extend \/ Reorg
    PROVE  WatchIInv'
<1> USE WatchtowerAssumption
<1>1. CASE PassFails
  <2>1. CursorInv' /\ ScannedIsAlerted'
        BY <1>1, CursorKept DEF PassFails, cursor
  <2>2. pass' \in Passes /\ PassInv'
        BY <1>1, NoPassInv DEF PassFails
  <2>3. WatchTypes'
        BY <1>1, <2>2 DEF PassFails, cursor, WatchIInv, WatchTypes
  <2> QED BY <2>1, <2>2, <2>3 DEF WatchIInv
<1>2. CASE PassPanics
  <2>1. CursorInv' /\ ScannedIsAlerted'
        BY <1>2 DEF PassPanics, CursorInv, IsSpine, ScannedIsAlerted
  <2>2. pass' \in Passes /\ PassInv'
        BY <1>2, NoPassInv DEF PassPanics
  <2>3. WatchTypes'
        BY <1>2, <2>2 DEF PassPanics, WatchIInv, WatchTypes
  <2> QED BY <2>1, <2>2, <2>3 DEF WatchIInv
<1>3. CASE (\E s \in Spends : Accept(s)) \/ Extend \/ Reorg
  <2>1. /\ UNCHANGED <<anchors, nextFrom, pass, raised>>
        /\ authorized \subseteq authorized' /\ authorized' \subseteq Spends
        /\ active' \in Chains /\ faults' \in 0 .. MaxFaults
    <3>1. CASE \E s \in Spends : Accept(s)
          BY <3>1 DEF Accept, cursor, WatchIInv, WatchTypes
    <3>2. CASE Extend
          BY <3>2 DEF Extend, cursor, WatchIInv, WatchTypes
    <3>3. CASE Reorg
          BY <3>3 DEF Reorg, cursor, WatchIInv, WatchTypes
    <3> QED BY <1>3, <3>1, <3>2, <3>3
  <2>2. CursorInv' /\ ScannedIsAlerted'
        BY <2>1, CursorKept
  <2>3. WatchTypes'
        BY <2>1 DEF WatchIInv, WatchTypes
  <2>4. BlocksInv => BlocksInv'
        BY <2>1 DEF BlocksInv, IsSpine, Newest, Parent
  <2>5. PassInv'
        BY <2>1, <2>4 DEF WatchIInv, PassInv
  <2> QED BY <2>2, <2>3, <2>5 DEF WatchIInv
<1> QED BY <1>1, <1>2, <1>3

LEMMA WatchStutter ==
    ASSUME WatchIInv, UNCHANGED vars PROVE WatchIInv'
<1>1. /\ UNCHANGED <<anchors, nextFrom, pass, raised, authorized, active, faults>>
      BY DEF vars, cursor
<1>2. CursorInv' /\ ScannedIsAlerted'
      BY <1>1, CursorKept
<1>3. WatchTypes'
      BY <1>1 DEF WatchIInv, WatchTypes
<1>4. BlocksInv => BlocksInv'
      BY <1>1 DEF BlocksInv, IsSpine, Newest, Parent
<1>5. PassInv'
      BY <1>1, <1>4 DEF WatchIInv, PassInv
<1> QED BY <1>2, <1>3, <1>5 DEF WatchIInv

\* The inductive invariant: the cursor is a spine, everything on it was alerted,
\* and a pass holds a spine that goes on from it.
THEOREM WatchInductive == Spec => []WatchIInv
<1>1. Init => WatchIInv
      BY WatchInit
<1>2. WatchIInv /\ [Next]_vars => WatchIInv'
  <2> SUFFICES ASSUME WatchIInv, [Next]_vars PROVE WatchIInv'
      OBVIOUS
  <2>1. CASE StartPass
        BY <2>1, StartPassKeeps
  <2>2. CASE Walk
        BY <2>2, WalkKeeps
  <2>3. CASE ReadTip
        BY <2>3, ReadTipKeeps
  <2>4. CASE ReadTipHash
        BY <2>4, ReadTipHashKeeps
  <2>5. CASE ScanBlock
        BY <2>5, ScanBlockKeeps
  <2>6. CASE EndScan
        BY <2>6, EndScanKeeps
  <2>7. CASE Commit
        BY <2>7, CommitKeeps
  <2>8. CASE PassFails \/ PassPanics \/ (\E s \in Spends : Accept(s)) \/ Extend \/ Reorg
        BY <2>8, EnvironmentKeeps
  <2>9. CASE UNCHANGED vars
        BY <2>9, WatchStutter
  <2> QED BY <2>1, <2>2, <2>3, <2>4, <2>5, <2>6, <2>7, <2>8, <2>9 DEF Next, PassStep
<1> QED BY <1>1, <1>2, PTL DEF Spec

\* WatchInv: the cursor of scan_pass is one chain, its next height is one past the
\* newest anchor, and an alert was queued for every recovery spend and every spend
\* still not accepted, from genesis to that anchor.
THEOREM WatchInvHolds == Spec => []WatchInv
<1>1. WatchIInv => WatchInv
  <2> SUFFICES ASSUME WatchIInv PROVE WatchInv
      OBVIOUS
  <2> USE WatchtowerAssumption
  <2>1. /\ anchors \in Seq(Chains) /\ IsSpine(anchors) /\ Len(anchors) \in Nat
        /\ nextFrom = IF anchors = <<>> THEN 0 ELSE Len(Newest(anchors))
        BY DEF WatchIInv, WatchTypes, CursorInv
  <2>2. anchors # <<>> => Len(Newest(anchors)) \in 1 .. MaxHeight + 1
    <3> SUFFICES ASSUME anchors # <<>> PROVE Len(Newest(anchors)) \in 1 .. MaxHeight + 1
        OBVIOUS
    <3>1. Len(anchors) \in Nat \ {0}
          BY <2>1, EmptySeq
    <3>2. Newest(anchors) \in Chains
          BY <3>1, <2>1 DEF Newest
    <3> QED BY <3>2, ChainType
  <2>3. nextFrom \in 0 .. MaxHeight + 1
        BY <2>1, <2>2
  <2>4. TypeOK
    <3>1. \A i \in DOMAIN anchors : anchors[i] \in Chains
          BY <2>1
    <3> QED BY <2>3, <3>1 DEF WatchIInv, WatchTypes, TypeOK, Passes
  <2>5. CursorIsChain
    <3>1. \A i \in 1 .. Len(anchors) - 1 : anchors[i] = Parent(anchors[i + 1])
          BY <2>1, SpineParents
    <3>2. nextFrom = IF anchors = <<>> THEN 0 ELSE HeightOf(Newest(anchors)) + 1
      <4>1. CASE anchors = <<>>
            BY <4>1, <2>1
      <4>2. CASE anchors # <<>>
            BY <4>2, <2>1, <2>2 DEF HeightOf
      <4> QED BY <4>1, <4>2
    <3> QED BY <3>1, <3>2 DEF CursorIsChain
  <2> QED BY <2>4, <2>5 DEF WatchIInv, WatchInv
<1> QED BY <1>1, WatchInductive, PTL

\* AdvanceDescends: a pass of scan_pass that advances the cursor leaves it on a block
\* that descends from the one it stood on; only a rewind or a reset leaves a chain.
THEOREM AdvanceDescendsHolds == Spec => AdvanceDescends
<1> USE WatchtowerAssumption
<1> DEFINE Descends ==
        anchors # <<>> /\ nextFrom' > nextFrom =>
            /\ anchors' # <<>>
            /\ Len(Newest(anchors)) <= Len(Newest(anchors'))
            /\ SubSeq(Newest(anchors'), 1, Len(Newest(anchors))) = Newest(anchors)
<1>1. WatchIInv /\ [Next]_vars => [Descends]_vars
  <2> SUFFICES ASSUME WatchIInv, Next, anchors # <<>>, nextFrom' > nextFrom
               PROVE  /\ anchors' # <<>>
                      /\ Len(Newest(anchors)) <= Len(Newest(anchors'))
                      /\ SubSeq(Newest(anchors'), 1, Len(Newest(anchors)))
                            = Newest(anchors)
      OBVIOUS
  <2>1. /\ anchors \in Seq(Chains) /\ IsSpine(anchors) /\ Len(anchors) \in Nat \ {0}
        /\ nextFrom = Len(Newest(anchors)) /\ nextFrom \in Nat
        /\ Newest(anchors) \in Chains /\ Newest(anchors) \in Seq(Labels)
    <3>1. /\ anchors \in Seq(Chains) /\ IsSpine(anchors) /\ nextFrom \in Nat
          /\ nextFrom = Len(Newest(anchors))
          BY DEF WatchIInv, WatchTypes, CursorInv
    <3>2. Len(anchors) \in Nat \ {0}
          BY <3>1, EmptySeq
    <3>3. Newest(anchors) \in Chains
          BY <3>1, <3>2 DEF Newest
    <3> QED BY <3>1, <3>2, <3>3, ChainType
  <2>2. nextFrom' # nextFrom
        BY <2>1
  <2>3. CASE Commit
    <3>1. ~ (Gapped \/ ~ Matches(pass.tipHash))
          BY <2>2, <2>3 DEF Commit, cursor
    <3>2. /\ pass.blocks # <<>> /\ anchors' # <<>> /\ Newest(anchors') = Newest(pass.blocks)
          /\ Len(Newest(anchors')) = nextFrom'
          BY <2>2, <2>3, <3>1, CommitMoves
    <3> DEFINE bs == pass.blocks
               N == Newest(bs)
               from == pass.from
    <3>3. /\ bs \in Seq(Chains) /\ from = nextFrom /\ BlocksInv
          BY <2>3 DEF Commit, WatchIInv, WatchTypes, PassInv, Passes
    <3>4. /\ IsSpine(bs) /\ Len(N) = from + Len(bs) /\ Parent(bs[1]) = Newest(anchors)
          BY <3>2, <3>3 DEF BlocksInv
    <3>5. Len(bs) \in Nat \ {0}
          BY <3>2, <3>3, EmptySeq
    <3>6. N \in Chains
          BY <3>3, <3>5 DEF Newest
    <3>7. N \in Seq(Labels) /\ Len(N) \in Nat
          BY <3>6, ChainType
    <3> HIDE DEF bs, N, from
    <3>8. Len(bs[1]) = Len(N) - Len(bs) + 1 /\ bs[1] = SubSeq(N, 1, Len(bs[1]))
          BY <3>4, <3>5 DEF IsSpine, N
    <3>9. Len(bs[1]) = from + 1 /\ from \in Nat
          BY <3>8, <3>4, <3>5, <3>7, <3>3, <2>1
    <3>10. Newest(anchors) = SubSeq(bs[1], 1, from)
           BY <3>4, <3>9 DEF Parent
    <3>11. bs[1] = SubSeq(N, 1, from + 1)
           BY <3>8, <3>9
    <3>12. from + 1 \in 0 .. Len(N) /\ from \in 0 .. from + 1
           BY <3>4, <3>5, <3>7, <3>9
    <3>13. SubSeq(SubSeq(N, 1, from + 1), 1, from) = SubSeq(N, 1, from)
           BY <3>12, <3>7, PrefixOfPrefix
    <3>14. Newest(anchors) = SubSeq(N, 1, from)
           BY <3>10, <3>11, <3>13
    <3>15. Newest(anchors') = N /\ Len(Newest(anchors)) = from
           BY <3>2, <3>3, <2>1 DEF N, bs
    <3> QED BY <3>2, <3>12, <3>14, <3>15
  <2>4. CASE Walk
    <3>1. ~ (nextFrom' > nextFrom)
      <4>1. CASE nextFrom' = nextFrom
            BY <4>1, <2>1
      <4>2. CASE nextFrom' = DeepReorgFrom
            BY <4>2, <2>1 DEF DeepReorgFrom
      <4>3. CASE pass.i > 0 /\ nextFrom' = HeightOf(anchors[pass.i]) + 1
        <5> DEFINE k == pass.i
        <5>1. k \in 1 .. Len(anchors)
              BY <4>3, <2>1, <2>4 DEF Walk, WatchIInv, WatchTypes, PassInv, Passes
        <5>2. Len(anchors[k]) = Len(Newest(anchors)) - Len(anchors) + k
              BY <5>1, <2>1 DEF IsSpine
        <5>3. nextFrom' = Len(anchors[k]) - 1 + 1
              BY <4>3 DEF HeightOf
        <5> HIDE DEF k
        <5> QED BY <5>1, <5>2, <5>3, <2>1
      <4> QED BY <4>1, <4>2, <4>3, <2>4 DEF Walk, cursor
    <3> QED BY <3>1
  <2>5. CASE PassPanics
        BY <2>5, <2>1 DEF PassPanics
  <2>6. CASE ~ (Commit \/ Walk \/ PassPanics)
    <3>1. nextFrom' = nextFrom
          BY <2>6 DEF Next, PassStep, StartPass, ReadTip, ReadTipHash, ScanBlock, EndScan,
                      PassFails, Accept, Extend, Reorg, cursor
    <3> QED BY <3>1, <2>2
  <2> QED BY <2>3, <2>4, <2>5, <2>6
<1> QED BY <1>1, WatchInductive, PTL DEF Spec, AdvanceDescends
=============================================================================
