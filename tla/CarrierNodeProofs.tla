-------------------------- MODULE CarrierNodeProofs --------------------------
(***************************************************************************)
(* Proofs about CarrierNode.  The argument rests on one fact about the     *)
(* nonce log: a (nonce, expiry), a generation, is accepted once.  So all   *)
(* that the handlers, the memos and the intents say of a generation is     *)
(* about the one copy that was accepted, with the deadline it was given.   *)
(***************************************************************************)
EXTENDS CarrierNode, FiniteSetTheorems, TLAPS

-----------------------------------------------------------------------------
(* The inductive invariant.                                                  *)

\* Where a handler of /sign stands between accepting its nonce and its end, and
\* where a handler of the receipt path follows a memo it has read.
SignSteps == {"windowA", "windowB", "ending"}
SeenSteps == {"claim", "kdf", "relookup", "confirm", "staleKdf"}

\* A generation the log has accepted with deadline d: its entry is still there,
\* or it is over on both clocks and can not be accepted again.
Generation(n, e, d) ==
    \/ entries[n] = [expiry |-> e, deadline |-> d]
    \/ entries[n].expiry # e /\ e <= highWater /\ d <= mono

SameGeneration(b, c) == NonceOf[b] = NonceOf[c] /\ ExpiryOf[b] = ExpiryOf[c]

\* The accepted copies, each with its deadline, that the state speaks of.
Handled(t, c, d) == th[t].pc \in SignSteps /\ c = th[t].copy /\ d = th[t].deadline
Memoized(n, c, d) == memo[n].kind # "none" /\ c = memo[n].copy /\ d = memo[n].deadline
Seen(t, c, d) == th[t].pc \in SeenSteps /\ c = th[t].seen /\ d = th[t].seenDeadline

Mentioned(c, d) ==
    \/ \E t \in Threads : Handled(t, c, d) \/ Seen(t, c, d)
    \/ \E n \in Nonces : Memoized(n, c, d)

\* Each is of an accepted generation, and no generation has two.
OneAcceptance ==
    /\ \A c \in Copies, d \in Time : Mentioned(c, d) =>
          /\ Generation(NonceOfCopy(c), ExpiryOfCopy(c), d)
          /\ \A c2 \in Copies, d2 \in Time :
                Mentioned(c2, d2) /\ SameGeneration(BodyOf(c), BodyOf(c2)) =>
                    c2 = c /\ d2 = d
          /\ \A b \in Bodies :
                intent[b].present /\ SameGeneration(BodyOf(c), b) =>
                    b = BodyOf(c) /\ intent[b].deadline = d
    /\ \A b \in Bodies : intent[b].present =>
          /\ Generation(NonceOf[b], ExpiryOf[b], intent[b].deadline)
          /\ \A b2 \in Bodies : intent[b2].present /\ SameGeneration(b, b2) => b2 = b

\* One handler of /sign per generation.
OneHandler ==
    \A t, u \in Threads :
        /\ th[t].pc \in SignSteps /\ th[u].pc \in SignSteps
        /\ SameGeneration(BodyOf(th[t].copy), BodyOf(th[u].copy))
        => t = u

\* What a handler holds at each of its steps.
HandlerOK(t) ==
    LET h == th[t] IN
    /\ h.pc # "idle" => h.copy \in Copies
    /\ h.pc # "idle" /\ h.from \in Peers => relay[h.from][h.copy] # "none"
    /\ h.pc \notin SignSteps \cup {"idle"} => h.from \in Peers
    /\ h.owns => h.pc \in SignSteps
    /\ h.rules => h.pc \in {"windowB", "ending"}
    /\ h.pc = "windowA" => h.owns
    /\ h.pc = "windowB" => h.rules
    /\ h.pc \in SeenSteps =>
          /\ h.seen \in Copies
          /\ SameGeneration(BodyOf(h.seen), BodyOf(h.copy))
    /\ h.pc \in {"claim", "kdf", "relookup", "staleKdf"} => h.copy # h.seen
    /\ h.pc \in {"relookup", "confirm"} => BodyOf(h.copy) = BodyOf(h.seen)

HandlersInv == \A t \in Threads : HandlerOK(t)

\* A memo belongs to its nonce.
MemosInv ==
    \A n \in Nonces :
        memo[n].kind # "none" => memo[n].copy \in Copies /\ NonceOfCopy(memo[n].copy) = n

\* An intent is ruled on or ready, and counts holders once it is ready.
IntentOK(i) ==
    /\ ~ i.present => i = NoIntent
    /\ i.present => i.ruling \/ i.ready
    /\ i.ready => Self \in i.holders
    /\ ~ i.ready => i.holders = {}

IntentsInv == \A b \in Bodies : IntentOK(intent[b])

\* Before its second hold a handler has left no trace but its claim.
FreshInWindowA ==
    \A t \in Threads : th[t].pc = "windowA" =>
        /\ ~ intent[BodyOf(th[t].copy)].present
        /\ \A n \in Nonces : memo[n].kind = "derived" => memo[n].copy # th[t].copy
        /\ \A u \in Threads : th[u].pc \in SeenSteps => th[u].seen # th[t].copy

\* Before its third hold its intent waits for its ruling.
RuledInWindowB ==
    \A t \in Threads : th[t].pc = "windowB" =>
        LET i == intent[BodyOf(th[t].copy)] IN i.present /\ i.ruling /\ ~ i.ready

\* An intent that can still be counted is found through its memo.
CountableHasMemo ==
    \A b \in Bodies : Countable(intent[b]) =>
        memo[NonceOf[b]].kind = "derived" /\ BodyOf(memo[NonceOf[b]].copy) = b

\* A handler that confirms read the intent when it was ready.
ConfirmedIsReady ==
    \A t \in Threads : th[t].pc = "confirm" =>
        LET i == intent[BodyOf(th[t].seen)] IN i.present => i.ready

\* The memo that a handler of the receipt path follows is still there.
Follows(t) ==
    LET m == memo[NonceOfCopy(th[t].copy)] IN
    m.kind = "derived" /\ m.copy = th[t].seen /\ m.deadline = th[t].seenDeadline

\* The one KDF slot, and what its holder wrote in the memo.
SlotInv ==
    /\ \A t, u \in Threads :
          th[t].pc \in {"kdf", "staleKdf"} /\ th[u].pc \in {"kdf", "staleKdf"} => t = u
    /\ \A t \in Threads :
          LET r == memo[NonceOfCopy(th[t].copy)].resolved[th[t].from] IN
          /\ th[t].pc = "kdf" /\ Follows(t) => r = Tag(th[t].seen)
          /\ th[t].pc = "relookup" /\ Follows(t) => r = Tag(th[t].copy)

\* What a resolved tag of p says: p delivered a copy c of the nonce, and it was found
\* to be of the memo's carrier, or is being derived, or is of another carrier.
Deriving(t, p, c, m) ==
    /\ th[t].pc = "kdf" /\ th[t].from = p /\ th[t].copy = c
    /\ th[t].seen = m.copy /\ th[t].seenDeadline = m.deadline

TagsInv ==
    \A n \in Nonces, p \in Peers : LET m == memo[n] IN
        m.kind = "derived" /\ m.resolved[p] # NoTag =>
        /\ ~ m.resolved[p].claim => BodyOf(m.resolved[p].copy) = BodyOf(m.copy)
        /\ \E c \in Copies :
              /\ NonceOfCopy(c) = n /\ relay[p][c] # "none"
              /\ \/ m.resolved[p] \in {Tag(c), Claim(c)}
                 \/ /\ m.resolved[p] = Tag(m.copy)
                    /\ \/ BodyOf(c) # BodyOf(m.copy)
                       \/ \E t \in Threads : Deriving(t, p, c, m)

StoreInv == MemosInv /\ IntentsInv /\ FreshInWindowA /\ RuledInWindowB /\ CountableHasMemo

CarrierIInv ==
    /\ ArmInv /\ ClaimInv
    /\ OneAcceptance /\ OneHandler /\ HandlersInv /\ StoreInv
    /\ ConfirmedIsReady /\ SlotInv /\ TagsInv

-----------------------------------------------------------------------------
(* The nonce log.                                                            *)

LEMMA Constants ==
    /\ U64Max \in Nat /\ MaxAge \in Nat /\ MaxCoordNonces \in Nat
    /\ Time = 0 .. U64Max /\ Time \subseteq Nat /\ 0 \in Time
    /\ \A c \in Copies : BodyOf(c) \in Bodies /\ NonceOfCopy(c) \in Nonces
                         /\ ExpiryOfCopy(c) \in Time \ {0}
    /\ \A b \in Bodies : NonceOf[b] \in Nonces /\ ExpiryOf[b] \in Time \ {0}
    /\ NoCopy \notin Copies
<1>1. U64Max \in Nat /\ MaxAge \in Nat /\ MaxCoordNonces \in Nat /\ NoCopy \notin Copies
  BY CarrierAssumption
<1>2. Time = 0 .. U64Max /\ Time \subseteq Nat /\ 0 \in Time
  BY <1>1 DEF Time, Log!Time
<1>3. \A b \in Bodies : NonceOf[b] \in Nonces /\ ExpiryOf[b] \in Time \ {0}
  BY <1>1, <1>2, CarrierAssumption DEF Nonces
<1>4. \A c \in Copies : BodyOf(c) \in Bodies
  BY CarrierAssumption DEF BodyOf
<1> QED
  BY <1>1, <1>2, <1>3, <1>4 DEF NonceOfCopy, ExpiryOfCopy

LogTypes ==
    /\ mono \in Time /\ highWater \in Time
    /\ entries \in [Nonces -> [expiry : Time, deadline : Time]]
    /\ accepts \in [Nonces -> [Time -> Nat]]

LEMMA LogTypeOf == Log!TypeOK <=> LogTypes
BY DEF Log!TypeOK, LogTypes, Log!NonceEntry, Time, Log!Time

\* check_and_record accepts a request: its generation is new, its entry bears a deadline
\* ahead of the clock, and every accepted generation is still remembered.
LEMMA AcceptStep ==
    ASSUME LogTypes, NEW n \in Nonces, NEW e \in Time, NEW now \in Time,
           Log!Refusal(n, e, now, TRUE) = "None", Log!Record(n, e, now, TRUE),
           UNCHANGED mono
    PROVE  /\ LogTypes'
           /\ highWater' >= highWater
           /\ entries'[n].expiry = e /\ entries'[n].deadline > mono
           /\ entries'[n].deadline \in Time
           /\ entries[n].deadline <= mono
           /\ \A m \in Nonces, x \in Time \ {0}, d \in Time : Generation(m, x, d) =>
                 /\ Generation(m, x, d)'
                 /\ ~ (m = n /\ x = e)
           /\ \A m \in Nonces, x \in Time \ {0} :
                 x <= highWater /\ entries[m].expiry # x => entries'[m].expiry # x
<1> DEFINE eff == Log!EffectiveNow(now)
           dl == mono + (e - eff)
<1>0. /\ mono \in Nat /\ highWater \in Nat /\ U64Max \in Nat /\ MaxAge \in Nat
      /\ e \in Nat /\ now \in Nat /\ e <= U64Max
  BY Constants DEF LogTypes
<1>1. eff \in Nat /\ eff >= highWater
  BY <1>0 DEF Log!EffectiveNow
<1>2. Log!CarrierDeadline(e, now, TRUE) = dl
  BY DEF Log!CarrierDeadline
<1>3. /\ e > eff /\ ~ Log!IsLive(entries[n], now)
      /\ ~ (dl > U64Max)
  <2>1. ~ (e <= eff) /\ ~ Log!IsLive(entries[n], now)
        /\ ~ Log!Overflows(e, now, TRUE)
    BY DEF Log!Refusal
  <2>2. e > eff
    BY <2>1, <1>0, <1>1
  <2>3. ~ (dl > U64Max)
    BY <2>1, <1>2 DEF Log!Overflows
  <2> QED
    BY <2>1, <2>2, <2>3
<1>4. dl \in Time /\ dl > mono
  BY <1>0, <1>1, <1>3, Constants
<1>5. \A m \in Nonces :
        /\ entries[m].expiry \in Nat /\ entries[m].deadline \in Nat
        /\ ~ Log!IsLive(entries[m], now) =>
              entries[m].expiry <= eff /\ entries[m].deadline <= mono
  <2> SUFFICES ASSUME NEW m \in Nonces
               PROVE  /\ entries[m].expiry \in Nat /\ entries[m].deadline \in Nat
                      /\ ~ Log!IsLive(entries[m], now) =>
                            entries[m].expiry <= eff /\ entries[m].deadline <= mono
    OBVIOUS
  <2>1. entries[m].expiry \in Time /\ entries[m].deadline \in Time
    BY DEF LogTypes
  <2>2. entries[m].expiry \in Nat /\ entries[m].deadline \in Nat
    BY <2>1, Constants
  <2>3. ~ Log!IsLive(entries[m], now) =>
            ~ (entries[m].expiry > eff) /\ ~ (mono < entries[m].deadline)
    BY DEF Log!IsLive
  <2> HIDE DEF eff
  <2> QED
    BY <2>2, <2>3, <1>0, <1>1
<1>6. /\ highWater' \in Time /\ highWater' >= highWater
      /\ \A m \in Nonces : ~ Log!IsLive(entries[m], now) =>
            entries[m].expiry <= highWater'
  BY <1>0 DEF Log!Record, Log!AdvanceMark, Log!IsMax, Log!Forgotten, Log!LiveNonces,
     Time, Log!Time
<1>7. /\ entries' = [m \in Nonces |->
             IF m = n THEN [expiry |-> e, deadline |-> dl]
             ELSE IF Log!IsLive(entries[m], now) THEN entries[m]
             ELSE [expiry |-> 0, deadline |-> 0]]
      /\ accepts' = [accepts EXCEPT ![n][e] = @ + 1]
  BY <1>2 DEF Log!Record, Log!LiveNonces, Log!Absent
<1>8. LogTypes'
  <2>1. mono' \in Time
    BY DEF LogTypes
  <2>2. entries' \in [Nonces -> [expiry : Time, deadline : Time]]
    <3> HIDE DEF dl
    <3> QED
      BY <1>4, <1>7, Constants DEF LogTypes
  <2>3. accepts' \in [Nonces -> [Time -> Nat]]
    BY <1>7 DEF LogTypes
  <2> QED
    BY <2>1, <2>2, <2>3, <1>6 DEF LogTypes
<1>9. entries'[n].expiry = e /\ entries'[n].deadline = dl
  BY <1>7
<1>10. ASSUME NEW m \in Nonces, NEW x \in Time \ {0}, NEW d \in Time, Generation(m, x, d)
       PROVE  Generation(m, x, d)' /\ ~ (m = n /\ x = e)
  <2>0. x \in Nat /\ d \in Nat /\ x > 0
    BY Constants
  <2>1. ~ (m = n /\ x = e)
    <3>1. CASE entries[m] = [expiry |-> x, deadline |-> d]
      <4>1. entries[m].expiry = x
        BY <3>1
      <4> QED
        BY <4>1, <1>3, <1>5, <1>0, <1>1, <2>0
    <3>2. CASE x <= highWater
      BY <3>2, <1>0, <1>1, <1>3, <2>0
    <3> QED
      BY <1>10, <3>1, <3>2 DEF Generation
  <2>2. CASE entries'[m] = entries[m]
    <3>1. x <= highWater => x <= highWater'
      BY <1>6, <1>0, <2>0, Constants
    <3> QED
      BY <1>10, <2>1, <2>2, <3>1 DEF Generation
  <2>3. CASE entries'[m] # entries[m]
    <3>1. ~ Log!IsLive(entries[m], now)
      BY <1>3, <1>7, <2>3
    <3>2. entries'[m].expiry \in {0, e}
      BY <1>7, <2>3, <3>1
    <3>3. x <= highWater' /\ d <= mono
      <4>1. CASE entries[m] = [expiry |-> x, deadline |-> d]
        BY <4>1, <3>1, <1>5, <1>6
      <4>2. CASE x <= highWater /\ d <= mono
        BY <4>2, <1>6, <1>0, <2>0, Constants
      <4> QED
        BY <1>10, <4>1, <4>2 DEF Generation
    <3>4. m # n => entries'[m].expiry = 0
      BY <1>7, <3>1
    <3>5. m = n => entries'[m].expiry = e
      BY <1>9
    <3> QED
      BY <2>0, <2>1, <3>3, <3>4, <3>5 DEF Generation
  <2> QED
    BY <2>1, <2>2, <2>3
<1>11. ASSUME NEW m \in Nonces, NEW x \in Time \ {0}, x <= highWater,
              entries[m].expiry # x
       PROVE  entries'[m].expiry # x
  <2>1. entries'[m].expiry \in {entries[m].expiry, 0, e}
    BY <1>7
  <2>2. x \in Nat /\ x > 0 /\ x < e
    BY <1>11, <1>0, <1>1, <1>3, Constants
  <2> QED
    BY <1>11, <2>1, <2>2, <1>0
<1> QED
  BY <1>3, <1>4, <1>5, <1>6, <1>8, <1>9, <1>10, <1>11

-----------------------------------------------------------------------------
(* Types, and how the parts of the invariant follow from what a step may     *)
(* change.                                                                   *)

MemoType == [kind : {"none", "inflight", "derived"}, copy : Copies \cup {NoCopy},
             deadline : Time, resolved : [Peers -> Tags]]
IntentType == [present : BOOLEAN, holders : SUBSET (Peers \cup {Self}),
               ready : BOOLEAN, ruling : BOOLEAN, deadline : Time]
Answers == {"none", "delivered", "answered", "skipped"}

LEMMA TypeOf ==
    TypeOK <=> /\ LogTypes
               /\ memo \in [Nonces -> MemoType]
               /\ intent \in [Bodies -> IntentType]
               /\ th \in [Threads -> Handler]
               /\ armed \in BOOLEAN /\ locked \in BOOLEAN
               /\ forwarded \subseteq Copies
               /\ relay \in [Peers -> [Copies -> Answers]]
BY LogTypeOf DEF TypeOK, MemoType, IntentType, Answers

\* What a step never undoes.
Remembers ==
    \A m \in Nonces, x \in Time \ {0}, d \in Time :
        Generation(m, x, d) => Generation(m, x, d)'
StayOver ==
    \A m \in Nonces, x \in Time \ {0} :
        x <= highWater /\ entries[m].expiry # x => entries'[m].expiry # x
Grows ==
    /\ forwarded \subseteq forwarded'
    /\ \A p \in Peers, c \in Copies : relay[p][c] # "none" => relay'[p][c] # "none"

\* No step but an accept gives a handler of /sign a copy, or a handler of the receipt
\* path something to follow that is not in a memo.
HandlersKept ==
    /\ \A u \in Threads : th'[u].pc \in SignSteps =>
          /\ th[u].pc \in SignSteps
          /\ th'[u].copy = th[u].copy /\ th'[u].deadline = th[u].deadline
    /\ \A u \in Threads : th'[u].pc \in SeenSteps =>
          \/ /\ th[u].pc \in SeenSteps
             /\ th'[u].seen = th[u].seen /\ th'[u].seenDeadline = th[u].seenDeadline
          \/ \E n \in Nonces : /\ memo[n].kind = "derived"
                               /\ th'[u].seen = memo[n].copy
                               /\ th'[u].seenDeadline = memo[n].deadline

\* The handler that leaves window A in this step.
Leaves(u) == th[u].pc = "windowA" /\ th'[u].pc # "windowA"

\* A memo stays what it is, goes, or is the one a handler writes as it leaves window A.
MemosKept ==
    \A n \in Nonces : memo'[n].kind # "none" =>
        \/ /\ memo'[n].kind = memo[n].kind /\ memo'[n].copy = memo[n].copy
           /\ memo'[n].deadline = memo[n].deadline
        \/ /\ memo'[n].kind = "derived" /\ memo'[n].resolved = [p \in Peers |-> NoTag]
           /\ \E u \in Threads : /\ Leaves(u) /\ NonceOfCopy(th[u].copy) = n
                                 /\ memo'[n].copy = th[u].copy
                                 /\ memo'[n].deadline = th[u].deadline

\* So does an intent.
IntentsKept ==
    \A b \in Bodies : intent'[b].present =>
        \/ /\ intent[b].present /\ intent'[b].deadline = intent[b].deadline
           /\ intent[b].ready => intent'[b].ready
        \/ \E u \in Threads : /\ Leaves(u) /\ BodyOf(th[u].copy) = b
                              /\ intent'[b].deadline = th[u].deadline

\* A claim goes only with a handler of its copy that leaves window A or ends; and the
\* handler that owns a claim, or rules on an intent, keeps it or takes it away.
InflightKept ==
    \A n \in Nonces : memo[n].kind = "inflight" =>
        \/ memo'[n] = memo[n]
        \/ \E v \in Threads : /\ th[v].pc \in SignSteps
                              /\ th[v].copy = memo[n].copy
                              /\ th'[v].pc # "windowA"

OwnersStay ==
    /\ \A n \in Nonces : memo'[n].kind = "inflight" => memo'[n] = memo[n]
    /\ \A u \in Threads : th[u].owns /\ OwnClaim(u) =>
          \/ /\ th'[u].owns /\ th'[u].copy = th[u].copy
             /\ th'[u].deadline = th[u].deadline
          \/ memo'[NonceOfCopy(th[u].copy)].kind # "inflight"

RulersStay ==
    /\ \A b \in Bodies : intent'[b].ruling =>
          \/ intent[b].ruling
          \/ \E u \in Threads : th'[u].rules /\ BodyOf(th'[u].copy) = b
    /\ \A u \in Threads : th[u].rules =>
          \/ th'[u].rules /\ th'[u].copy = th[u].copy
          \/ ~ intent'[BodyOf(th[u].copy)].ruling

\* An intent that waits for its ruling changes only with its handler.
Ruled(t) == LET i == intent[BodyOf(th[t].copy)] IN i.present /\ i.ruling /\ ~ i.ready

RulingsKept ==
    /\ \A u \in Threads : th'[u].pc = "windowB" => th[u].pc = "windowB" \/ Ruled(u)'
    /\ \A b \in Bodies : intent[b].present /\ intent[b].ruling /\ ~ intent[b].ready =>
          \/ intent'[b] = intent[b]
          \/ \E v \in Threads : /\ th[v].pc \in SignSteps
                                /\ BodyOf(th[v].copy) = b
                                /\ th'[v].pc # "windowB"

\* A countable intent is an old one or has a memo, and a live memo stays with its intent.
CountablesKept ==
    /\ \A b \in Bodies : intent'[b].present /\ intent'[b].deadline > mono' =>
          \/ intent[b].present /\ intent'[b].deadline = intent[b].deadline
          \/ /\ memo'[NonceOf[b]].kind = "derived"
             /\ BodyOf(memo'[NonceOf[b]].copy) = b
    /\ \A n \in Nonces : /\ memo[n].kind = "derived" /\ memo[n].deadline > mono
                         /\ intent'[BodyOf(memo[n].copy)].present
          => memo'[n].kind = "derived" /\ memo'[n].copy = memo[n].copy

\* Who joins the holders of a body is real.
HoldersKept ==
    \A b \in Bodies : \A x \in intent'[b].holders :
        \/ x \in intent[b].holders
        \/ x = Self /\ Forwarded(b)'
        \/ x \in Deliverers(b)'

\* What is mentioned has its type.
LEMMA MentionTypes ==
    ASSUME TypeOK, HandlersInv, MemosInv, NEW c, NEW d, Mentioned(c, d)
    PROVE  c \in Copies /\ d \in Time
<1>1. ASSUME NEW t \in Threads, Handled(t, c, d) \/ Seen(t, c, d)
      PROVE  c \in Copies /\ d \in Time
  <2>1. th[t].deadline \in Time /\ th[t].seenDeadline \in Time
    BY TypeOf DEF Handler
  <2> QED
    BY <1>1, <2>1 DEF Handled, Seen, HandlersInv, HandlerOK, SignSteps, SeenSteps
<1>2. ASSUME NEW n \in Nonces, Memoized(n, c, d)
      PROVE  c \in Copies /\ d \in Time
  <2>1. memo[n].deadline \in Time
    BY TypeOf DEF MemoType
  <2> QED
    BY <1>2, <2>1 DEF Memoized, MemosInv
<1> QED
  BY <1>1, <1>2 DEF Mentioned

\* The generation of a mentioned copy, and that there is only one such copy.
LEMMA MentionFacts ==
    ASSUME TypeOK, HandlersInv, MemosInv, OneAcceptance, NEW c, NEW d, Mentioned(c, d)
    PROVE  /\ c \in Copies /\ d \in Time
           /\ Generation(NonceOfCopy(c), ExpiryOfCopy(c), d)
           /\ \A c2, d2 : Mentioned(c2, d2) /\ SameGeneration(BodyOf(c), BodyOf(c2)) =>
                  c2 = c /\ d2 = d
           /\ \A b \in Bodies : intent[b].present /\ SameGeneration(BodyOf(c), b) =>
                  b = BodyOf(c) /\ intent[b].deadline = d
<1>1. c \in Copies /\ d \in Time
  BY MentionTypes
<1>2. ASSUME NEW c2, NEW d2, Mentioned(c2, d2), SameGeneration(BodyOf(c), BodyOf(c2))
      PROVE  c2 = c /\ d2 = d
  <2>1. c2 \in Copies /\ d2 \in Time
    BY <1>2, MentionTypes
  <2> QED
    BY <1>1, <1>2, <2>1 DEF OneAcceptance
<1> QED
  BY <1>1, <1>2 DEF OneAcceptance

LEMMA AcceptanceKept ==
    ASSUME TypeOK, HandlersInv, MemosInv, OneAcceptance,
           Remembers, HandlersKept, MemosKept, IntentsKept,
           \A b \in Bodies : intent'[b].deadline \in Time
    PROVE  OneAcceptance'
<1>1. ASSUME NEW c \in Copies, NEW d \in Time, Mentioned(c, d)'
      PROVE  Mentioned(c, d)
  <2>1. ASSUME NEW t \in Threads, Handled(t, c, d)'
        PROVE  Mentioned(c, d)
    BY <2>1 DEF Handled, HandlersKept, Mentioned
  <2>2. ASSUME NEW t \in Threads, Seen(t, c, d)'
        PROVE  Mentioned(c, d)
    BY <2>2 DEF Seen, HandlersKept, Mentioned, Memoized
  <2>3. ASSUME NEW n \in Nonces, Memoized(n, c, d)'
        PROVE  Mentioned(c, d)
    BY <2>3 DEF Memoized, MemosKept, Mentioned, Handled, Leaves, SignSteps
  <2> QED
    BY <1>1, <2>1, <2>2, <2>3 DEF Mentioned
<1>2. ASSUME NEW b \in Bodies, intent'[b].present
      PROVE  \/ intent[b].present /\ intent'[b].deadline = intent[b].deadline
             \/ \E c \in Copies : BodyOf(c) = b /\ Mentioned(c, intent'[b].deadline)
  <2>1. ASSUME NEW u \in Threads, Leaves(u), BodyOf(th[u].copy) = b,
               intent'[b].deadline = th[u].deadline
        PROVE  \E c \in Copies : BodyOf(c) = b /\ Mentioned(c, intent'[b].deadline)
    <3>1. th[u].copy \in Copies /\ Handled(u, th[u].copy, th[u].deadline)
      BY <2>1 DEF Leaves, HandlersInv, HandlerOK, Handled, SignSteps
    <3> QED
      BY <3>1, <2>1 DEF Mentioned
  <2> QED
    BY <1>2, <2>1 DEF IntentsKept
<1>3. ASSUME NEW c \in Copies, NEW d \in Time, Mentioned(c, d)'
      PROVE  /\ Generation(NonceOfCopy(c), ExpiryOfCopy(c), d)'
             /\ \A c2 \in Copies, d2 \in Time :
                   Mentioned(c2, d2)' /\ SameGeneration(BodyOf(c), BodyOf(c2)) =>
                      c2 = c /\ d2 = d
             /\ \A b \in Bodies :
                   intent'[b].present /\ SameGeneration(BodyOf(c), b) =>
                      b = BodyOf(c) /\ intent'[b].deadline = d
  <2>1. Mentioned(c, d)
    BY <1>1, <1>3
  <2>2. /\ Generation(NonceOfCopy(c), ExpiryOfCopy(c), d)
        /\ \A c2, d2 : Mentioned(c2, d2) /\ SameGeneration(BodyOf(c), BodyOf(c2)) =>
              c2 = c /\ d2 = d
        /\ \A b \in Bodies : intent[b].present /\ SameGeneration(BodyOf(c), b) =>
              b = BodyOf(c) /\ intent[b].deadline = d
    BY <2>1, MentionFacts
  <2>3. Generation(NonceOfCopy(c), ExpiryOfCopy(c), d)'
    BY <2>2, Constants DEF Remembers
  <2>4. ASSUME NEW b \in Bodies, intent'[b].present, SameGeneration(BodyOf(c), b)
        PROVE  b = BodyOf(c) /\ intent'[b].deadline = d
    BY <1>2, <2>2, <2>4
  <2> QED
    BY <1>1, <2>2, <2>3, <2>4
<1>4. ASSUME NEW b \in Bodies, NEW d \in Time, intent'[b].present, d = intent'[b].deadline
      PROVE  /\ Generation(NonceOf[b], ExpiryOf[b], d)'
             /\ \A b2 \in Bodies : intent'[b2].present /\ SameGeneration(b, b2) => b2 = b
  <2>1. CASE intent[b].present /\ d = intent[b].deadline
    <3>1. /\ Generation(NonceOf[b], ExpiryOf[b], d)
          /\ \A b2 \in Bodies : intent[b2].present /\ SameGeneration(b, b2) => b2 = b
      BY <2>1 DEF OneAcceptance
    <3>2. ASSUME NEW b2 \in Bodies, intent'[b2].present, SameGeneration(b, b2)
          PROVE  b2 = b
      <4>1. CASE intent[b2].present
        BY <3>1, <3>2, <4>1
      <4>2. ASSUME NEW c \in Copies, BodyOf(c) = b2, Mentioned(c, intent'[b2].deadline)
            PROVE  b2 = b
        <5>1. SameGeneration(BodyOf(c), b)
          BY <3>2, <4>2 DEF SameGeneration
        <5> QED
          BY <2>1, <4>2, <5>1, MentionFacts
      <4> QED
        BY <1>2, <3>2, <4>1, <4>2
    <3>3. Generation(NonceOf[b], ExpiryOf[b], d)'
      BY <3>1, Constants DEF Remembers
    <3> QED
      BY <3>2, <3>3
  <2>2. ASSUME NEW c \in Copies, BodyOf(c) = b, Mentioned(c, d)
        PROVE  /\ Generation(NonceOf[b], ExpiryOf[b], d)'
               /\ \A b2 \in Bodies : intent'[b2].present /\ SameGeneration(b, b2) => b2 = b
    <3>1. /\ Generation(NonceOf[b], ExpiryOf[b], d)
          /\ \A c2, d2 : Mentioned(c2, d2) /\ SameGeneration(BodyOf(c), BodyOf(c2)) =>
                c2 = c /\ d2 = d
          /\ \A b2 \in Bodies : intent[b2].present /\ SameGeneration(b, b2) => b2 = b
      BY <2>2, MentionFacts DEF NonceOfCopy, ExpiryOfCopy
    <3>2. Generation(NonceOf[b], ExpiryOf[b], d)'
      BY <3>1, Constants DEF Remembers
    <3>3. ASSUME NEW b2 \in Bodies, intent'[b2].present, SameGeneration(b, b2)
          PROVE  b2 = b
      BY <1>2, <2>2, <3>1, <3>3
    <3> QED
      BY <3>2, <3>3
  <2> QED
    BY <1>2, <1>4, <2>1, <2>2
<1>5. ASSUME NEW b \in Bodies, intent'[b].present
      PROVE  /\ Generation(NonceOf[b], ExpiryOf[b], intent[b].deadline)'
             /\ \A b2 \in Bodies : intent'[b2].present /\ SameGeneration(b, b2) => b2 = b
  BY <1>4, <1>5 DEF Generation
<1> QED
  BY <1>3, <1>5 DEF OneAcceptance

LEMMA OneHandlerKept ==
    ASSUME OneHandler, HandlersKept PROVE OneHandler'
BY DEF OneHandler, HandlersKept

\* A handler in window A is the only one of its generation.
LEMMA AloneInWindowA ==
    ASSUME TypeOK, OneHandler, NEW t \in Threads, NEW u \in Threads,
           th[t].pc = "windowA", th[u].pc \in SignSteps,
           BodyOf(th[u].copy) = BodyOf(th[t].copy)
    PROVE  u = t
BY DEF OneHandler, SameGeneration, SignSteps

LEMMA FreshKept ==
    ASSUME TypeOK, OneHandler, FreshInWindowA, HandlersKept, MemosKept, IntentsKept,
           \A u \in Threads : th'[u].pc = "windowA" => th[u].pc = "windowA",
           \A t \in Threads : th[t].pc = "windowA" => BodyOf(th[t].copy) \in Bodies
    PROVE  FreshInWindowA'
<1> SUFFICES ASSUME NEW t \in Threads, th'[t].pc = "windowA"
             PROVE  /\ ~ intent'[BodyOf(th'[t].copy)].present
                    /\ \A n \in Nonces :
                          memo'[n].kind = "derived" => memo'[n].copy # th'[t].copy
                    /\ \A u \in Threads :
                          th'[u].pc \in SeenSteps => th'[u].seen # th'[t].copy
  BY DEF FreshInWindowA
<1>1. th[t].pc = "windowA" /\ th'[t].copy = th[t].copy
  BY DEF HandlersKept, SignSteps
<1>2. \A u \in Threads : Leaves(u) => BodyOf(th[u].copy) # BodyOf(th[t].copy)
  BY <1>1, AloneInWindowA DEF Leaves, SignSteps
<1>3. /\ ~ intent[BodyOf(th[t].copy)].present
      /\ \A n \in Nonces : memo[n].kind = "derived" => memo[n].copy # th[t].copy
      /\ \A u \in Threads : th[u].pc \in SeenSteps => th[u].seen # th[t].copy
  BY <1>1 DEF FreshInWindowA
<1>4. ~ intent'[BodyOf(th[t].copy)].present
  BY <1>1, <1>2, <1>3 DEF IntentsKept
<1>5. ASSUME NEW n \in Nonces, memo'[n].kind = "derived"
      PROVE  memo'[n].copy # th[t].copy
  BY <1>2, <1>3, <1>5 DEF MemosKept
<1>6. ASSUME NEW u \in Threads, th'[u].pc \in SeenSteps
      PROVE  th'[u].seen # th[t].copy
  BY <1>3, <1>6 DEF HandlersKept
<1> QED
  BY <1>1, <1>4, <1>5, <1>6

\* What a handler follows is not the copy of a handler in window A, nor of its body.
LEMMA SeenIsNotLeaving ==
    ASSUME TypeOK, HandlersInv, MemosInv, OneAcceptance, FreshInWindowA,
           NEW t \in Threads, NEW u \in Threads,
           th[t].pc \in SeenSteps, th[u].pc = "windowA"
    PROVE  BodyOf(th[u].copy) # BodyOf(th[t].seen) /\ th[u].copy # th[t].seen
<1>1. Mentioned(th[t].seen, th[t].seenDeadline) /\ Mentioned(th[u].copy, th[u].deadline)
  BY DEF Mentioned, Seen, Handled, SignSteps
<1>2. th[u].copy # th[t].seen
  BY DEF FreshInWindowA
<1>3. BodyOf(th[u].copy) = BodyOf(th[t].seen) =>
        SameGeneration(BodyOf(th[u].copy), BodyOf(th[t].seen))
  BY DEF SameGeneration
<1> QED
  BY <1>1, <1>2, <1>3, MentionFacts

\* A step that leaves the handlers of the receipt path alone, or ends one, and writes no
\* memo but those of MemosKept.
StoreFrame ==
    /\ \A u \in Threads : th'[u].pc \in SeenSteps \/ th[u].pc = "kdf" => th'[u] = th[u]
    /\ \A n \in Nonces : memo'[n].kind = "derived" /\ memo'[n] # memo[n] =>
          /\ memo'[n].resolved = [p \in Peers |-> NoTag]
          /\ \E u \in Threads : Leaves(u) /\ memo'[n].copy = th[u].copy

LEMMA ReceiptsKept ==
    ASSUME TypeOK, HandlersInv, MemosInv, OneAcceptance, FreshInWindowA,
           ConfirmedIsReady, SlotInv, TagsInv, Grows, StoreFrame, IntentsKept
    PROVE  ConfirmedIsReady' /\ SlotInv' /\ TagsInv'
<1>1. ConfirmedIsReady'
  <2> SUFFICES ASSUME NEW t \in Threads, th'[t].pc = "confirm",
                      intent'[BodyOf(th'[t].seen)].present
               PROVE  intent'[BodyOf(th'[t].seen)].ready
    BY DEF ConfirmedIsReady
  <2>1. th'[t] = th[t] /\ th[t].pc \in SeenSteps
    BY DEF StoreFrame, SeenSteps
  <2>2. BodyOf(th[t].seen) \in Bodies
    BY <2>1, Constants DEF HandlersInv, HandlerOK
  <2>3. \A u \in Threads : Leaves(u) => BodyOf(th[u].copy) # BodyOf(th[t].seen)
    BY <2>1, SeenIsNotLeaving DEF Leaves
  <2>4. /\ intent[BodyOf(th[t].seen)].present
        /\ intent[BodyOf(th[t].seen)].ready => intent'[BodyOf(th[t].seen)].ready
    BY <2>1, <2>2, <2>3 DEF IntentsKept
  <2> QED
    BY <2>1, <2>4 DEF ConfirmedIsReady
<1>2. ASSUME NEW t \in Threads, th'[t] = th[t], th[t].pc \in SeenSteps, Follows(t)'
      PROVE  /\ Follows(t)
             /\ memo'[NonceOfCopy(th[t].copy)] = memo[NonceOfCopy(th[t].copy)]
  <2>1. NonceOfCopy(th[t].copy) \in Nonces
    BY <1>2, Constants DEF HandlersInv, HandlerOK, SeenSteps
  <2>2. \A u \in Threads : Leaves(u) => th[u].copy # th[t].seen
    BY <1>2, SeenIsNotLeaving DEF Leaves
  <2> QED
    BY <1>2, <2>1, <2>2 DEF StoreFrame, Follows
<1>3. SlotInv'
  <2>1. \A t \in Threads : th'[t].pc \in {"kdf", "relookup", "staleKdf"} =>
            th'[t] = th[t] /\ th[t].pc \in SeenSteps
    BY DEF StoreFrame, SeenSteps
  <2>2. \A t, u \in Threads :
          th'[t].pc \in {"kdf", "staleKdf"} /\ th'[u].pc \in {"kdf", "staleKdf"} => t = u
    BY <2>1 DEF SlotInv
  <2>3. ASSUME NEW t \in Threads, th'[t].pc \in {"kdf", "relookup"}, Follows(t)'
        PROVE  memo'[NonceOfCopy(th'[t].copy)].resolved[th'[t].from] =
                  IF th'[t].pc = "kdf" THEN Tag(th'[t].seen) ELSE Tag(th'[t].copy)
    BY <1>2, <2>1, <2>3 DEF SlotInv
  <2> QED
    BY <2>2, <2>3 DEF SlotInv
<1>4. TagsInv'
  <2> SUFFICES ASSUME NEW n \in Nonces, NEW p \in Peers, memo'[n].kind = "derived",
                      memo'[n].resolved[p] # NoTag
               PROVE  /\ ~ memo'[n].resolved[p].claim =>
                            BodyOf(memo'[n].resolved[p].copy) = BodyOf(memo'[n].copy)
                      /\ \E c \in Copies :
                         /\ NonceOfCopy(c) = n /\ relay'[p][c] # "none"
                         /\ \/ memo'[n].resolved[p] \in {Tag(c), Claim(c)}
                            \/ /\ memo'[n].resolved[p] = Tag(memo'[n].copy)
                               /\ \/ BodyOf(c) # BodyOf(memo'[n].copy)
                                  \/ \E t \in Threads : Deriving(t, p, c, memo[n])'
    BY DEF TagsInv
  <2>1. memo'[n] = memo[n]
    BY DEF StoreFrame
  <2>2. PICK c \in Copies :
           /\ NonceOfCopy(c) = n /\ relay[p][c] # "none"
           /\ \/ memo[n].resolved[p] \in {Tag(c), Claim(c)}
              \/ /\ memo[n].resolved[p] = Tag(memo[n].copy)
                 /\ \/ BodyOf(c) # BodyOf(memo[n].copy)
                    \/ \E t \in Threads : Deriving(t, p, c, memo[n])
    BY <2>1 DEF TagsInv
  <2>3. ~ memo[n].resolved[p].claim => BodyOf(memo[n].resolved[p].copy) = BodyOf(memo[n].copy)
    BY <2>1 DEF TagsInv
  <2>4. \A t \in Threads : Deriving(t, p, c, memo[n]) => Deriving(t, p, c, memo[n])'
    BY <2>1 DEF Deriving, StoreFrame
  <2>5. relay'[p][c] # "none"
    BY <2>2 DEF Grows
  <2> QED
    BY <2>1, <2>2, <2>3, <2>4, <2>5
<1> QED
  BY <1>1, <1>3, <1>4

\* An intent with time left is of the generation the log still holds.
LEMMA LiveIsCurrent == TypeOK /\ OneAcceptance => LiveIntentIsCurrent
<1> SUFFICES ASSUME TypeOK, OneAcceptance, NEW b \in Bodies,
                    intent[b].present, intent[b].deadline > mono
             PROVE  entries[NonceOf[b]] = [expiry |-> ExpiryOf[b],
                                           deadline |-> intent[b].deadline]
  BY DEF LiveIntentIsCurrent
<1>1. mono \in Nat /\ intent[b].deadline \in Nat
  BY TypeOf, Constants DEF LogTypes, IntentType
<1>2. Generation(NonceOf[b], ExpiryOf[b], intent[b].deadline)
  BY DEF OneAcceptance
<1> QED
  BY <1>1, <1>2 DEF Generation

LEMMA OwnersKept ==
    ASSUME TypeOK, HandlersInv, MemosInv, OneAcceptance, OneHandler, OwnersKeepClaims,
           StayOver, mono' \in Nat, mono' >= mono, HandlersKept,
           \A u \in Threads : th'[u].pc = "windowA" => th[u].pc = "windowA",
           InflightKept
    PROVE  OwnersKeepClaims'
<1> SUFFICES ASSUME NEW t \in Threads, th'[t].pc = "windowA", ~ OwnClaim(t)'
             PROVE  /\ th'[t].deadline <= mono'
                    /\ entries'[NonceOfCopy(th'[t].copy)].expiry # ExpiryOfCopy(th'[t].copy)
  BY DEF OwnersKeepClaims
<1> DEFINE c == th[t].copy
           n == NonceOfCopy(c)
<1>1. /\ th[t].pc = "windowA" /\ th'[t].copy = c
      /\ th'[t].deadline = th[t].deadline
  BY DEF HandlersKept, SignSteps
<1>2. c \in Copies /\ th[t].owns /\ n \in Nonces /\ ExpiryOfCopy(c) \in Time \ {0}
  BY <1>1, Constants DEF HandlersInv, HandlerOK
<1>3. ~ OwnClaim(t)
  <2> SUFFICES ASSUME OwnClaim(t) PROVE FALSE
    OBVIOUS
  <2>1. memo[n].kind = "inflight" /\ memo[n].copy = c
    BY DEF OwnClaim
  <2>2. memo'[n] # memo[n]
    BY <1>1 DEF OwnClaim
  <2>3. PICK v \in Threads : /\ th[v].pc \in SignSteps /\ th[v].copy = c
                             /\ th'[v].pc # "windowA"
    BY <1>2, <2>1, <2>2 DEF InflightKept
  <2> QED
    BY <1>1, <2>3, AloneInWindowA
<1>4. th[t].deadline <= mono /\ entries[n].expiry # ExpiryOfCopy(c)
  BY <1>1, <1>2, <1>3 DEF OwnersKeepClaims
<1>5. Mentioned(c, th[t].deadline)
  BY <1>1 DEF Mentioned, Handled, SignSteps
<1>6. ExpiryOfCopy(c) <= highWater
  <2>1. Generation(n, ExpiryOfCopy(c), th[t].deadline)
    BY <1>5, MentionFacts
  <2> QED
    BY <1>4, <2>1 DEF Generation
<1>7. entries'[n].expiry # ExpiryOfCopy(c)
  BY <1>2, <1>4, <1>6 DEF StayOver
<1>8. th[t].deadline \in Nat /\ mono \in Nat
  BY TypeOf, Constants DEF LogTypes, Handler
<1>9. th[t].deadline <= mono'
  BY <1>4, <1>8
<1> QED
  BY <1>1, <1>7, <1>9

LEMMA ClaimsKept ==
    ASSUME TypeOK, HandlersInv, MemosInv, ClaimsHaveOwners,
           OwnersStay, RulersStay
    PROVE  ClaimsHaveOwners'
<1>1. ASSUME NEW n \in Nonces, memo'[n].kind = "inflight"
      PROVE  \E t \in Threads : /\ th'[t].owns /\ NonceOfCopy(th'[t].copy) = n
                                /\ OwnClaim(t)'
  <2>1. memo'[n] = memo[n]
    BY <1>1 DEF OwnersStay
  <2>2. PICK t \in Threads : th[t].owns /\ NonceOfCopy(th[t].copy) = n /\ OwnClaim(t)
    BY <1>1, <2>1 DEF ClaimsHaveOwners
  <2>3. th'[t].owns /\ th'[t].copy = th[t].copy /\ th'[t].deadline = th[t].deadline
    BY <1>1, <2>2 DEF OwnersStay
  <2>4. OwnClaim(t)'
    BY <2>1, <2>2, <2>3 DEF OwnClaim
  <2> QED
    BY <2>2, <2>3, <2>4
<1>2. ASSUME NEW b \in Bodies, intent'[b].ruling
      PROVE  \E t \in Threads : th'[t].rules /\ BodyOf(th'[t].copy) = b
  BY <1>2 DEF ClaimsHaveOwners, RulersStay
<1> QED
  BY <1>1, <1>2 DEF ClaimsHaveOwners

LEMMA RuledKept ==
    ASSUME HandlersInv, OneHandler, RuledInWindowB, HandlersKept,
           RulingsKept
    PROVE  RuledInWindowB'
<1> SUFFICES ASSUME NEW t \in Threads, th'[t].pc = "windowB" PROVE Ruled(t)'
  BY DEF RuledInWindowB, Ruled
<1>1. CASE th[t].pc = "windowB"
  <2>1. th'[t].copy = th[t].copy /\ BodyOf(th[t].copy) \in Bodies
    BY <1>1, Constants DEF HandlersKept, SignSteps, HandlersInv, HandlerOK
  <2>2. Ruled(t)
    BY <1>1 DEF RuledInWindowB, Ruled
  <2>3. \A v \in Threads : th[v].pc \in SignSteps /\ BodyOf(th[v].copy) = BodyOf(th[t].copy)
            => v = t
    BY <1>1 DEF OneHandler, SameGeneration, SignSteps
  <2>4. intent'[BodyOf(th[t].copy)] = intent[BodyOf(th[t].copy)]
    BY <2>1, <2>2, <2>3 DEF Ruled, RulingsKept
  <2> QED
    BY <2>1, <2>2, <2>4 DEF Ruled
<1> QED
  BY <1>1 DEF RulingsKept

LEMMA CountableKept ==
    ASSUME TypeOK, HandlersInv, MemosInv, OneAcceptance, CountableHasMemo,
           mono' \in Nat, mono' >= mono,
           CountablesKept
    PROVE  CountableHasMemo'
<1> SUFFICES ASSUME NEW b \in Bodies, intent'[b].present, intent'[b].deadline > mono'
             PROVE  /\ memo'[NonceOf[b]].kind = "derived"
                    /\ BodyOf(memo'[NonceOf[b]].copy) = b
  BY DEF CountableHasMemo, Countable
<1>1. CASE intent[b].present /\ intent'[b].deadline = intent[b].deadline
  <2> DEFINE m == memo[NonceOf[b]]
  <2>1. intent[b].deadline \in Nat /\ mono \in Nat
    BY TypeOf, Constants DEF LogTypes, IntentType
  <2>2. intent[b].deadline > mono
    BY <1>1, <2>1
  <2>3. m.kind = "derived" /\ BodyOf(m.copy) = b
    BY <1>1, <2>2 DEF CountableHasMemo, Countable
  <2>4. Mentioned(m.copy, m.deadline)
    BY <2>3, Constants DEF Mentioned, Memoized
  <2>5. SameGeneration(BodyOf(m.copy), b)
    BY <2>3 DEF SameGeneration
  <2>6. m.deadline = intent[b].deadline
    BY <1>1, <2>4, <2>5, MentionFacts
  <2> QED
    BY <2>2, <2>3, <2>6, Constants DEF CountablesKept
<1> QED
  BY <1>1 DEF CountablesKept

LEMMA HoldersStayReal ==
    ASSUME TypeOK, HoldersAreReal, Grows, HoldersKept,
           \A b \in Bodies : intent'[b].holders \subseteq Peers \cup {Self}
    PROVE  HoldersAreReal'
<1> SUFFICES ASSUME NEW b \in Bodies
             PROVE  /\ intent'[b].holders \ {Self} \subseteq Deliverers(b)'
                    /\ Self \in intent'[b].holders => Forwarded(b)'
  BY DEF HoldersAreReal
<1>1. Deliverers(b) \subseteq Deliverers(b)' /\ (Forwarded(b) => Forwarded(b)')
  BY DEF Deliverers, Forwarded, Grows
<1>2. Self \notin Deliverers(b)'
  BY CarrierAssumption DEF Deliverers
<1>3. /\ intent[b].holders \ {Self} \subseteq Deliverers(b)
      /\ Self \in intent[b].holders => Forwarded(b)
  BY DEF HoldersAreReal
<1> QED
  BY <1>1, <1>2, <1>3 DEF HoldersKept

\* The size of a quorum outlives the step that reached it.
LEMMA QuorumStays ==
    ASSUME TypeOK, ArmNeedsQuorum, Grows, armed' = armed
    PROVE  ArmNeedsQuorum'
<1> SUFFICES ASSUME armed
             PROVE  \E b \in DuressBodies :
                       /\ Cardinality(Deliverers(b)') + 1 >= Threshold
                       /\ Forwarded(b)'
  BY DEF ArmNeedsQuorum
<1>1. PICK b \in DuressBodies : /\ Cardinality(Deliverers(b)) + 1 >= Threshold
                                /\ Forwarded(b)
  BY DEF ArmNeedsQuorum
<1>2. Deliverers(b) \subseteq Deliverers(b)' /\ Forwarded(b)'
  BY <1>1 DEF Deliverers, Forwarded, Grows
<1>3. IsFiniteSet(Deliverers(b)')
  <2>1. Deliverers(b)' \subseteq Peers
    BY DEF Deliverers
  <2> QED
    BY <2>1, CarrierAssumption, FS_Subset
<1>4. /\ Cardinality(Deliverers(b)) <= Cardinality(Deliverers(b)')
      /\ Cardinality(Deliverers(b)) \in Nat /\ Cardinality(Deliverers(b)') \in Nat
  BY <1>2, <1>3, FS_Subset, FS_CardinalityType
<1>5. Cardinality(Deliverers(b)') + 1 >= Threshold
  <2> DEFINE x == Cardinality(Deliverers(b))
             y == Cardinality(Deliverers(b)')
  <2>1. x \in Nat /\ y \in Nat /\ x <= y /\ x + 1 >= Threshold
    BY <1>1, <1>4
  <2> HIDE DEF x, y
  <2>2. y + 1 >= Threshold
    BY <2>1, CarrierAssumption
  <2> QED
    BY <2>2 DEF y
<1> QED
  BY <1>2, <1>5

\* All that a step on the store keeps to.
StepFrame ==
    /\ Remembers /\ StayOver /\ Grows /\ mono' \in Nat /\ mono' >= mono
    /\ HandlersKept /\ MemosKept /\ IntentsKept /\ StoreFrame
    /\ \A u \in Threads : th'[u].pc = "windowA" => th[u].pc = "windowA"
    /\ \A u \in Threads : th'[u] = th[u] \/ HandlerOK(u)'
    /\ \A b \in Bodies : intent'[b] = intent[b] \/ IntentOK(intent'[b])
    /\ InflightKept /\ OwnersStay /\ RulersStay /\ RulingsKept
    /\ CountablesKept /\ HoldersKept

LEMMA HandlersStay ==
    ASSUME HandlersInv, Grows, TypeOK,
           \A u \in Threads : th'[u] = th[u] \/ HandlerOK(u)'
    PROVE  HandlersInv'
<1> SUFFICES ASSUME NEW u \in Threads, th'[u] = th[u] PROVE HandlerOK(u)'
  BY DEF HandlersInv
<1>1. HandlerOK(u)
  BY DEF HandlersInv
<1>2. th[u].pc # "idle" /\ th[u].from \in Peers => relay'[th[u].from][th[u].copy] # "none"
  BY <1>1 DEF HandlerOK, Grows
<1> QED
  BY <1>1, <1>2 DEF HandlerOK

LEMMA StoreStep ==
    ASSUME CarrierIInv, TypeOK', StepFrame, ArmNeedsQuorum'
    PROVE  CarrierIInv'
<1> USE DEF CarrierIInv, StoreInv, ArmInv, ClaimInv
<1>0. /\ Remembers /\ StayOver /\ Grows /\ mono' \in Nat /\ mono' >= mono
      /\ HandlersKept /\ MemosKept /\ IntentsKept /\ StoreFrame
      /\ \A u \in Threads : th'[u].pc = "windowA" => th[u].pc = "windowA"
      /\ \A u \in Threads : th'[u] = th[u] \/ HandlerOK(u)'
      /\ \A b \in Bodies : intent'[b] = intent[b] \/ IntentOK(intent'[b])
      /\ InflightKept /\ OwnersStay /\ RulersStay /\ RulingsKept
      /\ CountablesKept /\ HoldersKept
  BY DEF StepFrame
<1>1. \A b \in Bodies : /\ intent'[b].deadline \in Time
                        /\ intent'[b].holders \subseteq Peers \cup {Self}
  BY DEF TypeOK
<1>2. OneAcceptance'
  BY <1>0, <1>1, AcceptanceKept
<1>3. OneHandler'
  BY <1>0, OneHandlerKept
<1>4. HandlersInv'
  BY <1>0, HandlersStay
<1>5. MemosInv'
  BY <1>0, Constants DEF MemosInv, MemosKept, HandlersInv, HandlerOK, Leaves
<1>6. IntentsInv'
  BY <1>0 DEF IntentsInv
<1>7. FreshInWindowA'
  <2>1. \A t \in Threads : th[t].pc = "windowA" => BodyOf(th[t].copy) \in Bodies
    BY Constants DEF HandlersInv, HandlerOK
  <2> QED
    BY <1>0, <2>1, FreshKept
<1>8. RuledInWindowB'
  BY <1>0, RuledKept
<1>9. CountableHasMemo'
  BY <1>0, CountableKept
<1>10. ConfirmedIsReady' /\ SlotInv' /\ TagsInv'
  BY <1>0, ReceiptsKept
<1>11. HoldersAreReal'
  BY <1>0, <1>1, HoldersStayReal
<1>12. ClaimsHaveOwners'
  BY <1>0, ClaimsKept
<1>13. OwnersKeepClaims'
  BY <1>0, OwnersKept
<1>14. LiveIntentIsCurrent'
  BY <1>2, LiveIsCurrent, PTL
<1> QED
  BY <1>2, <1>3, <1>4, <1>5, <1>6, <1>7, <1>8, <1>9, <1>10, <1>11, <1>12, <1>13, <1>14

-----------------------------------------------------------------------------
(* The steps on the store.                                                   *)

LEMMA Defaults ==
    /\ NoTag \in Tags
    /\ NoMemo \in MemoType /\ NoMemo.kind = "none"
    /\ NoMemo.resolved = [p \in Peers |-> NoTag]
    /\ NoIntent \in IntentType /\ ~ NoIntent.present /\ ~ NoIntent.ready
    /\ ~ NoIntent.ruling /\ NoIntent.holders = {} /\ NoIntent.deadline = 0
    /\ IntentOK(NoIntent)
    /\ Idle \in Handler /\ Idle.pc = "idle" /\ ~ Idle.owns /\ ~ Idle.rules
    /\ Idle.copy = NoCopy /\ Idle.from = Coord
<1>1. NoTag \in Tags
  BY DEF NoTag, Tags
<1>2. /\ NoMemo \in MemoType /\ NoMemo.kind = "none"
      /\ NoMemo.resolved = [p \in Peers |-> NoTag]
  BY <1>1, Constants DEF NoMemo, MemoType
<1>3. /\ NoIntent \in IntentType /\ ~ NoIntent.present /\ ~ NoIntent.ready
      /\ ~ NoIntent.ruling /\ NoIntent.holders = {} /\ NoIntent.deadline = 0
  BY Constants DEF NoIntent, IntentType
<1>4. IntentOK(NoIntent)
  BY <1>3 DEF IntentOK
<1>5. Idle \in Handler /\ Idle.pc = "idle" /\ ~ Idle.owns /\ ~ Idle.rules
      /\ Idle.copy = NoCopy /\ Idle.from = Coord
  BY Constants DEF Idle, Handler
<1> QED
  BY <1>1, <1>2, <1>3, <1>4, <1>5

\* The memo of an accepted copy.
LEMMA MemoOfFacts ==
    ASSUME NEW k \in {"inflight", "derived"}, NEW c \in Copies, NEW d \in Time
    PROVE  /\ MemoOf(k, c, d) \in MemoType
           /\ MemoOf(k, c, d).kind = k /\ MemoOf(k, c, d).copy = c
           /\ MemoOf(k, c, d).deadline = d
           /\ MemoOf(k, c, d).resolved = [p \in Peers |-> NoTag]
<1>1. NoMemo \in [kind : {"none", "inflight", "derived"}, copy : Copies \cup {NoCopy},
                   deadline : Time, resolved : [Peers -> Tags]]
      /\ NoMemo.resolved = [p \in Peers |-> NoTag]
  BY Defaults DEF MemoType
<1>2. MemoOf(k, c, d) = [NoMemo EXCEPT !.kind = k, !.copy = c, !.deadline = d]
  BY DEF MemoOf
<1> QED
  BY <1>1, <1>2 DEF MemoType

\* A step that leaves the log alone.
LEMMA LogKept ==
    ASSUME TypeOK, UNCHANGED <<mono, logVars>>
    PROVE  LogTypes' /\ Remembers /\ StayOver /\ mono' \in Nat /\ mono' >= mono
<1>1. LogTypes /\ mono \in Nat
  BY TypeOf, Constants DEF LogTypes
<1>2. LogTypes'
  BY <1>1 DEF LogTypes, logVars
<1> QED
  BY <1>1, <1>2 DEF Remembers, StayOver, Generation, logVars

LEMMA TypeNext ==
    ASSUME LogTypes', memo' \in [Nonces -> MemoType], intent' \in [Bodies -> IntentType],
           th' \in [Threads -> Handler], armed' \in BOOLEAN, locked' \in BOOLEAN,
           forwarded' \subseteq Copies, relay' \in [Peers -> [Copies -> Answers]]
    PROVE  TypeOK'
BY DEF TypeOK, MemoType, IntentType, Answers, LogTypes, Log!TypeOK, Log!NonceEntry, Time,
   Log!Time

\* prune_carriers takes no claim, no intent that waits for its ruling and nothing with time
\* left.
LEMMA PruneFacts ==
    ASSUME TypeOK
    PROVE  /\ PrunedIntents(intent) \in [Bodies -> IntentType]
           /\ PrunedMemos(memo, PrunedIntents(intent)) \in [Nonces -> MemoType]
           /\ \A b \in Bodies :
                 \/ PrunedIntents(intent)[b] = intent[b]
                 \/ /\ PrunedIntents(intent)[b] = NoIntent
                    /\ ~ intent[b].ruling /\ ~ (intent[b].deadline > mono)
           /\ \A n \in Nonces :
                 \/ PrunedMemos(memo, PrunedIntents(intent))[n] = memo[n]
                 \/ /\ PrunedMemos(memo, PrunedIntents(intent))[n] = NoMemo
                    /\ memo[n].kind # "inflight" /\ ~ (memo[n].deadline > mono)
<1>1. memo \in [Nonces -> MemoType] /\ intent \in [Bodies -> IntentType]
  BY TypeOf
<1> QED
  BY <1>1, Defaults DEF PrunedIntents, PrunedMemos

\* A step that only forgets: the handlers stay where they are.
LEMMA ForgetStep ==
    ASSUME CarrierIInv, TypeOK', UNCHANGED <<mono, logVars, th, armed, forwarded, relay>>,
           \A b \in Bodies :
              \/ intent'[b] = intent[b]
              \/ /\ intent'[b] = NoIntent
                 /\ ~ intent[b].ruling /\ ~ (intent[b].deadline > mono),
           \A n \in Nonces :
              \/ memo'[n] = memo[n]
              \/ /\ memo'[n] = NoMemo
                 /\ memo[n].kind # "inflight" /\ ~ (memo[n].deadline > mono)
    PROVE  CarrierIInv'
<1> USE DEF CarrierIInv, StoreInv, ArmInv, ClaimInv
<1>0. /\ Remembers /\ StayOver /\ mono' \in Nat /\ mono' >= mono
  BY LogKept
<1>1. Grows
  BY DEF Grows
<1>2. HandlersKept
  BY DEF HandlersKept
<1>3. MemosKept /\ StoreFrame
  BY Defaults DEF MemosKept, StoreFrame
<1>4. IntentsKept
  BY Defaults DEF IntentsKept
<1>5. \A b \in Bodies : intent'[b] = intent[b] \/ IntentOK(intent'[b])
  BY Defaults
<1>6. InflightKept /\ OwnersStay
  BY Defaults DEF InflightKept, OwnersStay
<1>7. RulersStay /\ RulingsKept
  BY Defaults DEF RulersStay, RulingsKept
<1>8. CountablesKept
  BY Defaults DEF CountablesKept
<1>9. HoldersKept
  BY Defaults DEF HoldersKept
<1>10. StepFrame
  BY <1>0, <1>1, <1>2, <1>3, <1>4, <1>5, <1>6, <1>7, <1>8, <1>9 DEF StepFrame
<1>11. ArmNeedsQuorum'
  BY <1>1, QuorumStays
<1> QED
  BY <1>10, <1>11, StoreStep

LEMMA PruneStep == CarrierIInv /\ PruneStore => CarrierIInv'
<1> SUFFICES ASSUME CarrierIInv, PruneStore PROVE CarrierIInv'
  OBVIOUS
<1>0. TypeOK
  BY DEF CarrierIInv, ArmInv
<1>1. /\ intent' = PrunedIntents(intent)
      /\ memo' = PrunedMemos(memo, PrunedIntents(intent))
      /\ UNCHANGED <<mono, logVars, armed, th, locked, forwarded, relay>>
  BY DEF PruneStore
<1>2. TypeOK'
  BY <1>0, <1>1, PruneFacts, LogKept, TypeOf, TypeNext
<1> QED
  BY <1>0, <1>1, <1>2, PruneFacts, ForgetStep

LEMMA LatchStep == CarrierIInv /\ LatchLockdown => CarrierIInv'
<1> SUFFICES ASSUME CarrierIInv, LatchLockdown PROVE CarrierIInv'
  OBVIOUS
<1>0. TypeOK
  BY DEF CarrierIInv, ArmInv
<1>1. locked' = TRUE /\ UNCHANGED <<mono, logVars, th, armed, forwarded, relay, memo, intent>>
  BY DEF LatchLockdown, storeVars
<1>2. TypeOK'
  BY <1>0, <1>1, LogKept, TypeOf, TypeNext
<1> QED
  BY <1>1, <1>2, ForgetStep

LEMMA TickStep == CarrierIInv /\ TickMono => CarrierIInv'
<1> SUFFICES ASSUME CarrierIInv, TickMono PROVE CarrierIInv'
  OBVIOUS
<1> USE DEF CarrierIInv, StoreInv, ArmInv, ClaimInv
<1>1. /\ mono < U64Max /\ mono' = mono + 1
      /\ UNCHANGED <<entries, highWater, accepts, memo, intent, armed, th, locked,
                     forwarded, relay>>
  BY DEF TickMono, Log!TickMono, Log!logVars, storeVars
<1>2. mono \in Nat /\ U64Max \in Nat /\ mono' \in Nat /\ mono' >= mono /\ mono' \in Time
  BY <1>1, TypeOf, Constants DEF LogTypes
<1>3. TypeOK'
  <2>1. LogTypes'
    BY <1>1, <1>2, TypeOf DEF LogTypes
  <2> QED
    BY <1>1, <2>1, TypeOf, TypeNext
<1>4. StayOver
  BY <1>1 DEF StayOver
<1>5. Remembers
  <2> SUFFICES ASSUME NEW m \in Nonces, NEW x \in Time \ {0}, NEW d \in Time,
                      Generation(m, x, d)
               PROVE  Generation(m, x, d)'
    BY DEF Remembers
  <2>1. d \in Nat /\ (d <= mono => d <= mono')
    BY <1>2, Constants
  <2> QED
    BY <1>1, <2>1 DEF Generation
<1>6. /\ Grows /\ HandlersKept /\ MemosKept /\ IntentsKept /\ StoreFrame
      /\ InflightKept /\ OwnersStay /\ RulersStay /\ RulingsKept
      /\ CountablesKept /\ HoldersKept
  BY <1>1 DEF Grows, HandlersKept, MemosKept, IntentsKept, StoreFrame, InflightKept,
     OwnersStay, RulersStay, RulingsKept, CountablesKept, HoldersKept
<1>7. StepFrame
  BY <1>1, <1>2, <1>4, <1>5, <1>6 DEF StepFrame
<1>8. ArmNeedsQuorum'
  BY <1>1, <1>6, QuorumStays
<1> QED
  BY <1>3, <1>7, <1>8, StoreStep

\* What record_arm_intent and mark_carrier_propagated make of the intents of a handler that
\* leaves window A.
LEMMA CommitIntents ==
    ASSUME TypeOK, NEW t \in Threads, th[t].copy \in Copies,
           ~ intent[BodyOf(th[t].copy)].present
    PROVE  LET b == BodyOf(th[t].copy)
               i == Recorded(t)
               j == Marked(Recorded(t), b)
           IN  /\ i \in [Bodies -> IntentType] /\ j \in [Bodies -> IntentType]
               /\ \A x \in Bodies \ {b} : i[x] = intent[x] /\ j[x] = intent[x]
               /\ i[b].present /\ i[b].ruling /\ ~ i[b].ready /\ i[b].holders = {}
               /\ i[b].deadline = th[t].deadline
               /\ j[b].present /\ j[b].ruling /\ j[b].ready /\ j[b].holders = {Self}
               /\ j[b].deadline = th[t].deadline
<1> DEFINE b == BodyOf(th[t].copy)
           i == Recorded(t)
           j == Marked(Recorded(t), b)
           new == [NoIntent EXCEPT !.present = TRUE, !.ruling = TRUE,
                                   !.deadline = th[t].deadline]
           marked == [new EXCEPT !.ready = TRUE, !.holders = {Self}]
<1>1. b \in Bodies /\ intent \in [Bodies -> IntentType] /\ th[t].deadline \in Time
  BY Constants, TypeOf DEF Handler
<1>2. /\ new \in IntentType /\ new.present /\ new.ruling /\ ~ new.ready
      /\ new.holders = {} /\ new.deadline = th[t].deadline
  BY <1>1, Defaults DEF IntentType
<1>3. i = [intent EXCEPT ![b] = new]
  BY <1>1 DEF Recorded
<1>4. i \in [Bodies -> IntentType] /\ i[b] = new /\ \A x \in Bodies \ {b} : i[x] = intent[x]
  <2> HIDE DEF new, i
  <2> QED
    BY <1>1, <1>2, <1>3
<1>5. j = [i EXCEPT ![b] = marked]
  <2>1. i[b].present
    BY <1>2, <1>4
  <2>2. j = [i EXCEPT ![b].ready = TRUE, ![b].holders = @ \cup {Self}]
    BY <2>1 DEF Marked
  <2> HIDE DEF i, new
  <2> QED
    BY <1>1, <1>2, <1>4, <2>2 DEF IntentType
<1>6. /\ marked \in IntentType
      /\ marked.present
      /\ marked.ruling
      /\ marked.ready
      /\ marked.holders = {Self}
      /\ marked.deadline = th[t].deadline
  <2> HIDE DEF new
  <2> QED
    BY <1>2 DEF IntentType
<1>7. /\ j \in [Bodies -> IntentType] /\ j[b] = marked
      /\ \A x \in Bodies \ {b} : j[x] = intent[x]
  <2> HIDE DEF new, marked, i, j
  <2> QED
    BY <1>1, <1>4, <1>5, <1>6
<1>8. /\ i[b].present /\ i[b].ruling /\ ~ i[b].ready /\ i[b].holders = {}
      /\ i[b].deadline = th[t].deadline
  <2> HIDE DEF new, i
  <2> QED
    BY <1>2, <1>4
<1>9. /\ j[b].present /\ j[b].ruling /\ j[b].ready /\ j[b].holders = {Self}
      /\ j[b].deadline = th[t].deadline
  <2> HIDE DEF marked, j
  <2> QED
    BY <1>6, <1>7
<1> QED
  BY <1>4, <1>7, <1>8, <1>9, Zenon

\* A handler moves on, with all it holds.
LEMMA Moves ==
    ASSUME TypeOK, NEW t \in Threads, NEW pc \in {"windowB", "ending", "kdf", "relookup"},
           th' = [th EXCEPT ![t].pc = pc]
    PROVE  /\ th' \in [Threads -> Handler]
           /\ \A u \in Threads \ {t} : th'[u] = th[u]
           /\ th'[t].pc = pc /\ th'[t].copy = th[t].copy /\ th'[t].from = th[t].from
           /\ th'[t].deadline = th[t].deadline
           /\ th'[t].owns = th[t].owns /\ th'[t].rules = th[t].rules
           /\ th'[t].seen = th[t].seen /\ th'[t].seenDeadline = th[t].seenDeadline
BY TypeOf DEF Handler

\* The parts of the frame that speak of one handler of /sign, t.
LEMMA SignMove ==
    ASSUME CarrierIInv, NEW t \in Threads, th[t].pc \in SignSteps,
           th'[t].pc \in {"windowB", "ending"},
           th'[t].copy = th[t].copy, th'[t].deadline = th[t].deadline,
           th'[t].from = th[t].from,
           th'[t].pc = "windowB" => th'[t].rules,
           Grows, \A u \in Threads \ {t} : th'[u] = th[u]
    PROVE  /\ HandlersKept
           /\ \A u \in Threads : th'[u].pc \in SeenSteps \/ th[u].pc = "kdf" =>
                 th'[u] = th[u]
           /\ \A u \in Threads : th'[u].pc = "windowA" => th[u].pc = "windowA"
           /\ \A u \in Threads : th'[u] = th[u] \/ HandlerOK(u)'
<1>1. HandlerOK(t)
  BY DEF CarrierIInv, HandlersInv
<1>2. HandlersKept
  BY DEF HandlersKept, SignSteps, SeenSteps
<1>3. /\ \A u \in Threads : th'[u].pc \in SeenSteps \/ th[u].pc = "kdf" => th'[u] = th[u]
      /\ \A u \in Threads : th'[u].pc = "windowA" => th[u].pc = "windowA"
  BY DEF SignSteps, SeenSteps
<1>4. th[t].copy \in Copies /\ (th[t].from \in Peers => relay[th[t].from][th[t].copy] # "none")
  BY <1>1 DEF HandlerOK, SignSteps
<1>5. th[t].from \in Peers => relay'[th[t].from][th[t].copy] # "none"
  BY <1>4 DEF Grows
<1>6. HandlerOK(t)'
  BY <1>1, <1>4, <1>5 DEF HandlerOK, SignSteps, SeenSteps
<1> QED
  BY <1>2, <1>3, <1>6

LEMMA CommitLocked ==
    ASSUME CarrierIInv, NEW t \in Threads, th[t].pc \in {"windowA", "windowB"},
           th' = [th EXCEPT ![t].pc = "ending"],
           UNCHANGED <<mono, logVars, memo, intent, armed, locked, forwarded, relay>>
    PROVE  CarrierIInv'
<1> USE DEF CarrierIInv, StoreInv, ArmInv, ClaimInv
<1>1. /\ Remembers /\ StayOver /\ mono' \in Nat /\ mono' >= mono /\ LogTypes'
  BY LogKept
<1>2. /\ th' \in [Threads -> Handler]
      /\ \A u \in Threads \ {t} : th'[u] = th[u]
      /\ th'[t].pc = "ending" /\ th'[t].copy = th[t].copy /\ th'[t].from = th[t].from
      /\ th'[t].deadline = th[t].deadline
      /\ th'[t].owns = th[t].owns /\ th'[t].rules = th[t].rules
  BY Moves
<1>3. TypeOK'
  BY <1>1, <1>2, TypeOf, TypeNext
<1>4. Grows
  BY DEF Grows
<1>5. /\ HandlersKept
      /\ \A u \in Threads : th'[u].pc \in SeenSteps \/ th[u].pc = "kdf" => th'[u] = th[u]
      /\ \A u \in Threads : th'[u].pc = "windowA" => th[u].pc = "windowA"
      /\ \A u \in Threads : th'[u] = th[u] \/ HandlerOK(u)'
  BY <1>2, <1>4, SignMove DEF SignSteps
<1>6. MemosKept /\ IntentsKept /\ StoreFrame /\ InflightKept /\ CountablesKept /\ HoldersKept
  BY <1>5 DEF MemosKept, IntentsKept, StoreFrame, InflightKept, CountablesKept, HoldersKept
<1>7. OwnersStay /\ RulersStay
  BY <1>2 DEF OwnersStay, RulersStay
<1>8. RulingsKept
  BY <1>2 DEF RulingsKept
<1>9. StepFrame
  BY <1>1, <1>4, <1>5, <1>6, <1>7, <1>8 DEF StepFrame
<1>10. ArmNeedsQuorum'
  BY <1>4, QuorumStays
<1> QED
  BY <1>3, <1>9, <1>10, StoreStep

LEMMA CommitStep ==
    ASSUME CarrierIInv, NEW t \in Threads, Commit(t)
    PROVE  CarrierIInv'
<1> USE DEF CarrierIInv, StoreInv, ArmInv, ClaimInv
<1> DEFINE c == th[t].copy
           b == BodyOf(c)
           n == NonceOf[b]
<1>1. th[t].pc = "windowA" /\ UNCHANGED <<mono, logVars, locked, relay>>
  BY DEF Commit
<1>2. CASE locked
  BY <1>1, <1>2, CommitLocked DEF Commit, storeVars
<1>3. CASE ~ locked
  <2>1. PICK stops \in BOOLEAN :
          /\ intent' = IF stops THEN Marked(Recorded(t), b) ELSE Recorded(t)
          /\ memo' = IF Upgrades(t)
                     THEN [memo EXCEPT ![n] = MemoOf("derived", c, th[t].deadline)]
                     ELSE memo
          /\ forwarded' = IF stops THEN forwarded \cup {c} ELSE forwarded
          /\ th' = [th EXCEPT
                      ![t].pc = IF stops THEN "ending" ELSE "windowB",
                      ![t].owns = @ /\ ~ Upgrades(t),
                      ![t].rules = TRUE]
          /\ UNCHANGED armed
    <3>1. PICK now \in Time, pinRefuses \in BOOLEAN :
            LET stops == ClockRefuses(ExpiryOf[b], now) \/ pinRefuses IN
            /\ intent' = IF stops THEN Marked(Recorded(t), b) ELSE Recorded(t)
            /\ memo' = IF Upgrades(t)
                       THEN [memo EXCEPT ![n] = MemoOf("derived", c, th[t].deadline)]
                       ELSE memo
            /\ forwarded' = IF stops THEN forwarded \cup {c} ELSE forwarded
            /\ th' = [th EXCEPT
                        ![t].pc = IF stops THEN "ending" ELSE "windowB",
                        ![t].owns = @ /\ ~ Upgrades(t),
                        ![t].rules = TRUE]
            /\ UNCHANGED armed
      BY <1>3 DEF Commit
    <3>2. (ClockRefuses(ExpiryOf[b], now) \/ pinRefuses) \in BOOLEAN
      OBVIOUS
    <3> QED
      BY <3>1, <3>2
  <2>2. /\ c \in Copies /\ b \in Bodies /\ n \in Nonces /\ th[t].owns
        /\ th[t].deadline \in Time /\ n = NonceOfCopy(c)
        /\ ~ intent[b].present
    BY <1>1, Constants, TypeOf
    DEF HandlersInv, HandlerOK, Handler, FreshInWindowA, NonceOfCopy
  <2>3. /\ intent' \in [Bodies -> IntentType]
        /\ \A x \in Bodies \ {b} : intent'[x] = intent[x]
        /\ intent'[b].present /\ intent'[b].ruling /\ intent'[b].deadline = th[t].deadline
        /\ IF stops THEN intent'[b].ready /\ intent'[b].holders = {Self}
           ELSE ~ intent'[b].ready /\ intent'[b].holders = {}
    BY <2>1, <2>2, CommitIntents
  <2>4. /\ th' \in [Threads -> Handler]
        /\ \A u \in Threads \ {t} : th'[u] = th[u]
        /\ th'[t].pc = (IF stops THEN "ending" ELSE "windowB")
        /\ th'[t].copy = c /\ th'[t].from = th[t].from
        /\ th'[t].deadline = th[t].deadline
        /\ th'[t].owns = (th[t].owns /\ ~ Upgrades(t)) /\ th'[t].rules
    <3>1. th \in [Threads -> Handler]
      BY TypeOf
    <3>2. PICK o \in BOOLEAN : o = (th[t].owns /\ ~ Upgrades(t))
      OBVIOUS
    <3>3. PICK x \in {"ending", "windowB"} : x = IF stops THEN "ending" ELSE "windowB"
      OBVIOUS
    <3>4. th' = [th EXCEPT ![t].pc = x, ![t].owns = o, ![t].rules = TRUE]
      BY <2>1, <3>2, <3>3
    <3>5. th' = [th EXCEPT ![t] = [th[t] EXCEPT !.pc = x, !.owns = o, !.rules = TRUE]]
      BY <3>1, <3>4, Zenon
    <3>6. [th[t] EXCEPT !.pc = x, !.owns = o, !.rules = TRUE] \in Handler
      BY <3>1 DEF Handler
    <3>7. /\ th' \in [Threads -> Handler]
          /\ \A u \in Threads \ {t} : th'[u] = th[u]
          /\ th'[t].pc = x /\ th'[t].copy = c /\ th'[t].from = th[t].from
          /\ th'[t].deadline = th[t].deadline /\ th'[t].owns = o /\ th'[t].rules
      BY <3>1, <3>5, <3>6 DEF Handler
    <3> QED
      BY <3>2, <3>3, <3>7
  <2>5. /\ memo' \in [Nonces -> MemoType]
        /\ \A m \in Nonces \ {n} : memo'[m] = memo[m]
        /\ ~ Upgrades(t) => memo'[n] = memo[n]
        /\ Upgrades(t) => /\ memo'[n].kind = "derived" /\ memo'[n].copy = c
                          /\ memo'[n].deadline = th[t].deadline
                          /\ memo'[n].resolved = [p \in Peers |-> NoTag]
    <3>1. memo \in [Nonces -> MemoType]
      BY TypeOf
    <3> QED
      BY <2>1, <2>2, <3>1, MemoOfFacts
  <2>6. /\ Remembers /\ StayOver /\ mono' \in Nat /\ mono' >= mono /\ LogTypes'
    BY <1>1, LogKept
  <2>7. TypeOK'
    BY <1>1, <2>1, <2>2, <2>3, <2>4, <2>5, <2>6, TypeOf, TypeNext
  <2>8. Grows
    BY <1>1, <2>1 DEF Grows
  <2>9. /\ HandlersKept
        /\ \A u \in Threads : th'[u].pc \in SeenSteps \/ th[u].pc = "kdf" => th'[u] = th[u]
        /\ \A u \in Threads : th'[u].pc = "windowA" => th[u].pc = "windowA"
        /\ \A u \in Threads : th'[u] = th[u] \/ HandlerOK(u)'
    BY <1>1, <2>4, <2>8, SignMove DEF SignSteps
  <2>10. Leaves(t)
    BY <1>1, <2>4 DEF Leaves
  <2>11. MemosKept /\ StoreFrame
    BY <2>2, <2>5, <2>9, <2>10 DEF MemosKept, StoreFrame
  <2>12. IntentsKept
    BY <2>3, <2>10 DEF IntentsKept
  <2>13. \A x \in Bodies : intent'[x] = intent[x] \/ IntentOK(intent'[x])
    BY <2>3 DEF IntentOK
  <2>14. InflightKept /\ OwnersStay
    <3>1. Upgrades(t) /\ memo[n].kind = "inflight" => memo[n].copy = c
      BY <2>2 DEF Upgrades, OwnClaim
    <3>2. InflightKept
      BY <1>1, <2>4, <2>5, <3>1 DEF InflightKept, SignSteps
    <3>3. OwnersStay
      BY <2>2, <2>4, <2>5 DEF OwnersStay
    <3> QED
      BY <3>2, <3>3
  <2>15. RulersStay
    BY <2>3, <2>4 DEF RulersStay
  <2>16. RulingsKept
    BY <1>1, <2>2, <2>3, <2>4 DEF RulingsKept, Ruled
  <2>17. CountablesKept
    <3>1. ~ Upgrades(t) => th[t].deadline <= mono
      BY <1>1, <2>2 DEF OwnersKeepClaims, Upgrades
    <3>2. th[t].deadline \in Nat /\ mono \in Nat
      BY <2>2, TypeOf, Constants DEF LogTypes
    <3>3. intent'[b].deadline > mono' => Upgrades(t)
      BY <1>1, <2>3, <3>1, <3>2
    <3>4. Upgrades(t) => memo[n].kind # "derived"
      BY <2>2 DEF Upgrades, OwnClaim
    <3> QED
      BY <2>2, <2>3, <2>5, <3>3, <3>4 DEF CountablesKept
  <2>18. HoldersKept
    <3>1. stops => \E x \in forwarded' : BodyOf(x) = b
      BY <2>1, <2>2
    <3> QED
      BY <2>3, <3>1 DEF HoldersKept, Forwarded
  <2>19. StepFrame
    BY <2>6, <2>8, <2>9, <2>11, <2>12, <2>13, <2>14, <2>15, <2>16, <2>17, <2>18
    DEF StepFrame
  <2>20. ArmNeedsQuorum'
    BY <2>1, <2>8, QuorumStays
  <2> QED
    BY <2>7, <2>19, <2>20, StoreStep
<1> QED
  BY <1>2, <1>3

\* mark_carrier_propagated on an intent that is there.
LEMMA MarkedFacts ==
    ASSUME NEW i \in [Bodies -> IntentType], NEW b \in Bodies, i[b].present
    PROVE  /\ Marked(i, b) \in [Bodies -> IntentType]
           /\ \A x \in Bodies \ {b} : Marked(i, b)[x] = i[x]
           /\ Marked(i, b)[b].present /\ Marked(i, b)[b].ready
           /\ Marked(i, b)[b].holders = i[b].holders \cup {Self}
           /\ Marked(i, b)[b].ruling = i[b].ruling
           /\ Marked(i, b)[b].deadline = i[b].deadline
<1> DEFINE new == [i[b] EXCEPT !.ready = TRUE, !.holders = @ \cup {Self}]
<1>1. Marked(i, b) = [i EXCEPT ![b] = new]
  <2>1. Marked(i, b) = [i EXCEPT ![b].ready = TRUE, ![b].holders = @ \cup {Self}]
    BY DEF Marked
  <2> QED
    BY <2>1 DEF IntentType
<1>2. i[b] \in IntentType
  OBVIOUS
<1>3. /\ new \in IntentType /\ new.present = i[b].present /\ new.ready
      /\ new.holders = i[b].holders \cup {Self} /\ new.ruling = i[b].ruling
      /\ new.deadline = i[b].deadline
  BY <1>2 DEF IntentType
<1> HIDE DEF new
<1>4. /\ Marked(i, b) \in [Bodies -> IntentType] /\ Marked(i, b)[b] = new
      /\ \A x \in Bodies \ {b} : Marked(i, b)[x] = i[x]
  BY <1>1, <1>3
<1> QED
  BY <1>3, <1>4

LEMMA RegisterStep ==
    ASSUME CarrierIInv, NEW t \in Threads, Register(t)
    PROVE  CarrierIInv'
<1> USE DEF CarrierIInv, StoreInv, ArmInv, ClaimInv
<1> DEFINE b == BodyOf(th[t].copy)
<1>1. /\ th[t].pc = "windowB" /\ th' = [th EXCEPT ![t].pc = "ending"]
      /\ UNCHANGED <<mono, logVars, locked, relay>>
  BY DEF Register
<1>2. CASE locked
  BY <1>1, <1>2, CommitLocked DEF Register, storeVars
<1>3. CASE ~ locked
  <2>1. PICK staged \in BOOLEAN, prunes \in BOOLEAN :
          LET kept == IF prunes THEN PrunedIntents(intent) ELSE intent IN
          /\ memo' = IF prunes THEN PrunedMemos(memo, kept) ELSE memo
          /\ intent' = IF staged THEN Marked(kept, b) ELSE kept
          /\ forwarded' = IF staged THEN forwarded \cup {th[t].copy} ELSE forwarded
          /\ UNCHANGED armed
    BY <1>3 DEF Register
  <2> DEFINE kept == IF prunes THEN PrunedIntents(intent) ELSE intent
  <2>2. th[t].copy \in Copies /\ b \in Bodies
    BY <1>1, Constants DEF HandlersInv, HandlerOK
  <2>3. intent[b].present /\ intent[b].ruling /\ ~ intent[b].ready
    BY <1>1 DEF RuledInWindowB
  <2>4. /\ kept \in [Bodies -> IntentType] /\ kept[b] = intent[b]
        /\ \A x \in Bodies : \/ kept[x] = intent[x]
                             \/ /\ kept[x] = NoIntent
                                /\ ~ intent[x].ruling /\ ~ (intent[x].deadline > mono)
    BY <2>2, <2>3, PruneFacts, TypeOf
  <2>5. /\ memo' \in [Nonces -> MemoType]
        /\ \A n \in Nonces : \/ memo'[n] = memo[n]
                             \/ /\ memo'[n] = NoMemo /\ memo[n].kind # "inflight"
                                /\ ~ (memo[n].deadline > mono)
    BY <2>1, PruneFacts, TypeOf
  <2>6. intent' = IF staged THEN Marked(kept, b) ELSE kept
    BY <2>1
  <2> HIDE DEF kept
  <2>7. /\ intent' \in [Bodies -> IntentType]
        /\ intent'[b].present /\ intent'[b].ruling
        /\ intent'[b].deadline = intent[b].deadline
        /\ IF staged THEN /\ intent'[b].ready
                          /\ intent'[b].holders = intent[b].holders \cup {Self}
           ELSE intent'[b] = intent[b]
        /\ \A x \in Bodies \ {b} :
              \/ intent'[x] = intent[x]
              \/ /\ intent'[x] = NoIntent
                 /\ ~ intent[x].ruling /\ ~ (intent[x].deadline > mono)
    <3>1. CASE staged
      BY <3>1, <2>2, <2>3, <2>4, <2>6, MarkedFacts
    <3>2. CASE ~ staged
      BY <3>2, <2>2, <2>3, <2>4, <2>6
    <3> QED
      BY <3>1, <3>2
  <2>8. /\ th' \in [Threads -> Handler]
        /\ \A u \in Threads \ {t} : th'[u] = th[u]
        /\ th'[t].pc = "ending" /\ th'[t].copy = th[t].copy /\ th'[t].from = th[t].from
        /\ th'[t].deadline = th[t].deadline
        /\ th'[t].owns = th[t].owns /\ th'[t].rules = th[t].rules
    BY <1>1, Moves
  <2>9. /\ Remembers /\ StayOver /\ mono' \in Nat /\ mono' >= mono /\ LogTypes'
    BY <1>1, LogKept
  <2>10. TypeOK'
    BY <1>1, <2>1, <2>2, <2>5, <2>7, <2>8, <2>9, TypeOf, TypeNext
  <2>11. Grows
    BY <1>1, <2>1 DEF Grows
  <2>12. /\ HandlersKept
         /\ \A u \in Threads : th'[u].pc \in SeenSteps \/ th[u].pc = "kdf" => th'[u] = th[u]
         /\ \A u \in Threads : th'[u].pc = "windowA" => th[u].pc = "windowA"
         /\ \A u \in Threads : th'[u] = th[u] \/ HandlerOK(u)'
    BY <1>1, <2>8, <2>11, SignMove DEF SignSteps
  <2>13. MemosKept /\ StoreFrame
    BY <2>5, <2>12, Defaults DEF MemosKept, StoreFrame
  <2>14. IntentsKept
    BY <2>3, <2>7, Defaults DEF IntentsKept
  <2>15. \A x \in Bodies : intent'[x] = intent[x] \/ IntentOK(intent'[x])
    <3>1. staged => IntentOK(intent'[b])
      BY <2>7 DEF IntentOK
    <3> QED
      BY <2>7, <3>1, Defaults
  <2>16. InflightKept /\ OwnersStay
    BY <2>5, <2>8, Defaults DEF InflightKept, OwnersStay
  <2>17. RulersStay
    BY <2>3, <2>7, <2>8, Defaults DEF RulersStay
  <2>18. RulingsKept
    BY <1>1, <2>2, <2>7, <2>8 DEF RulingsKept, SignSteps
  <2>19. CountablesKept
    BY <1>1, <2>3, <2>5, <2>7, Defaults DEF CountablesKept
  <2>20. HoldersKept
    <3>1. staged => \E x \in forwarded' : BodyOf(x) = b
      BY <2>1, <2>2
    <3> QED
      BY <2>7, <3>1, Defaults DEF HoldersKept, Forwarded
  <2>21. StepFrame
    BY <2>9, <2>11, <2>12, <2>13, <2>14, <2>15, <2>16, <2>17, <2>18, <2>19, <2>20
    DEF StepFrame
  <2>22. ArmNeedsQuorum'
    BY <2>1, <2>11, QuorumStays
  <2> QED
    BY <2>10, <2>21, <2>22, StoreStep
<1> QED
  BY <1>2, <1>3

\* What /sign leaves a handler with: nothing, or a lookup on the receipt path.
LEMMA ReturnedFacts ==
    ASSUME NEW h, h.copy \in Copies, h.from \in Peers \cup {Coord}
    PROVE  /\ Returned(h) \in Handler
           /\ ~ Returned(h).owns /\ ~ Returned(h).rules
           /\ h.from \in Peers => /\ Returned(h).pc = "lookup"
                                  /\ Returned(h).copy = h.copy
                                  /\ Returned(h).from = h.from
           /\ h.from \notin Peers => Returned(h) = Idle
<1>1. /\ Idle \in Handler /\ ~ Idle.owns /\ ~ Idle.rules
  BY Defaults
<1> QED
  BY <1>1 DEF Returned, Handler

\* retire_carrier
LEMMA WithoutFacts ==
    ASSUME NEW m \in [Nonces -> MemoType], NEW b
    PROVE  /\ WithoutCarrier(m, b) \in [Nonces -> MemoType]
           /\ \A n \in Nonces :
                 IF m[n].kind = "derived" /\ BodyOf(m[n].copy) = b
                 THEN WithoutCarrier(m, b)[n] = NoMemo
                 ELSE WithoutCarrier(m, b)[n] = m[n]
BY Defaults DEF WithoutCarrier

LEMMA EndingStep ==
    ASSUME CarrierIInv, NEW t \in Threads, Ending(t)
    PROVE  CarrierIInv'
<1> USE DEF CarrierIInv, StoreInv, ArmInv, ClaimInv
<1> DEFINE b == BodyOf(th[t].copy)
           n == NonceOfCopy(th[t].copy)
           ends == th[t].rules /\ intent[b].present
           retires == ends /\ RulingRetires(intent[b])
           released == ReleasedMemos(t)
<1>1. /\ th[t].pc = "ending" /\ th' = [th EXCEPT ![t] = Returned(th[t])]
      /\ UNCHANGED <<mono, logVars, armed, locked, forwarded, relay>>
      /\ IF retires THEN /\ intent' = [intent EXCEPT ![b] = NoIntent]
                         /\ memo' = WithoutCarrier(released, b)
         ELSE /\ intent' = IF ends THEN [intent EXCEPT ![b].ruling = FALSE] ELSE intent
              /\ memo' = released
  BY DEF Ending
<1>2. /\ HandlerOK(t) /\ th[t].copy \in Copies /\ b \in Bodies /\ n \in Nonces
      /\ th[t].from \in Peers \cup {Coord}
      /\ th \in [Threads -> Handler] /\ memo \in [Nonces -> MemoType]
      /\ intent \in [Bodies -> IntentType]
  BY <1>1, Constants, TypeOf DEF HandlersInv, HandlerOK, Handler
<1>3. /\ released \in [Nonces -> MemoType]
      /\ \A m \in Nonces \ {n} : released[m] = memo[m]
      /\ \/ released[n] = memo[n] /\ ~ (th[t].owns /\ OwnClaim(t))
         \/ released[n] = NoMemo /\ th[t].owns /\ OwnClaim(t)
  BY <1>2, Defaults DEF ReleasedMemos
<1> HIDE DEF released
<1>4. /\ memo' \in [Nonces -> MemoType]
      /\ \A m \in Nonces :
            \/ memo'[m] = memo[m]
            \/ /\ memo'[m] = NoMemo /\ m = n /\ th[t].owns /\ OwnClaim(t)
            \/ /\ memo'[m] = NoMemo /\ retires
               /\ memo[m].kind = "derived" /\ BodyOf(memo[m].copy) = b
      /\ th[t].owns /\ OwnClaim(t) => memo'[n] = NoMemo
  <2>1. CASE retires
    BY <1>1, <1>2, <1>3, <2>1, WithoutFacts, Defaults
  <2>2. CASE ~ retires
    BY <1>1, <1>2, <1>3, <2>2
  <2> QED
    BY <2>1, <2>2
<1>5. OwnClaim(t) => memo[n].kind = "inflight" /\ memo[n].copy = th[t].copy
  BY DEF OwnClaim
<1>6. /\ intent' \in [Bodies -> IntentType]
      /\ \A x \in Bodies \ {b} : intent'[x] = intent[x]
      /\ retires => intent'[b] = NoIntent
      /\ ~ ends => intent'[b] = intent[b]
      /\ ends /\ ~ retires =>
            /\ intent'[b].present = intent[b].present /\ intent'[b].ready = intent[b].ready
            /\ intent'[b].holders = intent[b].holders /\ ~ intent'[b].ruling
            /\ intent'[b].deadline = intent[b].deadline
  <2>1. CASE retires
    BY <1>1, <1>2, <2>1, Defaults
  <2>2. CASE ends /\ ~ retires
    BY <1>1, <1>2, <2>2 DEF IntentType
  <2>3. CASE ~ ends
    BY <1>1, <1>2, <2>3
  <2> QED
    BY <2>1, <2>2, <2>3
<1>7. ends /\ ~ retires => intent[b].ready
  BY DEF RulingRetires
<1>8. IntentOK(intent[b])
  BY <1>2 DEF IntentsInv
<1>9. th[t].rules => ~ intent'[b].ruling
  <2>1. ~ intent[b].present => ~ intent[b].ruling
    BY <1>8, Defaults DEF IntentOK
  <2> QED
    BY <1>6, <2>1, Defaults
<1>10. /\ th' \in [Threads -> Handler]
       /\ \A u \in Threads \ {t} : th'[u] = th[u]
       /\ th'[t].pc \in {"idle", "lookup"} /\ ~ th'[t].owns /\ ~ th'[t].rules
       /\ th'[t].pc = "lookup" => /\ th'[t].copy = th[t].copy
                                  /\ th'[t].from = th[t].from /\ th[t].from \in Peers
  BY <1>1, <1>2, ReturnedFacts, Defaults
<1> HIDE DEF retires, ends
<1>11. /\ Remembers /\ StayOver /\ mono' \in Nat /\ mono' >= mono /\ LogTypes'
  BY <1>1, LogKept
<1>12. TypeOK'
  BY <1>1, <1>4, <1>6, <1>10, <1>11, TypeOf, TypeNext
<1>13. Grows
  BY <1>1 DEF Grows
<1>14. /\ HandlersKept
       /\ \A u \in Threads : th'[u].pc \in SeenSteps \/ th[u].pc = "kdf" => th'[u] = th[u]
       /\ \A u \in Threads : th'[u].pc = "windowA" => th[u].pc = "windowA"
  BY <1>1, <1>10 DEF HandlersKept, SignSteps, SeenSteps
<1>15. \A u \in Threads : th'[u] = th[u] \/ HandlerOK(u)'
  <2>1. HandlerOK(t)'
    BY <1>1, <1>2, <1>10 DEF HandlerOK, SignSteps, SeenSteps
  <2> QED
    BY <1>10, <2>1
<1>16. MemosKept /\ StoreFrame
  BY <1>4, <1>14, Defaults DEF MemosKept, StoreFrame
<1>17. IntentsKept
  BY <1>6, <1>7, Defaults DEF IntentsKept
<1>18. \A x \in Bodies : intent'[x] = intent[x] \/ IntentOK(intent'[x])
  <2>1. ends /\ ~ retires => IntentOK(intent'[b])
    BY <1>6, <1>7, <1>8 DEF IntentOK, ends
  <2> QED
    BY <1>6, <2>1, Defaults
<1>19. InflightKept
  BY <1>1, <1>4, <1>5, <1>10 DEF InflightKept, SignSteps
<1>20. OwnersStay
  BY <1>2, <1>4, <1>10, Defaults DEF OwnersStay
<1>21. RulersStay
  BY <1>6, <1>9, <1>10, Defaults DEF RulersStay
<1>22. RulingsKept
  BY <1>1, <1>2, <1>6, <1>10 DEF RulingsKept, SignSteps
<1>23. CountablesKept
  BY <1>1, <1>2, <1>4, <1>5, <1>6, <1>7, Defaults DEF CountablesKept
<1>24. HoldersKept
  BY <1>6, <1>7, Defaults DEF HoldersKept
<1>25. StepFrame
  BY <1>11, <1>13, <1>14, <1>15, <1>16, <1>17, <1>18, <1>19, <1>20, <1>21, <1>22, <1>23,
     <1>24 DEF StepFrame
<1>26. ArmNeedsQuorum'
  BY <1>1, <1>13, QuorumStays
<1> QED
  BY <1>12, <1>25, <1>26, StoreStep

-----------------------------------------------------------------------------
(* The receipt path.                                                         *)

\* A delivery is noted.
LEMMA RelayFacts ==
    ASSUME TypeOK, NEW p \in Peers, NEW c \in Copies,
           NEW a \in {"delivered", "answered", "skipped"},
           relay' = [relay EXCEPT ![p][c] = a]
    PROVE  /\ relay' \in [Peers -> [Copies -> Answers]] /\ relay'[p][c] = a
           /\ \A q \in Peers, x \in Copies : ~ (q = p /\ x = c) => relay'[q][x] = relay[q][x]
           /\ \A q \in Peers, x \in Copies : relay[q][x] # "none" => relay'[q][x] # "none"
<1>1. relay \in [Peers -> [Copies -> Answers]]
  BY TypeOf
<1> QED
  BY <1>1 DEF Answers

\* A handler of the receipt path ends, other than in its derivation.
LEMMA DoneStep ==
    ASSUME CarrierIInv, NEW t \in Threads, th[t].pc \notin SignSteps \cup {"kdf"},
           th' = [th EXCEPT ![t] = Idle], Grows,
           relay' \in [Peers -> [Copies -> Answers]],
           UNCHANGED <<mono, logVars, memo, intent, armed, locked, forwarded>>
    PROVE  CarrierIInv'
<1> USE DEF CarrierIInv, StoreInv, ArmInv, ClaimInv
<1>1. /\ HandlerOK(t) /\ ~ th[t].owns /\ ~ th[t].rules /\ th \in [Threads -> Handler]
  BY TypeOf DEF HandlersInv, HandlerOK, SignSteps
<1>2. /\ th' \in [Threads -> Handler] /\ th'[t] = Idle
      /\ \A u \in Threads \ {t} : th'[u] = th[u]
  BY <1>1, Defaults
<1>3. /\ Remembers /\ StayOver /\ mono' \in Nat /\ mono' >= mono /\ LogTypes'
  BY LogKept
<1>4. TypeOK'
  BY <1>2, <1>3, TypeOf, TypeNext
<1>5. /\ HandlersKept
      /\ \A u \in Threads : th'[u].pc \in SeenSteps \/ th[u].pc = "kdf" => th'[u] = th[u]
      /\ \A u \in Threads : th'[u].pc = "windowA" => th[u].pc = "windowA"
      /\ \A u \in Threads : th'[u] = th[u] \/ HandlerOK(u)'
  <2>1. HandlerOK(t)'
    BY <1>2, Defaults DEF HandlerOK, SignSteps, SeenSteps
  <2> QED
    BY <1>2, <2>1, Defaults DEF HandlersKept, SignSteps, SeenSteps
<1>6. MemosKept /\ IntentsKept /\ StoreFrame /\ InflightKept /\ CountablesKept /\ HoldersKept
  BY <1>5 DEF MemosKept, IntentsKept, StoreFrame, InflightKept, CountablesKept, HoldersKept
<1>7. OwnersStay /\ RulersStay
  BY <1>1, <1>2 DEF OwnersStay, RulersStay
<1>8. RulingsKept
  BY <1>2, Defaults DEF RulingsKept
<1>9. StepFrame
  BY <1>3, <1>5, <1>6, <1>7, <1>8 DEF StepFrame
<1>10. ArmNeedsQuorum'
  BY QuorumStays
<1> QED
  BY <1>4, <1>9, <1>10, StoreStep

\* A handler of the receipt path answers: for good, or so that the sender retries.
LEMMA AnswerStep ==
    ASSUME CarrierIInv, NEW t \in Threads, th[t].pc \notin SignSteps \cup {"idle", "kdf"},
           Answer(t) \/ Finish(t, "skipped") \/ Retry(t),
           UNCHANGED <<mono, logVars, memo, intent, armed, locked, forwarded>>
    PROVE  CarrierIInv'
<1>1. TypeOK /\ th[t].from \in Peers /\ th[t].copy \in Copies
  BY DEF CarrierIInv, ArmInv, HandlersInv, HandlerOK
<1>2. th' = [th EXCEPT ![t] = Idle]
  BY DEF Answer, Finish, Retry
<1>3. relay' \in [Peers -> [Copies -> Answers]] /\ Grows
  <2>1. CASE Retry(t)
    BY <1>1, <2>1, TypeOf DEF Retry, Grows
  <2>2. CASE Answer(t)
    BY <1>1, <2>2, RelayFacts DEF Answer, Finish, Grows
  <2>3. CASE Finish(t, "skipped")
    BY <1>1, <2>3, RelayFacts DEF Finish, Grows
  <2> QED
    BY <2>1, <2>2, <2>3
<1> QED
  BY <1>2, <1>3, DoneStep

LEMMA ConfirmStep ==
    ASSUME CarrierIInv, NEW t \in Threads, Confirm(t)
    PROVE  CarrierIInv'
<1> USE DEF CarrierIInv, StoreInv, ArmInv, ClaimInv
<1> DEFINE p == th[t].from
           c == th[t].copy
           b == BodyOf(th[t].seen)
           i == intent[b]
           holders == i.holders \cup {p}
           counts == i.ready /\ p \notin i.holders /\ i.deadline > mono
           quorum == Quorum(holders)
<1>1. /\ th[t].pc = "confirm" /\ UNCHANGED <<mono, logVars, locked, forwarded>>
      /\ \/ (Answer(t) \/ Retry(t)) /\ UNCHANGED storeVars
         \/ /\ counts /\ Answer(t)
            /\ intent' = [intent EXCEPT ![b] =
                            IF quorum THEN NoIntent
                            ELSE [i EXCEPT !.holders = holders]]
            /\ memo' = IF quorum THEN WithoutCarrier(memo, b) ELSE memo
            /\ armed' = (armed \/ (quorum /\ b \in DuressBodies))
  BY DEF Confirm
<1>2. CASE (Answer(t) \/ Retry(t)) /\ UNCHANGED storeVars
  BY <1>1, <1>2, AnswerStep DEF storeVars, SignSteps
<1>3. CASE /\ counts /\ Answer(t)
           /\ intent' = [intent EXCEPT ![b] =
                           IF quorum THEN NoIntent
                           ELSE [i EXCEPT !.holders = holders]]
           /\ memo' = IF quorum THEN WithoutCarrier(memo, b) ELSE memo
           /\ armed' = (armed \/ (quorum /\ b \in DuressBodies))
  <2>1. /\ p \in Peers /\ c \in Copies /\ b \in Bodies /\ BodyOf(c) = b
        /\ ~ th[t].owns /\ ~ th[t].rules
        /\ th \in [Threads -> Handler] /\ memo \in [Nonces -> MemoType]
        /\ intent \in [Bodies -> IntentType]
    BY <1>1, Constants, TypeOf DEF HandlersInv, HandlerOK, SignSteps, SeenSteps
  <2>2. IntentOK(i) /\ i \in IntentType
    BY <2>1 DEF IntentsInv
  <2>3. i.present /\ i.ready /\ Self \in i.holders
    BY <1>3, <2>2, Defaults DEF IntentOK
  <2>4. [i EXCEPT !.holders = holders] \in IntentType
    BY <2>1, <2>2 DEF IntentType
  <2>5. /\ intent' \in [Bodies -> IntentType]
        /\ \A x \in Bodies \ {b} : intent'[x] = intent[x]
        /\ quorum => intent'[b] = NoIntent
        /\ ~ quorum => /\ intent'[b].present /\ intent'[b].ready
                       /\ intent'[b].holders = holders
                       /\ intent'[b].ruling = i.ruling
                       /\ intent'[b].deadline = i.deadline
    <3>1. CASE quorum
      BY <1>3, <2>1, <3>1, Defaults
    <3>2. CASE ~ quorum
      <4>1. intent' = [intent EXCEPT ![b] = [i EXCEPT !.holders = holders]]
        BY <1>3, <3>2
      <4>2. intent'[b] = [i EXCEPT !.holders = holders]
        BY <2>1, <4>1
      <4>3. /\ intent' \in [Bodies -> IntentType]
            /\ \A x \in Bodies \ {b} : intent'[x] = intent[x]
        BY <2>1, <2>4, <4>1
      <4> QED
        BY <2>2, <2>3, <3>2, <4>2, <4>3 DEF IntentType
    <3> QED
      BY <3>1, <3>2
  <2>6. /\ memo' \in [Nonces -> MemoType]
        /\ \A m \in Nonces :
              \/ memo'[m] = memo[m]
              \/ /\ memo'[m] = NoMemo /\ quorum
                 /\ memo[m].kind = "derived" /\ BodyOf(memo[m].copy) = b
    BY <1>3, <2>1, WithoutFacts
  <2>7. /\ relay' \in [Peers -> [Copies -> Answers]] /\ relay'[p][c] = "answered"
        /\ Grows
    BY <1>1, <1>3, <2>1, RelayFacts DEF Answer, Finish, Grows
  <2>8. /\ th' \in [Threads -> Handler] /\ th'[t] = Idle
        /\ \A u \in Threads \ {t} : th'[u] = th[u]
    BY <1>3, <2>1, Defaults DEF Answer, Finish
  <2>9. /\ Remembers /\ StayOver /\ mono' \in Nat /\ mono' >= mono /\ LogTypes'
    BY <1>1, LogKept
  <2>10. TypeOK'
    BY <1>1, <1>3, <2>5, <2>6, <2>7, <2>8, <2>9, TypeOf, TypeNext
  <2>11. /\ HandlersKept
         /\ \A u \in Threads : th'[u].pc \in SeenSteps \/ th[u].pc = "kdf" => th'[u] = th[u]
         /\ \A u \in Threads : th'[u].pc = "windowA" => th[u].pc = "windowA"
         /\ \A u \in Threads : th'[u] = th[u] \/ HandlerOK(u)'
    <3>1. HandlerOK(t)'
      BY <2>8, Defaults DEF HandlerOK, SignSteps, SeenSteps
    <3> QED
      BY <1>1, <2>8, <3>1, Defaults DEF HandlersKept, SignSteps, SeenSteps
  <2>12. MemosKept /\ StoreFrame
    BY <2>6, <2>11, Defaults DEF MemosKept, StoreFrame
  <2>13. IntentsKept
    BY <2>3, <2>5, Defaults DEF IntentsKept
  <2>14. \A x \in Bodies : intent'[x] = intent[x] \/ IntentOK(intent'[x])
    <3>1. ~ quorum => IntentOK(intent'[b])
      BY <2>3, <2>5 DEF IntentOK
    <3> QED
      BY <2>5, <3>1, Defaults
  <2>15. InflightKept /\ OwnersStay
    BY <2>1, <2>6, <2>8, Defaults DEF InflightKept, OwnersStay
  <2>16. RulersStay
    BY <2>1, <2>5, <2>8, Defaults DEF RulersStay
  <2>17. RulingsKept
    BY <2>3, <2>5, <2>8, Defaults DEF RulingsKept
  <2>18. CountablesKept
    <3>1. \A x \in Bodies : intent'[x].present =>
             intent[x].present /\ intent'[x].deadline = intent[x].deadline
      BY <2>3, <2>5, Defaults
    <3>2. ASSUME NEW m \in Nonces, memo[m].kind = "derived",
                 intent'[BodyOf(memo[m].copy)].present
          PROVE  memo'[m] = memo[m]
      BY <2>5, <2>6, <3>2, Defaults
    <3> QED
      BY <3>1, <3>2 DEF CountablesKept
  <2>19. HoldersKept
    <3>1. \E x \in Copies : BodyOf(x) = b /\ relay'[p][x] # "none"
      BY <2>1, <2>7
    <3>2. ASSUME NEW y \in Bodies, NEW x \in intent'[y].holders
          PROVE  \/ x \in intent[y].holders
                 \/ x = Self /\ Forwarded(y)'
                 \/ x \in Deliverers(y)'
      BY <2>1, <2>5, <3>1, Defaults DEF Deliverers
    <3> QED
      BY <3>2 DEF HoldersKept
  <2>20. StepFrame
    BY <2>7, <2>9, <2>11, <2>12, <2>13, <2>14, <2>15, <2>16, <2>17, <2>18, <2>19
    DEF StepFrame
  <2>21. ArmNeedsQuorum'
    <3>1. CASE ~ (quorum /\ b \in DuressBodies)
      <4>1. armed' = armed
        BY <1>3, <3>1, TypeOf
      <4> QED
        BY <4>1, <2>7, QuorumStays
    <3>2. ASSUME quorum, NEW y \in DuressBodies, y = b
          PROVE  ArmNeedsQuorum'
      <4>1. i.holders \ {Self} \subseteq Deliverers(y) /\ Forwarded(y)
        BY <2>1, <2>3, <3>2 DEF HoldersAreReal
      <4>2. p \in Deliverers(y)' /\ Deliverers(y) \subseteq Deliverers(y)' /\ Forwarded(y)'
        BY <1>1, <2>1, <2>7, <3>2, <4>1 DEF Deliverers, Forwarded, Grows
      <4>3. holders \subseteq Deliverers(y)' \cup {Self}
        BY <4>1, <4>2
      <4>4. Deliverers(y)' \subseteq Peers /\ IsFiniteSet(Peers) /\ Self \notin Peers
        BY CarrierAssumption DEF Deliverers
      <4>5. IsFiniteSet(Deliverers(y)')
        BY <4>4, FS_Subset
      <4>6. /\ IsFiniteSet(Deliverers(y)' \cup {Self})
            /\ Cardinality(Deliverers(y)' \cup {Self}) = Cardinality(Deliverers(y)') + 1
        BY <4>4, <4>5, FS_AddElement
      <4>7. Cardinality(holders) <= Cardinality(Deliverers(y)' \cup {Self})
            /\ IsFiniteSet(holders)
        BY <4>3, <4>6, FS_Subset
      <4>8. Cardinality(holders) \in Nat /\ Cardinality(Deliverers(y)') \in Nat
        BY <4>5, <4>7, FS_CardinalityType
      <4>9. Cardinality(holders) >= Threshold
        BY <3>2 DEF Quorum
      <4> DEFINE x == Cardinality(holders)
                 z == Cardinality(Deliverers(y)')
      <4>10. x \in Nat /\ z \in Nat /\ x <= z + 1 /\ x >= Threshold
        BY <4>6, <4>7, <4>8, <4>9
      <4> HIDE DEF x, z
      <4>11. z + 1 >= Threshold
        BY <4>10, CarrierAssumption
      <4>12. Cardinality(Deliverers(y)') + 1 >= Threshold
        BY <4>11 DEF z
      <4> QED
        BY <4>2, <4>12 DEF ArmNeedsQuorum
    <3> QED
      BY <3>1, <3>2
  <2> QED
    BY <2>10, <2>20, <2>21, StoreStep
<1> QED
  BY <1>1, <1>2, <1>3

LEMMA TagFacts ==
    /\ \A c, d : Tag(c) = Tag(d) => c = d
    /\ \A c, d : Claim(c) # Tag(d) /\ Claim(c) # NoTag
    /\ \A c \in Copies : Tag(c) # NoTag
    /\ \A c : /\ Tag(c).copy = c /\ ~ Tag(c).claim /\ Claim(c).claim /\ Claim(c).copy = c
    /\ \A c \in Copies : Tag(c) \in Tags /\ Claim(c) \in Tags
<1>1. \A c : /\ Tag(c).copy = c /\ Tag(c).claim = FALSE
             /\ Claim(c).copy = c /\ Claim(c).claim = TRUE
  BY DEF Tag, Claim
<1>2. NoTag.copy = NoCopy /\ NoTag.claim = FALSE
  BY DEF NoTag
<1>3. \A c \in Copies : Tag(c) \in Tags /\ Claim(c) \in Tags
  BY DEF Tag, Claim, Tags
<1>4. \A c, d : Tag(c) = Tag(d) => c = d
  BY <1>1
<1>5. \A c, d : Claim(c) # Tag(d) /\ Claim(c) # NoTag
  BY <1>1, <1>2
<1>6. \A c \in Copies : Tag(c) # NoTag
  BY <1>1, <1>2, Constants
<1> QED
  BY <1>1, <1>3, <1>4, <1>5, <1>6

\* A tag is written.
LEMMA ResolveFacts ==
    ASSUME TypeOK, NEW n \in Nonces, NEW p \in Peers, NEW tag \in Tags,
           memo' = [memo EXCEPT ![n].resolved[p] = tag]
    PROVE  /\ memo' \in [Nonces -> MemoType]
           /\ \A m \in Nonces \ {n} : memo'[m] = memo[m]
           /\ memo'[n].kind = memo[n].kind /\ memo'[n].copy = memo[n].copy
           /\ memo'[n].deadline = memo[n].deadline
           /\ memo'[n].resolved[p] = tag
           /\ \A q \in Peers \ {p} : memo'[n].resolved[q] = memo[n].resolved[q]
<1>1. memo \in [Nonces -> MemoType] /\ memo[n] \in MemoType
  BY TypeOf
<1>2. memo' = [memo EXCEPT ![n] =
            [memo[n] EXCEPT !.resolved = [memo[n].resolved EXCEPT ![p] = tag]]]
  BY Zenon
<1>3. memo[n].resolved \in [Peers -> Tags]
  BY <1>1 DEF MemoType
<1>4. [memo[n].resolved EXCEPT ![p] = tag] \in [Peers -> Tags]
  BY <1>3
<1>5. [memo[n] EXCEPT !.resolved = [memo[n].resolved EXCEPT ![p] = tag]] \in MemoType
  BY <1>1, <1>4 DEF MemoType
<1>6. /\ memo' \in [Nonces -> MemoType]
      /\ memo'[n] = [memo[n] EXCEPT !.resolved = [memo[n].resolved EXCEPT ![p] = tag]]
      /\ \A m \in Nonces \ {n} : memo'[m] = memo[m]
  BY <1>1, <1>2, <1>5
<1>7. /\ memo'[n].kind = memo[n].kind /\ memo'[n].copy = memo[n].copy
      /\ memo'[n].deadline = memo[n].deadline
      /\ memo'[n].resolved = [memo[n].resolved EXCEPT ![p] = tag]
  BY <1>1, <1>6 DEF MemoType
<1> QED
  BY <1>3, <1>6, <1>7

\* A handler t of the receipt path moves, and writes tags at most.
ReceiptFrame(t) ==
    /\ UNCHANGED <<mono, logVars, intent, armed, locked, forwarded>> /\ Grows
    /\ th[t].pc \notin SignSteps /\ th'[t].pc \notin SignSteps /\ HandlerOK(t)'
    /\ \A u \in Threads \ {t} : th'[u] = th[u]
    /\ \A n \in Nonces : /\ memo'[n].kind = memo[n].kind /\ memo'[n].copy = memo[n].copy
                         /\ memo'[n].deadline = memo[n].deadline
                         /\ memo[n].kind = "inflight" => memo'[n] = memo[n]
    /\ th'[t].pc \in SeenSteps =>
          \/ /\ th[t].pc \in SeenSteps
             /\ th'[t].seen = th[t].seen /\ th'[t].seenDeadline = th[t].seenDeadline
          \/ \E n \in Nonces : /\ memo[n].kind = "derived"
                               /\ th'[t].seen = memo[n].copy
                               /\ th'[t].seenDeadline = memo[n].deadline

LEMMA ReceiptStep ==
    ASSUME CarrierIInv, TypeOK', NEW t \in Threads, ReceiptFrame(t),
           ConfirmedIsReady', SlotInv', TagsInv'
    PROVE  CarrierIInv'
<1> USE DEF CarrierIInv, StoreInv, ArmInv, ClaimInv
<1>1. /\ UNCHANGED <<mono, logVars, intent, armed, locked, forwarded>> /\ Grows
      /\ th[t].pc \notin SignSteps /\ th'[t].pc \notin SignSteps /\ HandlerOK(t)'
      /\ \A u \in Threads \ {t} : th'[u] = th[u]
  BY DEF ReceiptFrame
<1>2. ~ th[t].owns /\ ~ th[t].rules
  BY <1>1 DEF HandlersInv, HandlerOK, SignSteps
<1>3. /\ Remembers /\ StayOver /\ mono' \in Nat /\ mono' >= mono
  BY <1>1, LogKept
<1>4. HandlersKept
  BY <1>1 DEF HandlersKept, ReceiptFrame
<1>5. MemosKept
  BY DEF MemosKept, ReceiptFrame
<1>6. IntentsKept
  BY <1>1 DEF IntentsKept
<1>7. \A b \in Bodies : /\ intent'[b].deadline \in Time
                        /\ intent'[b].holders \subseteq Peers \cup {Self}
  BY DEF TypeOK
<1>8. OneAcceptance'
  BY <1>3, <1>4, <1>5, <1>6, <1>7, AcceptanceKept
<1>9. OneHandler'
  BY <1>4, OneHandlerKept
<1>10. HandlersInv'
  BY <1>1, HandlersStay
<1>11. MemosInv' /\ IntentsInv'
  BY <1>1 DEF MemosInv, IntentsInv, ReceiptFrame
<1>12. \A u \in Threads : th'[u].pc = "windowA" => th[u].pc = "windowA"
  BY <1>1 DEF SignSteps
<1>13. FreshInWindowA'
  <2>1. \A u \in Threads : th[u].pc = "windowA" => BodyOf(th[u].copy) \in Bodies
    BY Constants DEF HandlersInv, HandlerOK
  <2> QED
    BY <1>4, <1>5, <1>6, <1>12, <2>1, FreshKept
<1>14. RulingsKept
  BY <1>1 DEF RulingsKept, SignSteps
<1>15. RuledInWindowB'
  BY <1>4, <1>14, RuledKept
<1>16. CountableHasMemo'
  <2>1. CountablesKept
    BY <1>1 DEF CountablesKept, ReceiptFrame
  <2> QED
    BY <1>3, <2>1, CountableKept
<1>17. HoldersAreReal'
  <2>1. HoldersKept
    BY <1>1 DEF HoldersKept
  <2> QED
    BY <1>1, <1>7, <2>1, HoldersStayReal
<1>18. ClaimsHaveOwners'
  <2>1. OwnersStay
    BY <1>1, <1>2 DEF OwnersStay, ReceiptFrame
  <2>2. RulersStay
    BY <1>1, <1>2 DEF RulersStay
  <2> QED
    BY <2>1, <2>2, ClaimsKept
<1>19. OwnersKeepClaims'
  <2>1. InflightKept
    BY DEF InflightKept, ReceiptFrame
  <2> QED
    BY <1>3, <1>4, <1>12, <2>1, OwnersKept
<1>20. LiveIntentIsCurrent'
  BY <1>8, LiveIsCurrent, PTL
<1>21. ArmNeedsQuorum'
  BY <1>1, QuorumStays
<1> QED
  BY <1>8, <1>9, <1>10, <1>11, <1>13, <1>15, <1>16, <1>17, <1>18, <1>19, <1>20, <1>21

\* What an answer of carrier_memo_lookup tells of the memo and its intent.
LEMMA LookupFacts ==
    ASSUME NEW c, NEW p, NEW now, NEW m, m = memo[NonceOfCopy(c)],
           NEW i, i = intent[BodyOf(m.copy)]
    PROVE  /\ Lookup(c, p, now) = "Exact" =>
                 /\ m.kind # "none" /\ m.kind # "inflight"
                 /\ ExpiryOfCopy(m.copy) = ExpiryOfCopy(c)
                 /\ m.copy = c \/ m.resolved[p] = Tag(c)
                 /\ ~ (i.ruling /\ ~ i.ready)
           /\ Lookup(c, p, now) = "DeriveForConfirmation" =>
                 /\ m.kind # "none" /\ m.kind # "inflight"
                 /\ ExpiryOfCopy(m.copy) = ExpiryOfCopy(c)
                 /\ m.copy # c
<1>1. RawExpiredRetry(i, p) \in {"Vacant", "AwaitingPropagation", "ClockRefused"}
  BY DEF RawExpiredRetry
<1> QED
  BY <1>1 DEF Lookup

\* A handler follows the memo of its nonce.
LEMMA FollowFacts ==
    ASSUME TypeOK, NEW t \in Threads, NEW pc \in {"confirm", "claim"}, Follow(t, pc),
           NonceOfCopy(th[t].copy) \in Nonces
    PROVE  /\ th' \in [Threads -> Handler]
           /\ \A u \in Threads \ {t} : th'[u] = th[u]
           /\ th'[t].pc = pc /\ th'[t].copy = th[t].copy /\ th'[t].from = th[t].from
           /\ th'[t].owns = th[t].owns /\ th'[t].rules = th[t].rules
           /\ th'[t].seen = memo[NonceOfCopy(th[t].copy)].copy
           /\ th'[t].seenDeadline = memo[NonceOfCopy(th[t].copy)].deadline
           /\ relay' = relay
<1> DEFINE m == memo[NonceOfCopy(th[t].copy)]
           h == [th[t] EXCEPT !.pc = pc, !.seen = m.copy, !.seenDeadline = m.deadline]
<1>1. th \in [Threads -> Handler] /\ th[t] \in Handler
  BY TypeOf
<1>2. m.copy \in Copies \cup {NoCopy} /\ m.deadline \in Time
  BY TypeOf DEF MemoType
<1>3. th' = [th EXCEPT ![t] = h] /\ relay' = relay
  BY Zenon DEF Follow
<1>4. h \in Handler /\ h.pc = pc /\ h.copy = th[t].copy /\ h.from = th[t].from
      /\ h.owns = th[t].owns /\ h.rules = th[t].rules
      /\ h.seen = m.copy /\ h.seenDeadline = m.deadline
  <2> HIDE DEF m
  <2> QED
    BY <1>1, <1>2 DEF Handler
<1> HIDE DEF h
<1>5. th' \in [Threads -> Handler] /\ th'[t] = h
  BY <1>1, <1>3, <1>4
<1>6. \A u \in Threads \ {t} : th'[u] = th[u]
  BY <1>1, <1>3
<1> QED
  BY <1>3, <1>4, <1>5, <1>6

\* The slot and the tags of a step that writes no memo and neither starts nor ends a
\* derivation.
LEMMA TagsStay ==
    ASSUME SlotInv, TagsInv, Grows, memo' = memo, NEW t \in Threads,
           \A u \in Threads \ {t} : th'[u] = th[u],
           th[t].pc # "kdf", th'[t].pc \notin {"kdf", "staleKdf", "relookup"}
    PROVE  SlotInv' /\ TagsInv'
<1>1. SlotInv'
  <2>1. \A u \in Threads : th'[u].pc \in {"kdf", "staleKdf", "relookup"} => th'[u] = th[u]
    OBVIOUS
  <2>2. \A u, v \in Threads :
          th'[u].pc \in {"kdf", "staleKdf"} /\ th'[v].pc \in {"kdf", "staleKdf"} => u = v
    BY <2>1 DEF SlotInv
  <2>3. ASSUME NEW u \in Threads, th'[u].pc \in {"kdf", "relookup"}, Follows(u)'
        PROVE  memo'[NonceOfCopy(th'[u].copy)].resolved[th'[u].from] =
                  IF th'[u].pc = "kdf" THEN Tag(th'[u].seen) ELSE Tag(th'[u].copy)
    BY <2>1, <2>3 DEF SlotInv, Follows
  <2> QED
    BY <2>2, <2>3 DEF SlotInv
<1>2. TagsInv'
  <2>1. ASSUME NEW u \in Threads, NEW p \in Peers, NEW c \in Copies, NEW n \in Nonces,
               Deriving(u, p, c, memo[n])
        PROVE  Deriving(u, p, c, memo[n])'
    <3>1. th'[u] = th[u]
      BY <2>1 DEF Deriving
    <3> QED
      BY <2>1, <3>1 DEF Deriving
  <2>2. \A p \in Peers, c \in Copies : relay[p][c] # "none" => relay'[p][c] # "none"
    BY DEF Grows
  <2> SUFFICES ASSUME NEW n \in Nonces, NEW p \in Peers, memo[n].kind = "derived",
                      memo[n].resolved[p] # NoTag
               PROVE  /\ ~ memo[n].resolved[p].claim =>
                            BodyOf(memo[n].resolved[p].copy) = BodyOf(memo[n].copy)
                      /\ \E c \in Copies :
                         /\ NonceOfCopy(c) = n /\ relay'[p][c] # "none"
                         /\ \/ memo[n].resolved[p] \in {Tag(c), Claim(c)}
                            \/ /\ memo[n].resolved[p] = Tag(memo[n].copy)
                               /\ \/ BodyOf(c) # BodyOf(memo[n].copy)
                                  \/ \E u \in Threads : Deriving(u, p, c, memo[n])'
    BY DEF TagsInv
  <2>3. PICK c \in Copies :
           /\ NonceOfCopy(c) = n /\ relay[p][c] # "none"
           /\ \/ memo[n].resolved[p] \in {Tag(c), Claim(c)}
              \/ /\ memo[n].resolved[p] = Tag(memo[n].copy)
                 /\ \/ BodyOf(c) # BodyOf(memo[n].copy)
                    \/ \E u \in Threads : Deriving(u, p, c, memo[n])
    BY DEF TagsInv
  <2>4. ~ memo[n].resolved[p].claim => BodyOf(memo[n].resolved[p].copy) = BodyOf(memo[n].copy)
    BY DEF TagsInv
  <2> QED
    BY <2>1, <2>2, <2>3, <2>4
<1> QED
  BY <1>1, <1>2

LEMMA FollowStep ==
    ASSUME CarrierIInv, NEW t \in Threads, th[t].pc \in {"lookup", "relookup"},
           NEW now, NEW pc \in {"confirm", "claim"}, Follow(t, pc),
           Lookup(th[t].copy, th[t].from, now) =
              IF pc = "confirm" THEN "Exact" ELSE "DeriveForConfirmation",
           UNCHANGED <<mono, logVars, memo, intent, armed, locked, forwarded>>
    PROVE  CarrierIInv'
<1> USE DEF CarrierIInv, StoreInv, ArmInv, ClaimInv
<1> DEFINE c == th[t].copy
           p == th[t].from
           n == NonceOfCopy(c)
           m == memo[n]
           i == intent[BodyOf(m.copy)]
<1>1. /\ HandlerOK(t) /\ c \in Copies /\ p \in Peers /\ n \in Nonces
      /\ ~ th[t].owns /\ ~ th[t].rules /\ relay[p][c] # "none"
  BY Constants DEF HandlersInv, HandlerOK, SignSteps
<1>2. /\ m.kind # "none" /\ m.kind # "inflight"
      /\ ExpiryOfCopy(m.copy) = ExpiryOfCopy(c)
      /\ pc = "confirm" => m.copy = c \/ m.resolved[p] = Tag(c)
      /\ pc = "confirm" => ~ (i.ruling /\ ~ i.ready)
      /\ pc = "claim" => m.copy # c
  BY LookupFacts
<1>3. m.kind = "derived"
  BY <1>1, <1>2, TypeOf DEF MemoType
<1>4. m.copy \in Copies /\ NonceOfCopy(m.copy) = n /\ BodyOf(m.copy) \in Bodies
  BY <1>1, <1>3, Constants DEF MemosInv
<1>5. SameGeneration(BodyOf(m.copy), BodyOf(c))
  BY <1>2, <1>4 DEF SameGeneration, NonceOfCopy, ExpiryOfCopy
<1>6. pc = "confirm" => BodyOf(c) = BodyOf(m.copy)
  <2>1. CASE m.resolved[p] = Tag(c)
    <3>1. m.resolved[p] # NoTag /\ ~ m.resolved[p].claim /\ m.resolved[p].copy = c
      BY <1>1, <2>1, TagFacts
    <3> QED
      BY <1>1, <1>3, <3>1 DEF TagsInv
  <2> QED
    BY <1>2, <2>1
<1>7. /\ th' \in [Threads -> Handler]
      /\ \A u \in Threads \ {t} : th'[u] = th[u]
      /\ th'[t].pc = pc /\ th'[t].copy = c /\ th'[t].from = p
      /\ th'[t].owns = th[t].owns /\ th'[t].rules = th[t].rules
      /\ th'[t].seen = m.copy /\ th'[t].seenDeadline = m.deadline
      /\ relay' = relay
  BY <1>1, FollowFacts
<1> HIDE DEF m
<1>8. HandlerOK(t)'
  BY <1>1, <1>2, <1>4, <1>5, <1>6, <1>7 DEF HandlerOK, SignSteps, SeenSteps
<1>9. Grows
  BY <1>7 DEF Grows
<1>10. TypeOK'
  BY <1>7, LogKept, TypeOf, TypeNext
<1>11. ReceiptFrame(t)
  BY <1>1, <1>3, <1>7, <1>8, <1>9 DEF ReceiptFrame, SignSteps, m
<1>12. SlotInv' /\ TagsInv'
  BY <1>7, <1>9, TagsStay
<1>13. pc = "confirm" => (i.present => i.ready)
  BY <1>2, <1>4 DEF IntentsInv, IntentOK, m
<1>14. ConfirmedIsReady'
  <2> SUFFICES ASSUME NEW u \in Threads, th'[u].pc = "confirm"
               PROVE  intent[BodyOf(th'[u].seen)].present => intent[BodyOf(th'[u].seen)].ready
    BY DEF ConfirmedIsReady
  <2>1. CASE u = t
    BY <1>7, <1>13, <2>1
  <2>2. CASE u # t
    BY <1>7, <2>2 DEF ConfirmedIsReady
  <2> QED
    BY <2>1, <2>2
<1> QED
  BY <1>10, <1>11, <1>12, <1>14, ReceiptStep

LEMMA LookupStep ==
    ASSUME CarrierIInv, NEW t \in Threads, LookupMemo(t) \/ LookupAgain(t)
    PROVE  CarrierIInv'
<1>1. CASE LookupMemo(t)
  <2>1. /\ th[t].pc = "lookup"
        /\ UNCHANGED <<mono, logVars, memo, intent, armed, locked, forwarded>>
    BY <1>1 DEF LookupMemo, storeVars
  <2>2. PICK now \in Time :
           \/ Answer(t) \/ Finish(t, "skipped") \/ Retry(t)
           \/ Lookup(th[t].copy, th[t].from, now) = "Exact" /\ Follow(t, "confirm")
           \/ /\ Lookup(th[t].copy, th[t].from, now) = "DeriveForConfirmation"
              /\ Follow(t, "claim")
    BY <1>1 DEF LookupMemo
  <2> QED
    BY <2>1, <2>2, AnswerStep, FollowStep DEF SignSteps
<1>2. CASE LookupAgain(t)
  <2>1. /\ th[t].pc = "relookup"
        /\ UNCHANGED <<mono, logVars, memo, intent, armed, locked, forwarded>>
    BY <1>2 DEF LookupAgain, storeVars
  <2>2. PICK now \in Time :
           \/ Answer(t) \/ Retry(t)
           \/ Lookup(th[t].copy, th[t].from, now) = "Exact" /\ Follow(t, "confirm")
    BY <1>2 DEF LookupAgain
  <2> QED
    BY <2>1, <2>2, AnswerStep, FollowStep DEF SignSteps
<1> QED
  BY <1>1, <1>2

\* Handler t writes a tag of p in the memo of nonce n.
TagFrame(t, n, p, tag) ==
    /\ UNCHANGED <<mono, logVars, intent, armed, locked, forwarded>> /\ Grows
    /\ th[t].pc \notin SignSteps /\ th'[t].pc \notin SignSteps \cup {"confirm"}
    /\ HandlerOK(t)'
    /\ \A u \in Threads \ {t} : th'[u] = th[u]
    /\ th'[t].pc \in SeenSteps =>
          \/ /\ th[t].pc \in SeenSteps
             /\ th'[t].seen = th[t].seen /\ th'[t].seenDeadline = th[t].seenDeadline
          \/ th'[t].seen = memo[n].copy /\ th'[t].seenDeadline = memo[n].deadline
    /\ th[t].pc = "kdf" => th[t].from = p /\ NonceOfCopy(th[t].copy) = n
    /\ th'[t].pc \in {"kdf", "staleKdf"} =>
          \A u \in Threads \ {t} : th[u].pc \notin {"kdf", "staleKdf"}
    /\ \A u \in Threads \ {t} : th[u].pc \in {"kdf", "relookup"} /\ Follows(u) =>
          NonceOfCopy(th[u].copy) # n \/ th[u].from # p
    /\ th'[t].pc \in {"kdf", "relookup"} =>
          /\ NonceOfCopy(th'[t].copy) = n /\ th'[t].from = p
          /\ tag = IF th'[t].pc = "kdf" THEN Tag(memo[n].copy) ELSE Tag(th'[t].copy)
    /\ ~ tag.claim => BodyOf(tag.copy) = BodyOf(memo[n].copy)

\* What the tag says of a copy c that p delivered.
TagMeans(t, n, p, tag, c) ==
    \/ tag \in {Tag(c), Claim(c)}
    \/ /\ tag = Tag(memo[n].copy)
       /\ \/ BodyOf(c) # BodyOf(memo[n].copy)
          \/ /\ th'[t].pc = "kdf" /\ th'[t].from = p /\ th'[t].copy = c
             /\ th'[t].seen = memo[n].copy /\ th'[t].seenDeadline = memo[n].deadline

LEMMA TagStep ==
    ASSUME CarrierIInv, NEW t \in Threads, NEW n \in Nonces, NEW p \in Peers, NEW tag \in Tags,
           memo' = [memo EXCEPT ![n].resolved[p] = tag], memo[n].kind = "derived",
           th' \in [Threads -> Handler], relay' \in [Peers -> [Copies -> Answers]],
           TagFrame(t, n, p, tag),
           NEW c \in Copies, NonceOfCopy(c) = n, relay'[p][c] # "none",
           TagMeans(t, n, p, tag, c)
    PROVE  CarrierIInv'
<1>0. TypeOK
  BY DEF CarrierIInv, ArmInv
<1>1. /\ memo' \in [Nonces -> MemoType]
      /\ \A k \in Nonces \ {n} : memo'[k] = memo[k]
      /\ memo'[n].kind = memo[n].kind /\ memo'[n].copy = memo[n].copy
      /\ memo'[n].deadline = memo[n].deadline
      /\ memo'[n].resolved[p] = tag
      /\ \A q \in Peers \ {p} : memo'[n].resolved[q] = memo[n].resolved[q]
  BY ONLY <1>0, memo' = [memo EXCEPT ![n].resolved[p] = tag], ResolveFacts
<1> USE DEF CarrierIInv, StoreInv, ArmInv, ClaimInv
<1>2. /\ UNCHANGED <<mono, logVars, intent, armed, locked, forwarded>> /\ Grows
      /\ \A u \in Threads \ {t} : th'[u] = th[u]
  BY DEF TagFrame
<1>3. TypeOK'
  BY <1>1, <1>2, LogKept, TypeOf, TypeNext
<1>4. ReceiptFrame(t)
  BY <1>1 DEF ReceiptFrame, TagFrame
<1>5. ConfirmedIsReady'
  <2> SUFFICES ASSUME NEW u \in Threads, th'[u].pc = "confirm"
               PROVE  intent[BodyOf(th'[u].seen)].present => intent[BodyOf(th'[u].seen)].ready
    BY <1>2 DEF ConfirmedIsReady
  <2>1. u # t
    BY DEF TagFrame
  <2> QED
    BY <1>2, <2>1 DEF ConfirmedIsReady
<1>6. SlotInv'
  <2>1. \A u, v \in Threads :
          th'[u].pc \in {"kdf", "staleKdf"} /\ th'[v].pc \in {"kdf", "staleKdf"} => u = v
    BY <1>2 DEF SlotInv, TagFrame
  <2>2. ASSUME NEW u \in Threads, th'[u].pc \in {"kdf", "relookup"}, Follows(u)'
        PROVE  memo'[NonceOfCopy(th'[u].copy)].resolved[th'[u].from] =
                  IF th'[u].pc = "kdf" THEN Tag(th'[u].seen) ELSE Tag(th'[u].copy)
    <3>1. CASE u = t
      <4>1. /\ NonceOfCopy(th'[t].copy) = n /\ th'[t].from = p
            /\ tag = IF th'[t].pc = "kdf" THEN Tag(memo[n].copy) ELSE Tag(th'[t].copy)
        BY <2>2, <3>1 DEF TagFrame
      <4>2. memo'[n].copy = th'[t].seen
        BY <2>2, <3>1, <4>1 DEF Follows
      <4> QED
        BY <1>1, <3>1, <4>1, <4>2
    <3>2. CASE u # t
      <4>1. th'[u] = th[u]
        BY <1>2, <3>2
      <4>2. th[u].copy \in Copies /\ NonceOfCopy(th[u].copy) \in Nonces /\ th[u].from \in Peers
        BY <2>2, <4>1, Constants DEF HandlersInv, HandlerOK, SignSteps
      <4>3. Follows(u)
        BY <1>1, <2>2, <4>1, <4>2 DEF Follows
      <4>4. NonceOfCopy(th[u].copy) # n \/ th[u].from # p
        BY <2>2, <3>2, <4>1, <4>3 DEF TagFrame
      <4>5. memo'[NonceOfCopy(th[u].copy)].resolved[th[u].from]
               = memo[NonceOfCopy(th[u].copy)].resolved[th[u].from]
        BY <1>1, <4>2, <4>4
      <4> QED
        BY <2>2, <4>1, <4>3, <4>5 DEF SlotInv
    <3> QED
      BY <3>1, <3>2
  <2> QED
    BY <2>1, <2>2 DEF SlotInv
<1>7. TagsInv'
  <2> SUFFICES ASSUME NEW k \in Nonces, NEW q \in Peers, memo'[k].kind = "derived",
                      memo'[k].resolved[q] # NoTag
               PROVE  /\ ~ memo'[k].resolved[q].claim =>
                            BodyOf(memo'[k].resolved[q].copy) = BodyOf(memo'[k].copy)
                      /\ \E x \in Copies :
                         /\ NonceOfCopy(x) = k /\ relay'[q][x] # "none"
                         /\ \/ memo'[k].resolved[q] \in {Tag(x), Claim(x)}
                            \/ /\ memo'[k].resolved[q] = Tag(memo'[k].copy)
                               /\ \/ BodyOf(x) # BodyOf(memo'[k].copy)
                                  \/ \E u \in Threads : Deriving(u, q, x, memo[k])'
    BY DEF TagsInv
  <2>1. CASE k = n /\ q = p
    <3>1. ~ tag.claim => BodyOf(tag.copy) = BodyOf(memo[n].copy)
      BY DEF TagFrame
    <3>2. /\ th'[t].pc = "kdf" /\ th'[t].from = p /\ th'[t].copy = c
          /\ th'[t].seen = memo[n].copy /\ th'[t].seenDeadline = memo[n].deadline
          => Deriving(t, p, c, memo[n])'
      BY <1>1 DEF Deriving
    <3> QED
      BY <1>1, <2>1, <3>1, <3>2 DEF TagMeans
  <2>2. CASE ~ (k = n /\ q = p)
    <3>1. /\ memo'[k].kind = memo[k].kind /\ memo'[k].copy = memo[k].copy
          /\ memo'[k].deadline = memo[k].deadline
          /\ memo'[k].resolved[q] = memo[k].resolved[q]
      BY <1>1, <2>2
    <3>2. ASSUME NEW u \in Threads, NEW x \in Copies, NonceOfCopy(x) = k,
                 Deriving(u, q, x, memo[k])
          PROVE  Deriving(u, q, x, memo[k])'
      <4>1. u # t
        BY <2>2, <3>2 DEF Deriving, TagFrame
      <4> QED
        BY <1>2, <3>1, <3>2, <4>1 DEF Deriving
    <3>3. PICK x \in Copies :
             /\ NonceOfCopy(x) = k /\ relay[q][x] # "none"
             /\ \/ memo[k].resolved[q] \in {Tag(x), Claim(x)}
                \/ /\ memo[k].resolved[q] = Tag(memo[k].copy)
                   /\ \/ BodyOf(x) # BodyOf(memo[k].copy)
                      \/ \E u \in Threads : Deriving(u, q, x, memo[k])
      BY <3>1 DEF TagsInv
    <3>4. ~ memo[k].resolved[q].claim => BodyOf(memo[k].resolved[q].copy) = BodyOf(memo[k].copy)
      BY <3>1 DEF TagsInv
    <3>5. relay'[q][x] # "none"
      BY <1>2, <3>3 DEF Grows
    <3> QED
      BY <3>1, <3>2, <3>3, <3>4, <3>5
  <2> QED
    BY <2>1, <2>2
<1> QED
  BY <1>3, <1>4, <1>5, <1>6, <1>7, ReceiptStep

LEMMA ClaimDerivationStep ==
    ASSUME CarrierIInv, NEW t \in Threads, ClaimDerivation(t)
    PROVE  CarrierIInv'
<1> USE DEF CarrierIInv, StoreInv, ArmInv, ClaimInv
<1> DEFINE c == th[t].copy
           p == th[t].from
           n == NonceOfCopy(c)
<1>1. /\ th[t].pc = "claim"
      /\ UNCHANGED <<mono, logVars, intent, armed, locked, forwarded>>
  BY DEF ClaimDerivation
<1>2. CASE Retry(t) /\ UNCHANGED memo
  BY <1>1, <1>2, AnswerStep DEF SignSteps
<1>3. CASE /\ ~ SlotTaken /\ Claimable(c, p, BodyOf(th[t].seen))
           /\ memo' = [memo EXCEPT ![n].resolved[p] = Tag(memo[n].copy)]
           /\ th' = [th EXCEPT ![t].pc = "kdf"]
           /\ relay' = relay
  <2>1. /\ HandlerOK(t) /\ c \in Copies /\ p \in Peers /\ n \in Nonces
        /\ ~ th[t].owns /\ ~ th[t].rules /\ relay[p][c] # "none"
        /\ th[t].seen \in Copies
    BY <1>1, Constants DEF HandlersInv, HandlerOK, SignSteps, SeenSteps
  <2>2. /\ memo[n].kind = "derived" /\ BodyOf(memo[n].copy) = BodyOf(th[t].seen)
        /\ memo[n].resolved[p] = NoTag
    BY <1>3 DEF Claimable
  <2>3. memo[n].copy = th[t].seen /\ memo[n].deadline = th[t].seenDeadline
    <3>1. Mentioned(th[t].seen, th[t].seenDeadline)
      BY <1>1 DEF Mentioned, Seen, SeenSteps
    <3>2. Mentioned(memo[n].copy, memo[n].deadline)
      BY <2>1, <2>2 DEF Mentioned, Memoized
    <3>3. SameGeneration(BodyOf(th[t].seen), BodyOf(memo[n].copy))
      BY <2>2 DEF SameGeneration
    <3> QED
      BY <3>1, <3>2, <3>3, MentionFacts
  <2>4. /\ th' \in [Threads -> Handler]
        /\ \A u \in Threads \ {t} : th'[u] = th[u]
        /\ th'[t].pc = "kdf" /\ th'[t].copy = th[t].copy /\ th'[t].from = th[t].from
        /\ th'[t].deadline = th[t].deadline
        /\ th'[t].owns = th[t].owns /\ th'[t].rules = th[t].rules
        /\ th'[t].seen = th[t].seen /\ th'[t].seenDeadline = th[t].seenDeadline
    BY <1>3, Moves
  <2>5. Tag(th[t].seen) \in Tags /\ Tag(th[t].seen).copy = th[t].seen
    BY <2>1, TagFacts
  <2>6. Grows /\ HandlerOK(t)'
    BY <1>1, <1>3, <2>1, <2>4 DEF Grows, HandlerOK, SignSteps, SeenSteps
  <2>7. \A u \in Threads : th[u].pc \notin {"kdf", "staleKdf"}
    BY <1>3 DEF SlotTaken
  <2>8. ASSUME NEW u \in Threads \ {t}, th[u].pc = "relookup", Follows(u),
               NonceOfCopy(th[u].copy) = n, th[u].from = p
        PROVE  FALSE
    <3>1. memo[n].resolved[p] = Tag(th[u].copy) /\ th[u].copy \in Copies
      BY <2>8 DEF SlotInv, HandlersInv, HandlerOK
    <3> QED
      BY <2>2, <3>1, TagFacts
  <2>9. TagFrame(t, n, p, Tag(th[t].seen))
    BY <1>1, <1>3, <2>1, <2>3, <2>4, <2>5, <2>6, <2>7, <2>8
       DEF TagFrame, SignSteps, SeenSteps
  <2>10. relay' \in [Peers -> [Copies -> Answers]]
    BY <1>3, TypeOf
  <2>11. memo' = [memo EXCEPT ![n].resolved[p] = Tag(th[t].seen)]
    BY <1>3, <2>3
  <2>12. relay'[p][c] # "none" /\ TagMeans(t, n, p, Tag(th[t].seen), c)
    BY <1>3, <2>1, <2>3, <2>4 DEF TagMeans
  <2> HIDE DEF CarrierIInv, c, p
  <2> QED
    BY <2>1, <2>2, <2>4, <2>5, <2>9, <2>10, <2>11, <2>12, TagStep
<1> QED
  BY <1>2, <1>3 DEF ClaimDerivation

\* A derivation that found another carrier, or whose memo is gone, ends.
LEMMA DeriveAnswerStep ==
    ASSUME CarrierIInv, NEW t \in Threads, th[t].pc = "kdf", Answer(t), UNCHANGED memo,
           ~ (SameCarrier(th[t].copy, th[t].seen) /\ Follows(t)),
           UNCHANGED <<mono, logVars, intent, armed, locked, forwarded>>
    PROVE  CarrierIInv'
<1> USE DEF CarrierIInv, StoreInv, ArmInv, ClaimInv
<1>1. th[t].copy \in Copies /\ th[t].from \in Peers
  BY DEF HandlersInv, HandlerOK, SignSteps
<1>2. /\ th' = [th EXCEPT ![t] = Idle]
      /\ relay' = [relay EXCEPT ![th[t].from][th[t].copy] = "answered"]
  BY DEF Answer, Finish
<1>3. relay' \in [Peers -> [Copies -> Answers]] /\ Grows
  BY <1>1, <1>2, RelayFacts DEF Grows
<1>4. /\ th' \in [Threads -> Handler] /\ th'[t] = Idle
      /\ \A u \in Threads \ {t} : th'[u] = th[u]
  BY <1>2, TypeOf, Defaults
<1>5. TypeOK'
  BY <1>3, <1>4, LogKept, TypeOf, TypeNext
<1>6. HandlerOK(t)'
  BY <1>4, Defaults DEF HandlerOK, SignSteps, SeenSteps
<1>7. ReceiptFrame(t)
  BY <1>3, <1>4, <1>6, Defaults DEF ReceiptFrame, SignSteps, SeenSteps
<1>8. ConfirmedIsReady'
  BY <1>4, Defaults DEF ConfirmedIsReady
<1>9. SlotInv'
  <2>1. \A u \in Threads : th'[u].pc \in {"kdf", "staleKdf", "relookup"} => th'[u] = th[u]
    BY <1>4, Defaults
  <2>2. \A u, v \in Threads :
          th'[u].pc \in {"kdf", "staleKdf"} /\ th'[v].pc \in {"kdf", "staleKdf"} => u = v
    BY <2>1 DEF SlotInv
  <2>3. ASSUME NEW u \in Threads, th'[u].pc \in {"kdf", "relookup"}, Follows(u)'
        PROVE  memo'[NonceOfCopy(th'[u].copy)].resolved[th'[u].from] =
                  IF th'[u].pc = "kdf" THEN Tag(th'[u].seen) ELSE Tag(th'[u].copy)
    BY <2>1, <2>3 DEF SlotInv, Follows
  <2> QED
    BY <2>2, <2>3 DEF SlotInv
<1>10. TagsInv'
  <2> SUFFICES ASSUME NEW n \in Nonces, NEW p \in Peers, memo[n].kind = "derived",
                      memo[n].resolved[p] # NoTag
               PROVE  /\ ~ memo[n].resolved[p].claim =>
                            BodyOf(memo[n].resolved[p].copy) = BodyOf(memo[n].copy)
                      /\ \E c \in Copies :
                         /\ NonceOfCopy(c) = n /\ relay'[p][c] # "none"
                         /\ \/ memo[n].resolved[p] \in {Tag(c), Claim(c)}
                            \/ /\ memo[n].resolved[p] = Tag(memo[n].copy)
                               /\ \/ BodyOf(c) # BodyOf(memo[n].copy)
                                  \/ \E u \in Threads : Deriving(u, p, c, memo[n])'
    BY DEF TagsInv
  <2>1. PICK c \in Copies :
           /\ NonceOfCopy(c) = n /\ relay[p][c] # "none"
           /\ \/ memo[n].resolved[p] \in {Tag(c), Claim(c)}
              \/ /\ memo[n].resolved[p] = Tag(memo[n].copy)
                 /\ \/ BodyOf(c) # BodyOf(memo[n].copy)
                    \/ \E u \in Threads : Deriving(u, p, c, memo[n])
    BY DEF TagsInv
  <2>2. ~ memo[n].resolved[p].claim => BodyOf(memo[n].resolved[p].copy) = BodyOf(memo[n].copy)
    BY DEF TagsInv
  <2>3. relay'[p][c] # "none"
    BY <1>3, <2>1 DEF Grows
  <2>4. ASSUME NEW u \in Threads, Deriving(u, p, c, memo[n])
        PROVE  BodyOf(c) # BodyOf(memo[n].copy) \/ Deriving(u, p, c, memo[n])'
    <3>1. CASE u = t
      <4>1. Follows(t) /\ th[t].copy = c /\ th[t].seen = memo[n].copy
        BY <2>1, <2>4, <3>1 DEF Deriving, Follows
      <4> QED
        BY <4>1 DEF SameCarrier
    <3>2. CASE u # t
      BY <1>4, <2>4, <3>2 DEF Deriving
    <3> QED
      BY <3>1, <3>2
  <2> QED
    BY <2>1, <2>2, <2>3, <2>4
<1> QED
  BY <1>5, <1>7, <1>8, <1>9, <1>10, ReceiptStep

LEMMA DeriveStep ==
    ASSUME CarrierIInv, NEW t \in Threads, Derive(t)
    PROVE  CarrierIInv'
<1> USE DEF CarrierIInv, StoreInv, ArmInv, ClaimInv
<1> DEFINE c == th[t].copy
           p == th[t].from
           n == NonceOfCopy(c)
<1>1. /\ th[t].pc = "kdf"
      /\ UNCHANGED <<mono, logVars, intent, armed, locked, forwarded>>
  BY DEF Derive
<1>2. /\ HandlerOK(t) /\ c \in Copies /\ p \in Peers /\ n \in Nonces
      /\ ~ th[t].owns /\ ~ th[t].rules /\ relay[p][c] # "none"
      /\ th[t].seen \in Copies
  BY <1>1, Constants DEF HandlersInv, HandlerOK, SignSteps, SeenSteps
<1>3. CASE ~ (SameCarrier(c, th[t].seen) /\ Follows(t) /\ memo[n].resolved[p] = Tag(th[t].seen))
  <2>1. Answer(t) /\ UNCHANGED memo
    BY <1>3 DEF Derive, Follows
  <2>2. ~ (SameCarrier(c, th[t].seen) /\ Follows(t))
    BY <1>1, <1>3 DEF SlotInv
  <2> QED
    BY <1>1, <2>1, <2>2, DeriveAnswerStep
<1>4. CASE SameCarrier(c, th[t].seen) /\ Follows(t) /\ memo[n].resolved[p] = Tag(th[t].seen)
  <2>1. /\ memo' = [memo EXCEPT ![n].resolved[p] = Tag(c)]
        /\ th' = [th EXCEPT ![t].pc = "relookup"]
        /\ relay' = relay
    BY <1>4 DEF Derive, Follows
  <2>2. memo[n].kind = "derived" /\ memo[n].copy = th[t].seen
        /\ BodyOf(c) = BodyOf(memo[n].copy)
    BY <1>4 DEF Follows, SameCarrier
  <2>3. /\ th' \in [Threads -> Handler]
        /\ \A u \in Threads \ {t} : th'[u] = th[u]
        /\ th'[t].pc = "relookup" /\ th'[t].copy = th[t].copy /\ th'[t].from = th[t].from
        /\ th'[t].deadline = th[t].deadline
        /\ th'[t].owns = th[t].owns /\ th'[t].rules = th[t].rules
        /\ th'[t].seen = th[t].seen /\ th'[t].seenDeadline = th[t].seenDeadline
    BY <2>1, Moves
  <2>4. Tag(c) \in Tags /\ Tag(c).copy = c
    BY <1>2, TagFacts
  <2>5. Grows /\ HandlerOK(t)'
    BY <1>1, <1>2, <2>1, <2>2, <2>3 DEF Grows, HandlerOK, SignSteps, SeenSteps
  <2>6. \A u \in Threads \ {t} : th[u].pc \notin {"kdf", "staleKdf"}
    BY <1>1 DEF SlotInv
  <2>7. ASSUME NEW u \in Threads \ {t}, th[u].pc = "relookup", Follows(u),
               NonceOfCopy(th[u].copy) = n, th[u].from = p
        PROVE  FALSE
    <3>1. memo[n].resolved[p] = Tag(th[u].copy) /\ memo[n].copy = th[u].seen
      BY <2>7 DEF SlotInv, Follows
    <3>2. th[u].copy # th[u].seen
      BY <2>7 DEF HandlersInv, HandlerOK
    <3> QED
      BY <1>4, <2>2, <3>1, <3>2, TagFacts
  <2>8. TagFrame(t, n, p, Tag(c))
    BY <1>1, <1>2, <2>1, <2>2, <2>3, <2>4, <2>5, <2>6, <2>7
       DEF TagFrame, SignSteps, SeenSteps
  <2>9. relay' \in [Peers -> [Copies -> Answers]]
    BY <2>1, TypeOf
  <2>10. /\ c \in Copies /\ p \in Peers /\ n \in Nonces /\ NonceOfCopy(c) = n
         /\ relay'[p][c] # "none" /\ Tag(c) \in Tags
         /\ memo' = [memo EXCEPT ![n].resolved[p] = Tag(c)] /\ memo[n].kind = "derived"
         /\ th' \in [Threads -> Handler] /\ TagMeans(t, n, p, Tag(c), c)
    BY <1>2, <2>1, <2>2, <2>3, <2>4 DEF TagMeans
  <2> HIDE DEF CarrierIInv, c, p, n
  <2> QED
    BY <2>8, <2>9, <2>10, TagStep
<1> QED
  BY <1>3, <1>4

LEMMA StaleClaimStep ==
    ASSUME CarrierIInv, NEW t \in Threads, NEW c \in Copies, NEW p \in Peers,
           StaleClaim(t, c, p)
    PROVE  CarrierIInv'
<1> USE DEF CarrierIInv, StoreInv, ArmInv, ClaimInv
<1> DEFINE n == NonceOfCopy(c)
           h == [Idle EXCEPT !.pc = "staleKdf", !.copy = c, !.from = p,
                             !.seen = memo[n].copy, !.seenDeadline = memo[n].deadline]
<1>1. /\ th[t].pc = "idle" /\ ~ SlotTaken
      /\ memo' = [memo EXCEPT ![n].resolved[p] = Claim(c)]
      /\ th' = [th EXCEPT ![t] = h]
      /\ relay' = [relay EXCEPT ![p][c] = "delivered"]
      /\ UNCHANGED <<mono, logVars, intent, armed, locked, forwarded>>
  BY DEF StaleClaim, Delivered
<1>2. /\ memo[n].kind = "derived" /\ memo[n].copy # c /\ memo[n].resolved[p] = NoTag
      /\ ExpiryOfCopy(memo[n].copy) = ExpiryOfCopy(c)
  BY DEF StaleClaim, StaleDerives, StaleMatches
<1>3. n \in Nonces /\ memo[n].copy \in Copies /\ NonceOfCopy(memo[n].copy) = n
  BY <1>2, Constants DEF MemosInv
<1>4. memo[n].deadline \in Time
  BY <1>3, TypeOf DEF MemoType
<1>5. SameGeneration(BodyOf(memo[n].copy), BodyOf(c))
  BY <1>2, <1>3 DEF SameGeneration, NonceOfCopy, ExpiryOfCopy
<1>6. /\ h \in Handler /\ h.pc = "staleKdf" /\ h.copy = c /\ h.from = p
      /\ ~ h.owns /\ ~ h.rules /\ h.seen = memo[n].copy /\ h.seenDeadline = memo[n].deadline
  BY <1>3, <1>4, Constants DEF Idle, Handler
<1> HIDE DEF h
<1>7. /\ th' \in [Threads -> Handler] /\ th'[t] = h
      /\ \A u \in Threads \ {t} : th'[u] = th[u]
  BY <1>1, <1>6, TypeOf
<1>8. /\ relay' \in [Peers -> [Copies -> Answers]] /\ relay'[p][c] = "delivered"
      /\ \A q \in Peers, x \in Copies : relay[q][x] # "none" => relay'[q][x] # "none"
  BY <1>1, RelayFacts
<1>9. Grows
  BY <1>1, <1>8 DEF Grows
<1>10. HandlerOK(t)'
  BY <1>2, <1>3, <1>5, <1>6, <1>7, <1>8 DEF HandlerOK, SignSteps, SeenSteps
<1>11. Claim(c) \in Tags /\ Claim(c).claim
  BY TagFacts
<1>12. \A u \in Threads : th[u].pc \notin {"kdf", "staleKdf"}
  BY <1>1 DEF SlotTaken
<1>13. ASSUME NEW u \in Threads \ {t}, th[u].pc = "relookup", Follows(u),
              NonceOfCopy(th[u].copy) = n, th[u].from = p
       PROVE  FALSE
  <2>1. memo[n].resolved[p] = Tag(th[u].copy) /\ th[u].copy \in Copies
    BY <1>13 DEF SlotInv, HandlersInv, HandlerOK
  <2> QED
    BY <1>2, <2>1, TagFacts
<1>14. TagFrame(t, n, p, Claim(c))
  BY <1>1, <1>6, <1>7, <1>9, <1>10, <1>11, <1>12, <1>13 DEF TagFrame, SignSteps, SeenSteps
<1>15. /\ n \in Nonces /\ NonceOfCopy(c) = n /\ relay'[p][c] # "none"
       /\ memo' = [memo EXCEPT ![n].resolved[p] = Claim(c)] /\ memo[n].kind = "derived"
       /\ th' \in [Threads -> Handler] /\ relay' \in [Peers -> [Copies -> Answers]]
       /\ Claim(c) \in Tags
  BY <1>1, <1>2, <1>3, <1>7, <1>8, <1>11
<1>16. TagMeans(t, n, p, Claim(c), c)
  BY DEF TagMeans
<1> HIDE DEF CarrierIInv, n
<1> QED
  BY ONLY CarrierIInv, t \in Threads, c \in Copies, p \in Peers, <1>14, <1>15, <1>16, TagStep

LEMMA StaleFinishStep ==
    ASSUME CarrierIInv, NEW t \in Threads, StaleFinish(t)
    PROVE  CarrierIInv'
<1> USE DEF CarrierIInv, StoreInv, ArmInv, ClaimInv
<1> DEFINE c == th[t].copy
           p == th[t].from
           n == NonceOfCopy(c)
           settled == IF SameCarrier(c, th[t].seen) THEN c ELSE memo[n].copy
<1>1. /\ th[t].pc = "staleKdf" /\ th' = [th EXCEPT ![t] = Idle]
      /\ UNCHANGED <<mono, logVars, intent, armed, locked, forwarded, relay>>
  BY DEF StaleFinish
<1>2. /\ c \in Copies /\ p \in Peers /\ n \in Nonces /\ relay[p][c] # "none"
      /\ ~ th[t].owns /\ ~ th[t].rules
  BY <1>1, Constants DEF HandlersInv, HandlerOK, SignSteps, SeenSteps
<1>3. Grows /\ relay' \in [Peers -> [Copies -> Answers]]
  BY <1>1, TypeOf DEF Grows
<1>4. CASE memo' = memo
  BY <1>1, <1>3, <1>4, DoneStep DEF SignSteps
<1>5. CASE /\ StaleMatches(c) /\ memo[n].copy = th[t].seen
           /\ memo[n].resolved[p] = Claim(c)
           /\ memo' = [memo EXCEPT ![n].resolved[p] = Tag(settled)]
  <2>1. memo[n].kind = "derived"
    BY <1>5 DEF StaleMatches
  <2>2. memo[n].copy \in Copies
    BY <1>2, <2>1 DEF MemosInv
  <2>3. settled \in Copies /\ BodyOf(settled) = BodyOf(memo[n].copy)
    BY <1>2, <1>5, <2>2 DEF SameCarrier
  <2>4. \/ Tag(settled) \in {Tag(c), Claim(c)}
        \/ Tag(settled) = Tag(memo[n].copy) /\ BodyOf(c) # BodyOf(memo[n].copy)
    BY <1>5 DEF SameCarrier
  <2> HIDE DEF settled
  <2>5. Tag(settled) \in Tags /\ Tag(settled).copy = settled
    BY <2>3, TagFacts
  <2>6. /\ th' \in [Threads -> Handler] /\ th'[t] = Idle
        /\ \A u \in Threads \ {t} : th'[u] = th[u]
    BY <1>1, TypeOf, Defaults
  <2>7. HandlerOK(t)'
    BY <2>6, Defaults DEF HandlerOK, SignSteps, SeenSteps
  <2>8. \A u \in Threads \ {t} : th[u].pc # "kdf"
    BY <1>1 DEF SlotInv
  <2>9. ASSUME NEW u \in Threads \ {t}, th[u].pc = "relookup", Follows(u),
               NonceOfCopy(th[u].copy) = n, th[u].from = p
        PROVE  FALSE
    <3>1. memo[n].resolved[p] = Tag(th[u].copy)
      BY <2>9 DEF SlotInv
    <3>2. Claim(c).claim = TRUE /\ Tag(th[u].copy).claim = FALSE
      BY DEF Claim, Tag
    <3> QED
      BY <1>5, <3>1, <3>2
  <2> DEFINE tag == Tag(settled)
  <2>10. TagFrame(t, n, p, tag)
    BY <1>1, <1>3, <2>3, <2>5, <2>6, <2>7, <2>8, <2>9, Defaults
       DEF TagFrame, SignSteps, SeenSteps
  <2>11. /\ c \in Copies /\ p \in Peers /\ n \in Nonces /\ NonceOfCopy(c) = n
         /\ relay'[p][c] # "none" /\ tag \in Tags
         /\ memo' = [memo EXCEPT ![n].resolved[p] = tag]
         /\ memo[n].kind = "derived" /\ th' \in [Threads -> Handler]
    BY <1>1, <1>2, <1>5, <2>1, <2>5, <2>6
  <2>12. TagMeans(t, n, p, tag, c)
    BY <2>4 DEF TagMeans
  <2> HIDE DEF CarrierIInv, c, p, n, tag
  <2> QED
    BY <1>3, <2>10, <2>11, <2>12, TagStep
<1> QED
  BY <1>4, <1>5 DEF StaleFinish

-----------------------------------------------------------------------------
(* The first hold of /sign.                                                  *)

LEMMA DeliveredFacts ==
    ASSUME TypeOK, NEW c \in Copies, NEW from \in Peers \cup {Coord},
           relay' = Delivered(c, from)
    PROVE  /\ relay' \in [Peers -> [Copies -> Answers]]
           /\ \A q \in Peers, x \in Copies : relay[q][x] # "none" => relay'[q][x] # "none"
           /\ from \in Peers => relay'[from][c] # "none"
<1>1. CASE from \in Peers
  <2>1. relay' = [relay EXCEPT ![from][c] = "delivered"]
    BY <1>1 DEF Delivered
  <2> QED
    BY <1>1, <2>1, RelayFacts
<1>2. CASE from \notin Peers
  BY <1>2, TypeOf DEF Delivered
<1> QED
  BY <1>1, <1>2

\* /sign returns after the first hold: the request was refused, or its nonce was spent
\* and the delivery horizon refused it.
LEMMA IngressReturns ==
    ASSUME CarrierIInv, NEW t \in Threads, NEW c \in Copies, NEW from \in Peers \cup {Coord},
           NEW h, h.copy = c, h.from = from,
           th[t].pc = "idle", th' = [th EXCEPT ![t] = Returned(h)],
           relay' = Delivered(c, from), LogTypes', Remembers, StayOver,
           forwarded \subseteq forwarded', forwarded' \subseteq Copies,
           UNCHANGED <<mono, memo, intent, armed, locked>>
    PROVE  CarrierIInv'
<1> USE DEF CarrierIInv, StoreInv, ArmInv, ClaimInv
<1>1. /\ Returned(h) \in Handler
      /\ ~ Returned(h).owns /\ ~ Returned(h).rules
      /\ from \in Peers => /\ Returned(h).pc = "lookup"
                           /\ Returned(h).copy = c /\ Returned(h).from = from
      /\ from \notin Peers => Returned(h) = Idle
  BY ReturnedFacts
<1>2. Returned(h).pc \in {"idle", "lookup"}
  BY <1>1, Defaults
<1>3. /\ th' \in [Threads -> Handler] /\ th'[t] = Returned(h)
      /\ \A u \in Threads \ {t} : th'[u] = th[u]
  BY <1>1, TypeOf
<1>4. ~ th[t].owns /\ ~ th[t].rules
  BY DEF HandlersInv, HandlerOK, SignSteps
<1>5. /\ relay' \in [Peers -> [Copies -> Answers]] /\ Grows
      /\ from \in Peers => relay'[from][c] # "none"
  BY DeliveredFacts DEF Grows
<1>6. TypeOK'
  BY <1>3, <1>5, TypeOf, TypeNext
<1>7. mono' \in Nat /\ mono' >= mono
  BY TypeOf, Constants DEF LogTypes
<1>8. HandlerOK(t)'
  <2>1. CASE from \in Peers
    BY <1>1, <1>3, <1>5, <2>1 DEF HandlerOK, SignSteps, SeenSteps
  <2>2. CASE from \notin Peers
    BY <1>1, <1>3, <2>2, Defaults DEF HandlerOK, SignSteps, SeenSteps
  <2> QED
    BY <2>1, <2>2
<1>9. /\ HandlersKept
      /\ \A u \in Threads : th'[u].pc \in SeenSteps \/ th[u].pc = "kdf" => th'[u] = th[u]
      /\ \A u \in Threads : th'[u].pc = "windowA" => th[u].pc = "windowA"
      /\ \A u \in Threads : th'[u] = th[u] \/ HandlerOK(u)'
  BY <1>2, <1>3, <1>8 DEF HandlersKept, SignSteps, SeenSteps
<1>10. /\ MemosKept /\ IntentsKept /\ StoreFrame /\ InflightKept
       /\ CountablesKept /\ HoldersKept
  BY <1>9 DEF MemosKept, IntentsKept, StoreFrame, InflightKept, CountablesKept, HoldersKept
<1>11. OwnersStay /\ RulersStay
  BY <1>3, <1>4 DEF OwnersStay, RulersStay
<1>12. RulingsKept
  BY <1>2, <1>3 DEF RulingsKept
<1>13. StepFrame
  BY <1>5, <1>7, <1>9, <1>10, <1>11, <1>12 DEF StepFrame
<1>14. ArmNeedsQuorum'
  BY <1>5, QuorumStays
<1> QED
  BY <1>6, <1>13, <1>14, StoreStep

\* The request is accepted: handler t claims the nonce for a generation that is new.
AcceptFrame(t, c, from, n, e, d) ==
    /\ n = NonceOfCopy(c) /\ e = ExpiryOfCopy(c) /\ d = entries'[n].deadline
    /\ th[t].pc = "idle"
    /\ relay' = Delivered(c, from)
    /\ intent' = PrunedIntents(intent)
    /\ memo' = [PrunedMemos(memo, intent') EXCEPT ![n] = MemoOf("inflight", c, d)]
    /\ th' = [th EXCEPT ![t] = [Idle EXCEPT !.copy = c, !.from = from, !.pc = "windowA",
                                            !.deadline = d, !.owns = TRUE]]
    /\ UNCHANGED <<mono, locked, armed, forwarded>>
    /\ LogTypes' /\ highWater' >= highWater
    /\ entries'[n].expiry = e /\ d > mono /\ d \in Time
    /\ entries[n].deadline <= mono
    /\ \A k \in Nonces, x \in Time \ {0}, y \in Time : Generation(k, x, y) =>
          /\ Generation(k, x, y)'
          /\ ~ (k = n /\ x = e)
    /\ StayOver

AcceptResult(t, c, from, n, e, d) ==
    /\ TypeOK' /\ Grows /\ Remembers /\ n \in Nonces /\ e \in Time \ {0}
    /\ entries'[n] = [expiry |-> e, deadline |-> d]
    /\ \A b \in Bodies :
          \/ intent'[b] = intent[b]
          \/ /\ intent'[b] = NoIntent
             /\ ~ intent[b].ruling /\ ~ (intent[b].deadline > mono)
    /\ memo'[n].kind = "inflight" /\ memo'[n].copy = c /\ memo'[n].deadline = d
    /\ \A k \in Nonces \ {n} :
          \/ memo'[k] = memo[k]
          \/ /\ memo'[k] = NoMemo
             /\ memo[k].kind # "inflight" /\ ~ (memo[k].deadline > mono)
    /\ \A u \in Threads \ {t} : th'[u] = th[u]
    /\ th'[t].pc = "windowA" /\ th'[t].copy = c /\ th'[t].from = from
    /\ th'[t].deadline = d /\ th'[t].owns /\ ~ th'[t].rules
    /\ ~ th[t].owns /\ ~ th[t].rules
    /\ from \in Peers => relay'[from][c] # "none"

LEMMA AcceptFacts ==
    ASSUME CarrierIInv, NEW t \in Threads, NEW c \in Copies, NEW from \in Peers \cup {Coord},
           NEW n, NEW e, NEW d, AcceptFrame(t, c, from, n, e, d)
    PROVE  AcceptResult(t, c, from, n, e, d)
<1> USE DEF CarrierIInv, StoreInv, ArmInv, ClaimInv
<1> DEFINE h == [Idle EXCEPT !.copy = c, !.from = from, !.pc = "windowA",
                             !.deadline = d, !.owns = TRUE]
<1>1. n \in Nonces /\ e \in Time \ {0} /\ d \in Time
  BY Constants DEF AcceptFrame
<1>2. Remembers /\ th[t].pc = "idle" /\ LogTypes'
  BY DEF AcceptFrame, Remembers
<1>3. entries'[n] = [expiry |-> e, deadline |-> d]
  BY <1>1 DEF AcceptFrame, LogTypes
<1>4. /\ h \in Handler /\ h.pc = "windowA" /\ h.copy = c /\ h.from = from
      /\ h.deadline = d /\ h.owns /\ ~ h.rules
  BY <1>1, Constants DEF Idle, Handler
<1>5. th' = [th EXCEPT ![t] = h]
  BY DEF AcceptFrame
<1> HIDE DEF h
<1>6. /\ th' \in [Threads -> Handler] /\ th'[t] = h
      /\ \A u \in Threads \ {t} : th'[u] = th[u]
  BY <1>4, <1>5, TypeOf
<1>7. /\ relay' \in [Peers -> [Copies -> Answers]] /\ Grows
      /\ from \in Peers => relay'[from][c] # "none"
  BY DeliveredFacts DEF Grows, AcceptFrame
<1>8. /\ intent' \in [Bodies -> IntentType]
      /\ \A b \in Bodies :
            \/ intent'[b] = intent[b]
            \/ /\ intent'[b] = NoIntent
               /\ ~ intent[b].ruling /\ ~ (intent[b].deadline > mono)
  BY PruneFacts DEF AcceptFrame
<1> DEFINE pruned == PrunedMemos(memo, PrunedIntents(intent))
           mm == MemoOf("inflight", c, d)
<1>9. /\ pruned \in [Nonces -> MemoType]
      /\ \A k \in Nonces :
            \/ pruned[k] = memo[k]
            \/ /\ pruned[k] = NoMemo
               /\ memo[k].kind # "inflight" /\ ~ (memo[k].deadline > mono)
  BY PruneFacts
<1>10. mm \in MemoType /\ mm.kind = "inflight" /\ mm.copy = c /\ mm.deadline = d
  BY <1>1, MemoOfFacts
<1>11. memo' = [pruned EXCEPT ![n] = mm]
  BY DEF AcceptFrame
<1> HIDE DEF pruned, mm
<1>12. /\ memo' \in [Nonces -> MemoType] /\ memo'[n] = mm
       /\ \A k \in Nonces \ {n} : memo'[k] = pruned[k]
  BY <1>1, <1>9, <1>10, <1>11
<1>13. ~ th[t].owns /\ ~ th[t].rules
  BY <1>2 DEF HandlersInv, HandlerOK, SignSteps
<1>14. TypeOK'
  <2>1. UNCHANGED <<armed, locked, forwarded>>
    BY DEF AcceptFrame
  <2> QED
    BY <1>2, <1>6, <1>7, <1>8, <1>12, <2>1, TypeOf, TypeNext
<1> QED
  BY <1>1, <1>2, <1>3, <1>4, <1>6, <1>7, <1>8, <1>9, <1>10, <1>12, <1>13, <1>14
     DEF AcceptResult

\* Nothing in the state before an accept is of the accepted generation.
LEMMA AcceptIsNew ==
    ASSUME CarrierIInv, NEW t \in Threads, NEW c \in Copies, NEW from \in Peers \cup {Coord},
           NEW n, NEW e, NEW d, AcceptFrame(t, c, from, n, e, d)
    PROVE  /\ \A c2, d2 : Mentioned(c2, d2) => ~ SameGeneration(BodyOf(c2), BodyOf(c))
           /\ \A b \in Bodies : intent[b].present => ~ SameGeneration(b, BodyOf(c))
           /\ \A c2, d2 : Mentioned(c2, d2)' => Mentioned(c2, d2) \/ (c2 = c /\ d2 = d)
<1>0. AcceptResult(t, c, from, n, e, d)
  BY AcceptFacts
<1>1. /\ \A u \in Threads \ {t} : th'[u] = th[u]
      /\ th'[t].pc = "windowA" /\ th'[t].copy = c /\ th'[t].deadline = d
      /\ memo'[n].copy = c /\ memo'[n].deadline = d
      /\ \A k \in Nonces \ {n} : memo'[k] = memo[k] \/ memo'[k] = NoMemo
  BY <1>0 DEF AcceptResult
<1>2. \A y \in Time : ~ Generation(n, e, y)
  <2>1. n \in Nonces /\ e \in Time \ {0}
    BY <1>0 DEF AcceptResult
  <2> QED
    BY <2>1 DEF AcceptFrame
<1> USE DEF CarrierIInv, StoreInv, ArmInv, ClaimInv
<1>3. n = NonceOf[BodyOf(c)] /\ e = ExpiryOf[BodyOf(c)]
  BY DEF AcceptFrame, NonceOfCopy, ExpiryOfCopy
<1>4. ASSUME NEW c2, NEW d2, Mentioned(c2, d2), SameGeneration(BodyOf(c2), BodyOf(c))
      PROVE  FALSE
  <2>1. d2 \in Time /\ Generation(NonceOfCopy(c2), ExpiryOfCopy(c2), d2)
    BY <1>4, MentionFacts
  <2>2. NonceOfCopy(c2) = n /\ ExpiryOfCopy(c2) = e
    BY <1>3, <1>4 DEF SameGeneration, NonceOfCopy, ExpiryOfCopy
  <2> QED
    BY <1>2, <2>1, <2>2
<1>5. ASSUME NEW b \in Bodies, intent[b].present, SameGeneration(b, BodyOf(c))
      PROVE  FALSE
  <2>1. Generation(NonceOf[b], ExpiryOf[b], intent[b].deadline)
    BY <1>5 DEF OneAcceptance
  <2>2. NonceOf[b] = n /\ ExpiryOf[b] = e
    BY <1>3, <1>5 DEF SameGeneration
  <2>3. intent[b].deadline \in Time
    BY TypeOf DEF IntentType
  <2> QED
    BY <1>2, <2>1, <2>2, <2>3
<1>6. ASSUME NEW c2, NEW d2, Mentioned(c2, d2)'
      PROVE  Mentioned(c2, d2) \/ (c2 = c /\ d2 = d)
  <2>1. ASSUME NEW u \in Threads, Handled(u, c2, d2)' \/ Seen(u, c2, d2)'
        PROVE  Mentioned(c2, d2) \/ (c2 = c /\ d2 = d)
    <3>1. CASE u = t
      BY <1>1, <2>1, <3>1 DEF Handled, Seen, SignSteps, SeenSteps
    <3>2. CASE u # t
      BY <1>1, <2>1, <3>2 DEF Handled, Seen, Mentioned
    <3> QED
      BY <3>1, <3>2
  <2>2. ASSUME NEW k \in Nonces, Memoized(k, c2, d2)'
        PROVE  Mentioned(c2, d2) \/ (c2 = c /\ d2 = d)
    BY <1>1, <2>2, Defaults DEF Memoized, Mentioned
  <2> QED
    BY <1>6, <2>1, <2>2 DEF Mentioned
<1> QED
  BY <1>4, <1>5, <1>6

\* The log and the store speak of the accepted copy alone.
LEMMA AcceptAcceptance ==
    ASSUME CarrierIInv, NEW t \in Threads, NEW c \in Copies, NEW from \in Peers \cup {Coord},
           NEW n, NEW e, NEW d, AcceptFrame(t, c, from, n, e, d)
    PROVE  OneAcceptance' /\ OneHandler'
<1>0. AcceptResult(t, c, from, n, e, d)
  BY AcceptFacts
<1>1. /\ \A c2, d2 : Mentioned(c2, d2) => ~ SameGeneration(BodyOf(c2), BodyOf(c))
      /\ \A b \in Bodies : intent[b].present => ~ SameGeneration(b, BodyOf(c))
      /\ \A c2, d2 : Mentioned(c2, d2)' => Mentioned(c2, d2) \/ (c2 = c /\ d2 = d)
  BY AcceptIsNew
<1>2. /\ Remembers /\ entries'[n] = [expiry |-> e, deadline |-> d]
      /\ \A u \in Threads \ {t} : th'[u] = th[u]
      /\ th'[t].copy = c
      /\ \A b \in Bodies : intent'[b] = intent[b] \/ intent'[b] = NoIntent
  BY <1>0 DEF AcceptResult
<1> USE DEF CarrierIInv, StoreInv, ArmInv, ClaimInv
<1>3. Generation(NonceOfCopy(c), ExpiryOfCopy(c), d)'
  BY <1>2 DEF AcceptFrame, Generation
<1>4. \A b \in Bodies : intent'[b].present =>
         intent[b].present /\ intent'[b].deadline = intent[b].deadline
  BY <1>2, Defaults
<1>5. \A b1, b2 : SameGeneration(b1, b2) <=> SameGeneration(b2, b1)
  BY DEF SameGeneration
<1>6. ASSUME NEW c1 \in Copies, NEW d1 \in Time, Mentioned(c1, d1)'
      PROVE  /\ Generation(NonceOfCopy(c1), ExpiryOfCopy(c1), d1)'
             /\ \A c2 \in Copies, d2 \in Time :
                   Mentioned(c2, d2)' /\ SameGeneration(BodyOf(c1), BodyOf(c2)) =>
                      c2 = c1 /\ d2 = d1
             /\ \A b \in Bodies :
                   intent'[b].present /\ SameGeneration(BodyOf(c1), b) =>
                      b = BodyOf(c1) /\ intent'[b].deadline = d1
  <2>1. CASE c1 = c /\ d1 = d
    <3>1. \A b \in Bodies : intent'[b].present => ~ SameGeneration(BodyOf(c), b)
      BY <1>1, <1>4, <1>5
    <3>2. \A c2, d2 : Mentioned(c2, d2)' /\ SameGeneration(BodyOf(c), BodyOf(c2)) =>
             c2 = c /\ d2 = d
      BY <1>1, <1>5
    <3> QED
      BY <1>3, <2>1, <3>1, <3>2
  <2>2. CASE Mentioned(c1, d1)
    <3>1. /\ Generation(NonceOfCopy(c1), ExpiryOfCopy(c1), d1)
          /\ \A c2, d2 : Mentioned(c2, d2) /\ SameGeneration(BodyOf(c1), BodyOf(c2)) =>
                c2 = c1 /\ d2 = d1
          /\ \A b \in Bodies : intent[b].present /\ SameGeneration(BodyOf(c1), b) =>
                b = BodyOf(c1) /\ intent[b].deadline = d1
      BY <2>2, MentionFacts
    <3>2. Generation(NonceOfCopy(c1), ExpiryOfCopy(c1), d1)'
      BY <1>2, <3>1, Constants DEF Remembers
    <3>3. ~ SameGeneration(BodyOf(c1), BodyOf(c))
      BY <1>1, <2>2
    <3> QED
      BY <1>1, <1>4, <3>1, <3>2, <3>3
  <2> QED
    BY <1>1, <1>6, <2>1, <2>2
<1>7. ASSUME NEW b \in Bodies, intent'[b].present
      PROVE  /\ Generation(NonceOf[b], ExpiryOf[b], intent[b].deadline)'
             /\ \A b2 \in Bodies : intent'[b2].present /\ SameGeneration(b, b2) => b2 = b
  <2>1. /\ Generation(NonceOf[b], ExpiryOf[b], intent[b].deadline)
        /\ \A b2 \in Bodies : intent[b2].present /\ SameGeneration(b, b2) => b2 = b
    BY <1>4, <1>7 DEF OneAcceptance
  <2>2. intent[b].deadline \in Time /\ intent'[b].deadline = intent[b].deadline
    BY <1>4, <1>7, TypeOf DEF IntentType
  <2>3. \A y \in Time : Generation(NonceOf[b], ExpiryOf[b], y) =>
                           Generation(NonceOf[b], ExpiryOf[b], y)'
    BY <1>2, Constants DEF Remembers
  <2>4. Generation(NonceOf[b], ExpiryOf[b], intent[b].deadline)'
    BY <2>1, <2>2, <2>3 DEF Generation
  <2> QED
    BY <1>4, <2>1, <2>4
<1>8. OneAcceptance'
  BY <1>6, <1>7 DEF OneAcceptance
<1>9. OneHandler'
  <2> SUFFICES ASSUME NEW u \in Threads, NEW v \in Threads,
                      th'[u].pc \in SignSteps, th'[v].pc \in SignSteps,
                      SameGeneration(BodyOf(th'[u].copy), BodyOf(th'[v].copy))
               PROVE  u = v
    BY DEF OneHandler
  <2>1. ASSUME NEW w \in Threads \ {t}, th'[w].pc \in SignSteps
        PROVE  ~ SameGeneration(BodyOf(th'[w].copy), BodyOf(c))
    <3>1. Mentioned(th[w].copy, th[w].deadline)
      BY <1>2, <2>1 DEF Mentioned, Handled
    <3> QED
      BY <1>1, <1>2, <3>1
  <2>2. CASE u # t /\ v # t
    BY <1>2, <2>2 DEF OneHandler
  <2> QED
    BY <1>2, <1>5, <2>1, <2>2
<1> QED
  BY <1>8, <1>9

LEMMA AcceptedStep ==
    ASSUME CarrierIInv, NEW t \in Threads, NEW c \in Copies, NEW from \in Peers \cup {Coord},
           NEW n, NEW e, NEW d, AcceptFrame(t, c, from, n, e, d)
    PROVE  CarrierIInv'
<1>0. AcceptResult(t, c, from, n, e, d)
  BY AcceptFacts
<1>1. /\ \A c2, d2 : Mentioned(c2, d2) => ~ SameGeneration(BodyOf(c2), BodyOf(c))
      /\ \A b \in Bodies : intent[b].present => ~ SameGeneration(b, BodyOf(c))
  BY AcceptIsNew
<1>2. OneAcceptance' /\ OneHandler'
  BY AcceptAcceptance
<1> USE DEF CarrierIInv, StoreInv, ArmInv, ClaimInv
<1>3. /\ TypeOK' /\ Grows /\ Remembers /\ n \in Nonces /\ e \in Time \ {0}
      /\ entries'[n] = [expiry |-> e, deadline |-> d]
      /\ memo'[n].kind = "inflight" /\ memo'[n].copy = c /\ memo'[n].deadline = d
      /\ th'[t].pc = "windowA" /\ th'[t].copy = c /\ th'[t].from = from
      /\ th'[t].deadline = d /\ th'[t].owns /\ ~ th'[t].rules
      /\ ~ th[t].owns /\ ~ th[t].rules
      /\ from \in Peers => relay'[from][c] # "none"
  BY <1>0 DEF AcceptResult
<1>4. \A u \in Threads \ {t} : th'[u] = th[u]
  BY <1>0 DEF AcceptResult
<1>5. \A b \in Bodies :
         \/ intent'[b] = intent[b]
         \/ /\ intent'[b] = NoIntent
            /\ ~ intent[b].ruling /\ ~ (intent[b].deadline > mono)
  BY <1>0 DEF AcceptResult
<1>6. \A k \in Nonces \ {n} :
         \/ memo'[k] = memo[k]
         \/ /\ memo'[k] = NoMemo
            /\ memo[k].kind # "inflight" /\ ~ (memo[k].deadline > mono)
  BY <1>0 DEF AcceptResult
<1>7. /\ n = NonceOfCopy(c) /\ e = ExpiryOfCopy(c) /\ th[t].pc = "idle"
      /\ UNCHANGED <<mono, locked, armed, forwarded>>
      /\ entries[n].deadline <= mono /\ StayOver
  BY DEF AcceptFrame
<1>8. BodyOf(c) \in Bodies /\ n = NonceOf[BodyOf(c)] /\ e = ExpiryOf[BodyOf(c)]
  BY <1>7, Constants DEF NonceOfCopy, ExpiryOfCopy
<1>9. HandlersInv'
  <2>1. HandlerOK(t)'
    BY <1>3 DEF HandlerOK, SignSteps, SeenSteps
  <2> QED
    BY <1>3, <1>4, <2>1, HandlersStay
<1>10. MemosInv'
  <2> SUFFICES ASSUME NEW k \in Nonces, memo'[k].kind # "none"
               PROVE  memo'[k].copy \in Copies /\ NonceOfCopy(memo'[k].copy) = k
    BY DEF MemosInv
  <2>1. CASE k = n
    BY <1>3, <1>7, <2>1
  <2>2. CASE k # n
    BY <1>6, <2>2, Defaults DEF MemosInv
  <2> QED
    BY <2>1, <2>2
<1>11. IntentsInv'
  BY <1>5, Defaults DEF IntentsInv
<1>12. IntentsKept
  BY <1>5, Defaults DEF IntentsKept
<1>13. FreshInWindowA'
  <2> SUFFICES ASSUME NEW u \in Threads, th'[u].pc = "windowA"
               PROVE  /\ ~ intent'[BodyOf(th'[u].copy)].present
                      /\ \A k \in Nonces :
                            memo'[k].kind = "derived" => memo'[k].copy # th'[u].copy
                      /\ \A v \in Threads :
                            th'[v].pc \in SeenSteps => th'[v].seen # th'[u].copy
    BY DEF FreshInWindowA
  <2>1. \A b : SameGeneration(b, b)
    BY DEF SameGeneration
  <2>2. \A k \in Nonces : memo'[k].kind = "derived" => k # n /\ memo'[k] = memo[k]
    BY <1>3, <1>6, Defaults
  <2>3. \A v \in Threads : th'[v].pc \in SeenSteps => v # t /\ th'[v] = th[v]
    BY <1>3, <1>4 DEF SeenSteps
  <2>4. CASE u = t
    <3>1. ~ intent'[BodyOf(c)].present
      BY <1>1, <1>5, <1>8, <2>1, Defaults
    <3>2. ASSUME NEW k \in Nonces, memo'[k].kind = "derived"
          PROVE  memo'[k].copy # c
      <4>1. Mentioned(memo[k].copy, memo[k].deadline)
        BY <2>2, <3>2 DEF Mentioned, Memoized
      <4> QED
        BY <1>1, <2>1, <2>2, <3>2, <4>1
    <3>3. ASSUME NEW v \in Threads, th'[v].pc \in SeenSteps
          PROVE  th'[v].seen # c
      <4>1. Mentioned(th[v].seen, th[v].seenDeadline)
        BY <2>3, <3>3 DEF Mentioned, Seen
      <4> QED
        BY <1>1, <2>1, <2>3, <3>3, <4>1
    <3> QED
      BY <1>3, <2>4, <3>1, <3>2, <3>3
  <2>5. CASE u # t
    <3>1. th'[u] = th[u] /\ th[u].pc = "windowA" /\ BodyOf(th[u].copy) \in Bodies
      BY <1>4, <2>5, Constants DEF HandlersInv, HandlerOK
    <3>2. /\ ~ intent[BodyOf(th[u].copy)].present
          /\ \A k \in Nonces : memo[k].kind = "derived" => memo[k].copy # th[u].copy
          /\ \A v \in Threads : th[v].pc \in SeenSteps => th[v].seen # th[u].copy
      BY <3>1 DEF FreshInWindowA
    <3>3. ~ intent'[BodyOf(th[u].copy)].present
      BY <1>5, <3>1, <3>2, Defaults
    <3> QED
      BY <2>2, <2>3, <3>1, <3>2, <3>3
  <2> QED
    BY <2>4, <2>5
<1>14. RuledInWindowB'
  <2> SUFFICES ASSUME NEW u \in Threads, th'[u].pc = "windowB" PROVE Ruled(u)'
    BY DEF RuledInWindowB, Ruled
  <2>1. th'[u] = th[u] /\ BodyOf(th[u].copy) \in Bodies
    BY <1>3, <1>4, Constants DEF HandlersInv, HandlerOK
  <2>2. Ruled(u)
    BY <2>1 DEF RuledInWindowB, Ruled
  <2>3. intent'[BodyOf(th[u].copy)] = intent[BodyOf(th[u].copy)]
    BY <1>5, <2>1, <2>2 DEF Ruled
  <2> QED
    BY <2>1, <2>2, <2>3 DEF Ruled
<1>15. CountableHasMemo'
  <2>1. mono' \in Nat /\ mono' >= mono
    BY <1>7, TypeOf, Constants DEF LogTypes
  <2> SUFFICES ASSUME NEW b \in Bodies, intent'[b].present, intent'[b].deadline > mono'
               PROVE  /\ memo'[NonceOf[b]].kind = "derived"
                      /\ BodyOf(memo'[NonceOf[b]].copy) = b
    BY DEF CountableHasMemo, Countable
  <2>2. intent[b].present /\ intent[b].deadline > mono
    BY <1>5, <1>7, Defaults
  <2> DEFINE k == NonceOf[b]
  <2>3. memo[k].kind = "derived" /\ BodyOf(memo[k].copy) = b /\ k \in Nonces
    BY <2>2, Constants DEF CountableHasMemo, Countable
  <2>4. memo[k].deadline = intent[b].deadline
    <3>1. Mentioned(memo[k].copy, memo[k].deadline)
      BY <2>3 DEF Mentioned, Memoized
    <3>2. SameGeneration(BodyOf(memo[k].copy), b)
      BY <2>3 DEF SameGeneration
    <3> QED
      BY <2>2, <3>1, <3>2, MentionFacts
  <2>5. k # n
    <3>1. entries[k] = [expiry |-> ExpiryOf[b], deadline |-> intent[b].deadline]
      BY <2>2 DEF LiveIntentIsCurrent
    <3>2. entries[k].deadline > mono
      BY <2>2, <3>1
    <3>3. entries[k].deadline \in Nat /\ mono \in Nat
      BY <2>3, TypeOf, Constants DEF LogTypes
    <3> QED
      BY <1>7, <3>2, <3>3
  <2>6. memo'[k] = memo[k]
    BY <1>6, <2>2, <2>3, <2>4, <2>5
  <2> QED
    BY <2>3, <2>6
<1>16. ConfirmedIsReady' /\ SlotInv' /\ TagsInv'
  <2>1. StoreFrame
    BY <1>3, <1>4, <1>6, <1>7, Defaults DEF StoreFrame, SeenSteps
  <2> QED
    BY <1>3, <1>12, <2>1, ReceiptsKept
<1>17. HoldersAreReal'
  <2>1. HoldersKept
    BY <1>5, Defaults DEF HoldersKept
  <2>2. \A b \in Bodies : intent'[b].holders \subseteq Peers \cup {Self}
    BY <1>3 DEF TypeOK
  <2> QED
    BY <1>3, <2>1, <2>2, HoldersStayReal
<1>18. ClaimsHaveOwners'
  <2>1. ASSUME NEW k \in Nonces, memo'[k].kind = "inflight"
        PROVE  \E u \in Threads : /\ th'[u].owns /\ NonceOfCopy(th'[u].copy) = k
                                  /\ OwnClaim(u)'
    <3>1. CASE k = n
      <4>1. OwnClaim(t)'
        BY <1>3, <1>7 DEF OwnClaim
      <4> QED
        BY <1>3, <1>7, <3>1, <4>1
    <3>2. CASE k # n
      <4>1. memo'[k] = memo[k]
        BY <1>6, <2>1, <3>2, Defaults
      <4>2. PICK u \in Threads : th[u].owns /\ NonceOfCopy(th[u].copy) = k /\ OwnClaim(u)
        BY <2>1, <4>1 DEF ClaimsHaveOwners
      <4>3. th'[u] = th[u]
        BY <1>3, <1>4, <4>2
      <4>4. OwnClaim(u)'
        BY <4>1, <4>2, <4>3 DEF OwnClaim
      <4> QED
        BY <4>2, <4>3, <4>4
    <3> QED
      BY <3>1, <3>2
  <2>2. ASSUME NEW b \in Bodies, intent'[b].ruling
        PROVE  \E u \in Threads : th'[u].rules /\ BodyOf(th'[u].copy) = b
    <3>1. intent[b].ruling
      BY <1>5, <2>2, Defaults
    <3>2. PICK u \in Threads : th[u].rules /\ BodyOf(th[u].copy) = b
      BY <3>1 DEF ClaimsHaveOwners
    <3> QED
      BY <1>3, <1>4, <3>2
  <2> QED
    BY <2>1, <2>2 DEF ClaimsHaveOwners
<1>19. OwnersKeepClaims'
  <2> SUFFICES ASSUME NEW u \in Threads, th'[u].owns, th'[u].pc = "windowA", ~ OwnClaim(u)'
               PROVE  /\ th'[u].deadline <= mono'
                      /\ entries'[NonceOfCopy(th'[u].copy)].expiry # ExpiryOfCopy(th'[u].copy)
    BY DEF OwnersKeepClaims
  <2>1. u # t
    BY <1>3, <1>7 DEF OwnClaim
  <2> DEFINE x == th[u].copy
             k == NonceOfCopy(x)
  <2>2. th'[u] = th[u] /\ x \in Copies /\ k \in Nonces /\ ExpiryOfCopy(x) \in Time \ {0}
    BY <1>4, <2>1, Constants DEF HandlersInv, HandlerOK
  <2>3. Mentioned(x, th[u].deadline)
    BY <2>2 DEF Mentioned, Handled, SignSteps
  <2>4. Generation(k, ExpiryOfCopy(x), th[u].deadline) /\ th[u].deadline \in Time
    BY <2>3, MentionFacts
  <2>5. CASE k = n
    <3>1. Generation(k, ExpiryOfCopy(x), th[u].deadline)'
      BY <1>3, <2>2, <2>4 DEF Remembers, Generation
    <3>2. ExpiryOfCopy(x) # e
      BY <1>1, <1>8, <2>3, <2>5 DEF SameGeneration, NonceOfCopy, ExpiryOfCopy
    <3>3. entries'[k].expiry # ExpiryOfCopy(x)
      BY <1>3, <2>5, <3>2
    <3> QED
      BY <2>2, <3>1, <3>3 DEF Generation
  <2>6. CASE k # n
    <3>1. ~ OwnClaim(u)
      BY <1>6, <2>2, <2>6 DEF OwnClaim
    <3>2. th[u].deadline <= mono /\ entries[k].expiry # ExpiryOfCopy(x)
      BY <2>2, <3>1 DEF OwnersKeepClaims
    <3>3. ExpiryOfCopy(x) <= highWater
      BY <2>4, <3>2 DEF Generation
    <3>4. entries'[k].expiry # ExpiryOfCopy(x)
      BY <1>7, <2>2, <3>2, <3>3 DEF StayOver
    <3> QED
      BY <1>7, <2>2, <3>2, <3>4
  <2> QED
    BY <2>5, <2>6
<1>20. LiveIntentIsCurrent'
  BY <1>2, <1>3, LiveIsCurrent, PTL
<1>21. ArmNeedsQuorum'
  BY <1>3, <1>7, QuorumStays
<1> QED
  BY <1>2, <1>3, <1>9, <1>10, <1>11, <1>13, <1>14, <1>15, <1>16, <1>17, <1>18, <1>19,
     <1>20, <1>21

LEMMA IngressStep ==
    ASSUME CarrierIInv, NEW t \in Threads, NEW c \in Copies, NEW from \in Peers \cup {Coord},
           Ingress(t, c, from)
    PROVE  CarrierIInv'
<1> DEFINE n == NonceOfCopy(c)
           e == ExpiryOfCopy(c)
           h == [Idle EXCEPT !.copy = c, !.from = from]
<1>1. TypeOK /\ LogTypes
  BY TypeOf DEF CarrierIInv, ArmInv
<1>2. /\ th[t].pc = "idle" /\ relay' = Delivered(c, from) /\ UNCHANGED <<mono, locked>>
  BY DEF Ingress
<1>3. n \in Nonces /\ e \in Time /\ h.copy = c /\ h.from = from /\ forwarded \subseteq Copies
  BY <1>1, TypeOf, Constants DEF Idle
<1>4. PICK now \in Time :
         \/ /\ th' = [th EXCEPT ![t] = Returned(h)]
            /\ UNCHANGED <<logVars, storeVars, forwarded>>
         \/ /\ Log!Refusal(n, e, now, TRUE) = "None"
            /\ Log!Record(n, e, now, TRUE)
            /\ \/ /\ forwarded' = forwarded \cup {c}
                  /\ th' = [th EXCEPT ![t] = Returned(h)]
                  /\ UNCHANGED storeVars
               \/ /\ intent' = PrunedIntents(intent)
                  /\ memo' = [PrunedMemos(memo, intent') EXCEPT
                                 ![n] = MemoOf("inflight", c, entries'[n].deadline)]
                  /\ th' = [th EXCEPT ![t] =
                              [h EXCEPT !.pc = "windowA", !.deadline = entries'[n].deadline,
                                        !.owns = TRUE]]
                  /\ UNCHANGED <<armed, forwarded>>
  BY DEF Ingress
<1>5. CASE /\ th' = [th EXCEPT ![t] = Returned(h)]
           /\ UNCHANGED <<logVars, storeVars, forwarded>>
  <2>1. LogTypes' /\ Remembers /\ StayOver
    BY <1>1, <1>2, <1>5, LogKept
  <2>2. forwarded \subseteq forwarded' /\ forwarded' \subseteq Copies
    BY <1>3, <1>5
  <2>3. UNCHANGED <<mono, memo, intent, armed, locked>>
    BY <1>2, <1>5 DEF storeVars
  <2> HIDE DEF h
  <2> QED
    BY <1>2, <1>3, <1>5, <2>1, <2>2, <2>3, IngressReturns
<1>6. CASE Log!Refusal(n, e, now, TRUE) = "None" /\ Log!Record(n, e, now, TRUE)
  <2>1. /\ LogTypes'
        /\ highWater' >= highWater
        /\ entries'[n].expiry = e /\ entries'[n].deadline > mono
        /\ entries'[n].deadline \in Time
        /\ entries[n].deadline <= mono
        /\ \A m \in Nonces, x \in Time \ {0}, d \in Time : Generation(m, x, d) =>
              /\ Generation(m, x, d)'
              /\ ~ (m = n /\ x = e)
        /\ StayOver
    BY <1>1, <1>2, <1>3, <1>6, AcceptStep DEF StayOver
  <2>2. CASE /\ forwarded' = forwarded \cup {c}
             /\ th' = [th EXCEPT ![t] = Returned(h)]
             /\ UNCHANGED storeVars
    <3>1. Remembers
      BY <2>1 DEF Remembers
    <3>2. forwarded \subseteq forwarded' /\ forwarded' \subseteq Copies
      BY <1>3, <2>2
    <3>3. UNCHANGED <<mono, memo, intent, armed, locked>>
      BY <1>2, <2>2 DEF storeVars
    <3> HIDE DEF h
    <3> QED
      BY <1>2, <1>3, <2>1, <2>2, <3>1, <3>2, <3>3, IngressReturns
  <2>3. CASE /\ intent' = PrunedIntents(intent)
             /\ memo' = [PrunedMemos(memo, intent') EXCEPT
                            ![n] = MemoOf("inflight", c, entries'[n].deadline)]
             /\ th' = [th EXCEPT ![t] =
                         [h EXCEPT !.pc = "windowA", !.deadline = entries'[n].deadline,
                                   !.owns = TRUE]]
             /\ UNCHANGED <<armed, forwarded>>
    <3>1. AcceptFrame(t, c, from, n, e, entries'[n].deadline)
      <4>1. th' = [th EXCEPT ![t] =
                     [Idle EXCEPT !.copy = c, !.from = from, !.pc = "windowA",
                                  !.deadline = entries'[n].deadline, !.owns = TRUE]]
        BY <2>3
      <4> HIDE DEF h
      <4> QED
        BY <1>2, <2>1, <2>3, <4>1 DEF AcceptFrame
    <3> QED
      BY <3>1, AcceptedStep
  <2> QED
    BY <1>4, <2>2, <2>3, <1>5
<1> QED
  BY <1>4, <1>5, <1>6

-----------------------------------------------------------------------------
(* The theorems.                                                             *)

LEMMA CarrierInit == Init => CarrierIInv
<1> SUFFICES ASSUME Init PROVE CarrierIInv
  OBVIOUS
<1>1. /\ memo = [n \in Nonces |-> NoMemo] /\ intent = [b \in Bodies |-> NoIntent]
      /\ th = [t \in Threads |-> Idle] /\ armed = FALSE /\ locked = FALSE
      /\ forwarded = {} /\ relay = [p \in Peers |-> [c \in Copies |-> "none"]]
  BY DEF Init
<1>2. LogTypes
  <2>1. /\ mono = 0 /\ highWater = 0
        /\ entries = [n \in Nonces |-> [expiry |-> 0, deadline |-> 0]]
        /\ accepts = [n \in Nonces |-> [e \in Time |-> 0]]
    BY DEF Init, Log!Init, Log!LogInit, Log!Absent, Time
  <2> QED
    BY <2>1, Constants DEF LogTypes
<1>3. TypeOK
  BY <1>1, <1>2, TypeOf, Defaults DEF Answers
<1>4. /\ \A n \in Nonces : memo[n] = NoMemo
      /\ \A b \in Bodies : intent[b] = NoIntent
      /\ \A t \in Threads : th[t] = Idle
  BY <1>1
<1>5. /\ \A n \in Nonces : memo[n].kind = "none"
      /\ \A b \in Bodies : /\ ~ intent[b].present /\ ~ intent[b].ruling
                           /\ intent[b].holders = {} /\ IntentOK(intent[b])
      /\ \A t \in Threads : th[t].pc = "idle" /\ ~ th[t].owns /\ ~ th[t].rules
  BY <1>4, Defaults
<1>6. HoldersAreReal /\ ArmNeedsQuorum
  BY <1>1, <1>5 DEF HoldersAreReal, ArmNeedsQuorum
<1>7. LiveIntentIsCurrent /\ ClaimsHaveOwners /\ OwnersKeepClaims
  BY <1>5 DEF LiveIntentIsCurrent, ClaimsHaveOwners, OwnersKeepClaims
<1>8. OneAcceptance /\ OneHandler
  BY <1>5 DEF OneAcceptance, OneHandler, Mentioned, Handled, Seen, Memoized,
     SignSteps, SeenSteps
<1>9. HandlersInv /\ ConfirmedIsReady
  BY <1>5 DEF HandlersInv, HandlerOK, ConfirmedIsReady, SignSteps, SeenSteps
<1>10. StoreInv
  BY <1>5 DEF StoreInv, MemosInv, IntentsInv, FreshInWindowA, RuledInWindowB,
     CountableHasMemo, Countable
<1>11. SlotInv /\ TagsInv
  BY <1>5 DEF SlotInv, TagsInv
<1> QED
  BY <1>3, <1>6, <1>7, <1>8, <1>9, <1>10, <1>11 DEF CarrierIInv, ArmInv, ClaimInv

LEMMA CarrierStutter == CarrierIInv /\ UNCHANGED vars => CarrierIInv'
<1> SUFFICES ASSUME CarrierIInv, UNCHANGED vars PROVE CarrierIInv'
  OBVIOUS
<1> USE DEF CarrierIInv, StoreInv, ArmInv, ClaimInv
<1>1. UNCHANGED <<mono, logVars, memo, intent, th, armed, locked, forwarded, relay>>
  BY DEF vars, storeVars
<1>2. TypeOK'
  BY <1>1, TypeOf, TypeNext, LogKept
<1> HIDE DEF CarrierIInv
<1>3. /\ UNCHANGED <<mono, logVars, th, armed, forwarded, relay>>
      /\ \A b \in Bodies : intent'[b] = intent[b]
      /\ \A n \in Nonces : memo'[n] = memo[n]
  BY <1>1
<1> QED
  BY <1>2, <1>3, ForgetStep

LEMMA CarrierNext == CarrierIInv /\ [Next]_vars => CarrierIInv'
<1> SUFFICES ASSUME CarrierIInv, [Next]_vars PROVE CarrierIInv'
  OBVIOUS
<1>1. ASSUME NEW t \in Threads, NEW c \in Copies, NEW from \in Peers \cup {Coord},
             Ingress(t, c, from)
      PROVE  CarrierIInv'
  BY <1>1, IngressStep
<1>2. ASSUME NEW t \in Threads, NEW c \in Copies, NEW p \in Peers, StaleClaim(t, c, p)
      PROVE  CarrierIInv'
  BY <1>2, StaleClaimStep
<1>3. ASSUME NEW t \in Threads, HandlerStep(t)
      PROVE  CarrierIInv'
  BY <1>3, CommitStep, RegisterStep, EndingStep, LookupStep, ClaimDerivationStep, DeriveStep,
     ConfirmStep, StaleFinishStep DEF HandlerStep
<1>4. CASE PruneStore \/ LatchLockdown \/ TickMono
  BY <1>4, PruneStep, LatchStep, TickStep
<1>5. CASE UNCHANGED vars
  BY <1>5, CarrierStutter
<1> QED
  BY <1>1, <1>2, <1>3, <1>4, <1>5 DEF Next

\* The inductive invariant of the holder decision: every generation of a nonce is
\* accepted once, and the handlers, memos, tags and intents of a generation are all about
\* that one accepted copy (nonce_log, handle_sign_after_lock and the receipt path).
THEOREM CarrierInductive == Spec => []CarrierIInv
<1>1. Init => CarrierIInv
  BY CarrierInit
<1>2. CarrierIInv /\ [Next]_vars => CarrierIInv'
  BY CarrierNext
<1> QED
  BY <1>1, <1>2, PTL DEF Spec

\* For any peers, threads, copies and threshold: only real holders are counted, and the
\* node arms only on a duress body that `Threshold` nodes hold and it has sent on
\* (confirm_carrier).
THEOREM ArmInvHolds == Spec => []ArmInv
<1>1. CarrierIInv => ArmInv
  BY DEF CarrierIInv
<1> QED
  BY <1>1, CarrierInductive, PTL

\* For any peers, threads, copies and clocks: the claims, the rulings, the intents and the
\* nonce log agree (record_arm_intent, InFlightMemoGuard).
THEOREM ClaimInvHolds == Spec => []ClaimInv
<1>1. CarrierIInv => ClaimInv
  BY DEF CarrierIInv
<1> QED
  BY <1>1, CarrierInductive, PTL

-----------------------------------------------------------------------------
(* What is forwarded can be counted.                                         *)

\* Only its own second or third hold takes a handler out of its windows.
LEMMA WindowsEnd ==
    ASSUME CarrierIInv, Next, NEW t \in Threads,
           th[t].pc \in {"windowA", "windowB"}, th'[t].pc = "ending"
    PROVE  Commit(t) \/ Register(t)
<1>1. th \in [Threads -> Handler]
  BY TypeOf DEF CarrierIInv, ArmInv
<1>2. ASSUME NEW u \in Threads, NEW h, th' = [th EXCEPT ![u] = h] PROVE u = t
  BY <1>1, <1>2
<1>3. ASSUME NEW u \in Threads, NEW pc, th' = [th EXCEPT ![u].pc = pc] PROVE u = t
  BY <1>1, <1>3
<1>4. ASSUME NEW u \in Threads, NEW c \in Copies, NEW from \in Peers \cup {Coord},
             Ingress(u, c, from)
      PROVE  FALSE
  <2>1. th[u].pc = "idle" /\ \E h : th' = [th EXCEPT ![u] = h]
    BY <1>4 DEF Ingress
  <2> QED
    BY <1>2, <2>1
<1>5. ASSUME NEW u \in Threads, NEW c \in Copies, NEW p \in Peers, StaleClaim(u, c, p)
      PROVE  FALSE
  <2>1. th[u].pc = "idle" /\ \E h : th' = [th EXCEPT ![u] = h]
    BY <1>5 DEF StaleClaim
  <2> QED
    BY <1>2, <2>1
<1>6. ASSUME NEW u \in Threads, Commit(u) \/ Register(u), u # t PROVE FALSE
  <2>1. CASE Commit(u)
    BY <1>1, <1>6, <2>1 DEF Commit
  <2>2. CASE Register(u)
    BY <1>3, <1>6, <2>2 DEF Register
  <2> QED
    BY <1>6, <2>1, <2>2
<1>7. ASSUME NEW u \in Threads,
             \/ Ending(u) \/ LookupMemo(u) \/ ClaimDerivation(u) \/ Derive(u)
             \/ LookupAgain(u) \/ Confirm(u) \/ StaleFinish(u)
      PROVE  FALSE
  <2>1. th[u].pc \in {"lookup", "claim", "kdf", "relookup", "confirm", "staleKdf", "ending"}
    BY <1>7 DEF Ending, LookupMemo, ClaimDerivation, Derive, LookupAgain, Confirm, StaleFinish
  <2>2. u # t
    BY <2>1
  <2>3. th'[t] = th[t]
    <3>1. CASE Ending(u) \/ StaleFinish(u)
      BY <1>1, <2>2, <3>1 DEF Ending, StaleFinish
    <3>2. ASSUME NEW a, Finish(u, a) PROVE th'[t] = th[t]
      BY <1>1, <2>2, <3>2 DEF Finish
    <3>3. ASSUME Retry(u) PROVE th'[t] = th[t]
      BY <1>1, <2>2, <3>3 DEF Retry
    <3>4. ASSUME NEW pc, Follow(u, pc) PROVE th'[t] = th[t]
      BY <1>1, <2>2, <3>4 DEF Follow
    <3>5. CASE LookupMemo(u) \/ LookupAgain(u)
      BY <3>2, <3>3, <3>4, <3>5 DEF LookupMemo, LookupAgain, Answer
    <3>6. CASE Confirm(u)
      BY <3>2, <3>3, <3>6 DEF Confirm, Answer
    <3>7. CASE ClaimDerivation(u)
      <4>1. Retry(u) \/ th' = [th EXCEPT ![u].pc = "kdf"]
        BY <3>7 DEF ClaimDerivation
      <4> QED
        BY <1>1, <2>2, <3>3, <4>1
    <3>8. CASE Derive(u)
      <4>1. Answer(u) \/ th' = [th EXCEPT ![u].pc = "relookup"]
        BY <3>8 DEF Derive
      <4> QED
        BY <1>1, <2>2, <3>2, <4>1 DEF Answer
    <3> QED
      BY <1>7, <3>1, <3>5, <3>6, <3>7, <3>8
  <2> QED
    BY <2>3
<1>8. CASE PruneStore \/ LatchLockdown \/ TickMono
  BY <1>8 DEF PruneStore, LatchLockdown, TickMono
<1> QED
  BY <1>4, <1>5, <1>6, <1>7, <1>8 DEF Next, HandlerStep

\* What the second or the third hold forwards, it has marked ready.
LEMMA ForwardedIsReady ==
    ASSUME CarrierIInv, NEW t \in Threads, Commit(t) \/ Register(t),
           th[t].copy \in forwarded' \ forwarded
    PROVE  LET i == intent'[BodyOf(th[t].copy)] IN i.ready /\ Self \in i.holders
<1> USE DEF CarrierIInv, StoreInv, ArmInv, ClaimInv
<1> DEFINE b == BodyOf(th[t].copy)
<1>1. th[t].copy \in Copies /\ b \in Bodies
  <2>1. th[t].pc \in {"windowA", "windowB"}
    BY DEF Commit, Register
  <2> QED
    BY <2>1, Constants DEF HandlersInv, HandlerOK
<1>2. CASE Commit(t)
  <2>1. intent' = Marked(Recorded(t), b)
    BY <1>2 DEF Commit
  <2>2. ~ intent[b].present
    BY <1>2 DEF Commit, FreshInWindowA
  <2>3. Marked(Recorded(t), b)[b].ready /\ Marked(Recorded(t), b)[b].holders = {Self}
    BY <1>1, <2>2, CommitIntents
  <2> QED
    BY <2>1, <2>3
<1>3. CASE Register(t)
  <2>1. \/ intent' = Marked(PrunedIntents(intent), b)
        \/ intent' = Marked(intent, b)
    BY <1>3 DEF Register
  <2>2. intent[b].present /\ intent[b].ruling
    BY <1>3 DEF Register, RuledInWindowB
  <2>3. /\ PrunedIntents(intent)[b] = intent[b]
        /\ intent \in [Bodies -> IntentType] /\ PrunedIntents(intent) \in [Bodies -> IntentType]
    BY <1>1, <2>2, PruneFacts, TypeOf
  <2>4. Marked(intent, b)[b].ready /\ Self \in Marked(intent, b)[b].holders
    BY <1>1, <2>2, <2>3, MarkedFacts
  <2>5. /\ Marked(PrunedIntents(intent), b)[b].ready
        /\ Self \in Marked(PrunedIntents(intent), b)[b].holders
    BY <1>1, <2>2, <2>3, MarkedFacts
  <2> QED
    BY <2>1, <2>4, <2>5
<1> QED
  BY <1>2, <1>3

LEMMA NoHollow ==
    ASSUME CarrierIInv, [Next]_vars, NEW t \in Threads,
           th[t].pc \in {"windowA", "windowB"}, th'[t].pc = "ending",
           th[t].copy \in forwarded' \ forwarded
    PROVE  LET i == intent'[BodyOf(th[t].copy)] IN i.ready /\ Self \in i.holders
<1>1. Next
  BY DEF vars
<1> QED
  BY <1>1, WindowsEnd, ForwardedIsReady

-----------------------------------------------------------------------------
(* What is answered for good is counted.                                     *)

\* The memo of a body that can be counted.
LEMMA CountableMemo ==
    ASSUME CarrierIInv, NEW c \in Copies, Countable(intent[BodyOf(c)]),
           NEW m, m = memo[NonceOfCopy(c)]
    PROVE  /\ m.kind = "derived" /\ BodyOf(m.copy) = BodyOf(c) /\ m.copy \in Copies
           /\ NonceOfCopy(c) \in Nonces /\ ~ (m.deadline <= mono)
           /\ ExpiryOfCopy(m.copy) = ExpiryOfCopy(c)
           /\ Mentioned(m.copy, m.deadline)
           /\ intent[BodyOf(c)].present /\ IntentOK(intent[BodyOf(c)])
<1> USE DEF CarrierIInv, StoreInv, ArmInv, ClaimInv
<1> DEFINE b == BodyOf(c)
<1>1. b \in Bodies /\ NonceOfCopy(c) \in Nonces /\ NonceOf[b] = NonceOfCopy(c)
  BY Constants DEF NonceOfCopy
<1>2. intent[b].present /\ intent[b].deadline > mono
  BY DEF Countable
<1>3. m.kind = "derived" /\ BodyOf(m.copy) = b
  BY <1>1 DEF CountableHasMemo
<1>4. m.copy \in Copies /\ Mentioned(m.copy, m.deadline)
  BY <1>1, <1>3 DEF MemosInv, Mentioned, Memoized
<1>5. SameGeneration(BodyOf(m.copy), b)
  BY <1>3 DEF SameGeneration
<1>6. m.deadline = intent[b].deadline
  BY <1>1, <1>2, <1>4, <1>5, MentionFacts
<1>7. m.deadline \in Nat /\ mono \in Nat
  BY <1>1, TypeOf, Constants DEF LogTypes, MemoType
<1> HIDE DEF b
<1>8. ~ (m.deadline <= mono)
  BY <1>2, <1>6, <1>7
<1>9. IntentOK(intent[b])
  BY <1>1 DEF IntentsInv
<1> USE DEF b
<1> QED
  BY <1>1, <1>2, <1>3, <1>4, <1>8, <1>9 DEF ExpiryOfCopy

\* What carrier_memo_lookup answers for a copy whose body can be counted.
LEMMA LookupCountable ==
    ASSUME CarrierIInv, NEW c \in Copies, Countable(intent[BodyOf(c)]), NEW p, NEW now,
           NEW m, m = memo[NonceOfCopy(c)], p \notin intent[BodyOf(c)].holders
    PROVE  /\ Lookup(c, p, now) # "Vacant"
           /\ m.copy = c \/ m.resolved[p] = Tag(c) =>
                 Lookup(c, p, now) \notin {"Skip", "InFlight", "DeriveForConfirmation"}
           /\ Lookup(c, p, now) = "Skip" =>
                 m.resolved[p] # NoTag /\ m.resolved[p] \notin {Tag(c), Claim(c)}
<1> DEFINE i == intent[BodyOf(c)]
<1>1. /\ m.kind = "derived" /\ BodyOf(m.copy) = BodyOf(c)
      /\ ~ (m.deadline <= mono) /\ ExpiryOfCopy(m.copy) = ExpiryOfCopy(c)
      /\ i.present /\ IntentOK(i)
  BY CountableMemo
<1>2. RawExpiredRetry(i, p) \in {"AwaitingPropagation", "ClockRefused"}
  BY <1>1 DEF RawExpiredRetry, IntentOK
<1>3. ~ (m.kind = "none" \/ m.deadline <= mono \/ ExpiryOfCopy(m.copy) # ExpiryOfCopy(c))
  BY <1>1
<1>4. Lookup(c, p, now) =
         IF ~ (ExpiryOfCopy(c) <= now) /\ i.ruling /\ ~ i.ready THEN "AwaitingPropagation"
         ELSE IF m.copy = c \/ m.resolved[p] = Tag(c)
              THEN IF ExpiryOfCopy(c) <= now THEN RawExpiredRetry(i, p) ELSE "Exact"
         ELSE IF p \in i.holders THEN "Skip"
         ELSE IF m.resolved[p] = Claim(c) THEN "InFlight"
         ELSE IF m.resolved[p] # NoTag THEN "Skip"
         ELSE "DeriveForConfirmation"
  BY <1>1, <1>3 DEF Lookup
<1> QED
  BY <1>2, <1>4

\* A handler that derived, or derives, for a body that can be counted follows its memo.
LEMMA FollowsCountable ==
    ASSUME CarrierIInv, NEW t \in Threads, th[t].pc \in {"kdf", "relookup"},
           Countable(intent[BodyOf(th[t].copy)])
    PROVE  /\ Follows(t) /\ BodyOf(th[t].copy) = BodyOf(th[t].seen)
           /\ memo[NonceOfCopy(th[t].copy)].resolved[th[t].from] =
                 IF th[t].pc = "kdf" THEN Tag(th[t].seen) ELSE Tag(th[t].copy)
<1> USE DEF CarrierIInv, StoreInv, ArmInv, ClaimInv
<1> DEFINE c == th[t].copy
           m == memo[NonceOfCopy(c)]
<1>1. c \in Copies /\ SameGeneration(BodyOf(th[t].seen), BodyOf(c))
  BY DEF HandlersInv, HandlerOK, SeenSteps
<1>2. m.kind = "derived" /\ BodyOf(m.copy) = BodyOf(c) /\ Mentioned(m.copy, m.deadline)
  BY <1>1, CountableMemo
<1>3. Mentioned(th[t].seen, th[t].seenDeadline)
  BY DEF Mentioned, Seen, SeenSteps
<1>4. m.copy = th[t].seen /\ m.deadline = th[t].seenDeadline
  BY <1>1, <1>2, <1>3, MentionFacts
<1>5. Follows(t)
  BY <1>2, <1>4 DEF Follows
<1> QED
  BY <1>2, <1>4, <1>5 DEF SlotInv

\* The steps that answer for good are those of the receipt path, and they answer their
\* own sender.
LEMMA AnswersOwnSender ==
    ASSUME CarrierIInv, NEW t \in Threads, th[t].pc \notin SignSteps \cup {"idle"},
           NEW a \in {"answered", "skipped"}, Finish(t, a),
           NEW p \in Peers, NEW c \in Copies, relay'[p][c] # relay[p][c]
    PROVE  /\ th[t].from = p /\ th[t].copy = c
           /\ \A u \in Threads \ {t} : th'[u] = th[u]
<1> USE DEF CarrierIInv, StoreInv, ArmInv, ClaimInv
<1>1. th[t].copy \in Copies /\ th[t].from \in Peers
  BY DEF HandlersInv, HandlerOK
<1>2. th' = [th EXCEPT ![t] = Idle] /\ relay' = [relay EXCEPT ![th[t].from][th[t].copy] = a]
  BY DEF Finish
<1>3. \A q \in Peers, x \in Copies : ~ (q = th[t].from /\ x = th[t].copy) =>
          relay'[q][x] = relay[q][x]
  BY <1>1, <1>2, RelayFacts
<1>4. \A u \in Threads \ {t} : th'[u] = th[u]
  BY <1>2, TypeOf
<1> QED
  BY <1>3, <1>4

\* The delivery of copy c by the honest relay p is answered for good while its body can
\* be counted, and what NoSilentLoss says of it.
AnsweredForGood(p, c) ==
    /\ relay[p][c] \notin Final /\ relay'[p][c] \in Final
    /\ OnlyCopy(p, c) /\ ~ locked /\ Countable(intent'[BodyOf(c)])

NotLost(p, c) == p \in intent'[BodyOf(c)].holders \/ BeingConfirmed(p, c)'

LEMMA LookupLosesNothing ==
    ASSUME CarrierIInv, NEW t \in Threads, LookupMemo(t) \/ LookupAgain(t),
           NEW p \in Peers, NEW c \in Copies, AnsweredForGood(p, c)
    PROVE  NotLost(p, c)
<1> USE DEF CarrierIInv, StoreInv, ArmInv, ClaimInv
<1> SUFFICES ASSUME p \notin intent'[BodyOf(c)].holders PROVE BeingConfirmed(p, c)'
  BY DEF NotLost
<1>1. intent' = intent /\ th[t].pc \in {"lookup", "relookup"} /\ ~ locked
      /\ relay'[p][c] # relay[p][c]
  BY DEF LookupMemo, LookupAgain, storeVars, AnsweredForGood
<1>2. PICK now \in Time :
         /\ Answer(t) \/ Finish(t, "skipped")
         /\ \/ th[t].pc = "lookup" /\ Lookup(th[t].copy, th[t].from, now) \in {"Vacant", "Skip"}
            \/ /\ th[t].pc = "relookup"
               /\ Lookup(th[t].copy, th[t].from, now)
                     \in {"Vacant", "Skip", "InFlight", "DeriveForConfirmation"}
  BY <1>1 DEF LookupMemo, LookupAgain, Follow, Retry
<1>3. /\ th[t].from = p /\ th[t].copy = c
      /\ \A u \in Threads \ {t} : th'[u] = th[u]
  BY <1>1, <1>2, AnswersOwnSender DEF Answer, SignSteps
<1> DEFINE n == NonceOfCopy(c)
           m == memo[n]
<1>4. Countable(intent[BodyOf(c)]) /\ OnlyCopy(p, c)
  BY <1>1 DEF AnsweredForGood, Countable
<1>5. /\ Lookup(c, p, now) # "Vacant"
      /\ m.copy = c \/ m.resolved[p] = Tag(c) =>
            Lookup(c, p, now) \notin {"Skip", "InFlight", "DeriveForConfirmation"}
      /\ Lookup(c, p, now) = "Skip" =>
            m.resolved[p] # NoTag /\ m.resolved[p] \notin {Tag(c), Claim(c)}
  BY <1>1, <1>4, LookupCountable
<1>6. th[t].pc # "relookup"
  <2> SUFFICES ASSUME th[t].pc = "relookup" PROVE FALSE
    OBVIOUS
  <2>1. m.resolved[p] = Tag(c)
    BY <1>3, <1>4, FollowsCountable
  <2> HIDE DEF m
  <2> QED
    BY <1>2, <1>3, <1>5, <2>1
<1>7. m.resolved[p] # NoTag /\ m.resolved[p] \notin {Tag(c), Claim(c)}
  BY <1>1, <1>2, <1>3, <1>5, <1>6
<1>8. m.kind = "derived" /\ BodyOf(m.copy) = BodyOf(c) /\ n \in Nonces
  BY <1>4, CountableMemo
<1>9. PICK x \in Copies :
         /\ NonceOfCopy(x) = n /\ relay[p][x] # "none"
         /\ \/ m.resolved[p] \in {Tag(x), Claim(x)}
            \/ /\ m.resolved[p] = Tag(m.copy)
               /\ \/ BodyOf(x) # BodyOf(m.copy)
                  \/ \E u \in Threads : Deriving(u, p, x, m)
  BY <1>7, <1>8 DEF TagsInv
<1>10. x = c
  BY <1>4, <1>9 DEF OnlyCopy
<1>11. PICK u \in Threads : Deriving(u, p, c, m)
  BY <1>7, <1>8, <1>9, <1>10
<1>12. th[u].pc = "kdf" /\ th[u].from = p /\ th[u].copy = c /\ th'[u] = th[u]
  BY <1>1, <1>3, <1>11 DEF Deriving
<1> QED
  BY <1>12 DEF BeingConfirmed

LEMMA DeriveLosesNothing ==
    ASSUME CarrierIInv, NEW t \in Threads, Derive(t),
           NEW p \in Peers, NEW c \in Copies, AnsweredForGood(p, c)
    PROVE  FALSE
<1>1. /\ intent' = intent /\ th[t].pc = "kdf" /\ relay'[p][c] # relay[p][c]
  BY DEF Derive, AnsweredForGood
<1>2. /\ Answer(t)
      /\ ~ (/\ SameCarrier(th[t].copy, th[t].seen) /\ Follows(t)
            /\ memo[NonceOfCopy(th[t].copy)].resolved[th[t].from] = Tag(th[t].seen))
  BY <1>1 DEF Derive, Follows
<1>3. th[t].from = p /\ th[t].copy = c
  BY <1>1, <1>2, AnswersOwnSender DEF Answer, SignSteps
<1>4. Countable(intent[BodyOf(c)])
  BY <1>1 DEF AnsweredForGood, Countable
<1> QED
  BY <1>1, <1>2, <1>3, <1>4, FollowsCountable DEF SameCarrier

LEMMA ConfirmLosesNothing ==
    ASSUME CarrierIInv, NEW t \in Threads, Confirm(t),
           NEW p \in Peers, NEW c \in Copies, AnsweredForGood(p, c)
    PROVE  NotLost(p, c)
<1> USE DEF CarrierIInv, StoreInv, ArmInv, ClaimInv
<1> DEFINE b == BodyOf(th[t].seen)
           i == intent[b]
           holders == i.holders \cup {th[t].from}
           counts == i.ready /\ th[t].from \notin i.holders /\ i.deadline > mono
<1>1. th[t].pc = "confirm" /\ relay'[p][c] # relay[p][c]
  BY DEF Confirm, AnsweredForGood
<1>2. /\ Answer(t)
      /\ \/ ~ counts /\ UNCHANGED storeVars
         \/ intent' = [intent EXCEPT ![b] = IF Quorum(holders) THEN NoIntent
                                            ELSE [@ EXCEPT !.holders = holders]]
  BY <1>1 DEF Confirm, Retry
<1>3. th[t].from = p /\ th[t].copy = c
  BY <1>1, <1>2, AnswersOwnSender DEF Answer, SignSteps
<1>4. BodyOf(c) = b /\ b \in Bodies
  BY <1>1, <1>3, Constants DEF HandlersInv, HandlerOK
<1>5. intent'[b].present /\ intent'[b].deadline > mono
  BY <1>4 DEF AnsweredForGood, Countable
<1>6. CASE ~ counts /\ UNCHANGED storeVars
  <2>1. i.present /\ i.deadline > mono /\ intent' = intent
    BY <1>5, <1>6 DEF storeVars
  <2>2. i.ready
    BY <1>1, <2>1 DEF ConfirmedIsReady
  <2> QED
    BY <1>3, <1>4, <1>6, <2>1, <2>2 DEF NotLost
<1>7. CASE intent' = [intent EXCEPT ![b] = IF Quorum(holders) THEN NoIntent
                                           ELSE [@ EXCEPT !.holders = holders]]
  <2>1. intent \in [Bodies -> IntentType] /\ i \in IntentType
    BY <1>4, TypeOf
  <2>2. intent'[b] = IF Quorum(holders) THEN NoIntent ELSE [i EXCEPT !.holders = holders]
    BY <1>4, <1>7, <2>1
  <2>3. intent'[b] = [i EXCEPT !.holders = holders]
    BY <1>5, <2>2, Defaults
  <2>4. intent'[b].holders = holders
    <3> HIDE DEF holders
    <3> QED
      BY <2>1, <2>3 DEF IntentType
  <2> QED
    BY <1>3, <1>4, <2>4 DEF NotLost
<1> QED
  BY <1>2, <1>6, <1>7

LEMMA NoLoss ==
    ASSUME CarrierIInv, [Next]_vars, NEW p \in Peers, NEW c \in Copies, AnsweredForGood(p, c)
    PROVE  NotLost(p, c)
<1>1. relay'[p][c] # relay[p][c] /\ relay'[p][c] \in Final
  BY DEF AnsweredForGood
<1>2. Next
  BY <1>1 DEF vars
<1>3. ASSUME NEW t \in Threads, NEW x \in Copies, NEW from \in Peers \cup {Coord},
             relay' = Delivered(x, from)
      PROVE  FALSE
  <2>1. relay \in [Peers -> [Copies -> Answers]]
    BY TypeOf DEF CarrierIInv, ArmInv
  <2>2. relay'[p][c] \in {relay[p][c], "delivered"}
    BY <1>3, <2>1 DEF Delivered
  <2> QED
    BY <1>1, <2>2 DEF Final
<1>4. ASSUME NEW t \in Threads, HandlerStep(t)
      PROVE  NotLost(p, c)
  <2>1. CASE Commit(t) \/ Register(t) \/ Ending(t) \/ StaleFinish(t) \/ ClaimDerivation(t)
    BY <1>1, <2>1 DEF Commit, Register, Ending, StaleFinish, ClaimDerivation, Retry
  <2> QED
    BY <1>4, <2>1, LookupLosesNothing, DeriveLosesNothing, ConfirmLosesNothing
       DEF HandlerStep
<1>5. CASE PruneStore \/ LatchLockdown \/ TickMono
  BY <1>1, <1>5 DEF PruneStore, LatchLockdown, TickMono
<1>6. ASSUME NEW t \in Threads, NEW x \in Copies, NEW from \in Peers \cup {Coord},
             Ingress(t, x, from)
      PROVE  FALSE
  BY <1>3, <1>6 DEF Ingress
<1>7. ASSUME NEW t \in Threads, NEW x \in Copies, NEW q \in Peers, StaleClaim(t, x, q)
      PROVE  FALSE
  BY <1>3, <1>7 DEF StaleClaim
<1> QED
  BY <1>2, <1>4, <1>5, <1>6, <1>7 DEF Next

\* For any peers, threads and interleaving of the handlers: a handler never forwards a
\* carrier it can not count, and an honest relay that is answered for good while its
\* carrier can be counted has been counted, or is being confirmed by another handler
\* (mark_carrier_propagated, carrier_memo_lookup, confirm_carrier).
THEOREM RelayKeptHolds == Spec => RelayKept
<1>1. CarrierIInv /\ [Next]_vars =>
        [\A t \in Threads :
          LET b == BodyOf(th[t].copy) IN
          /\ th[t].pc \in {"windowA", "windowB"}
          /\ th'[t].pc = "ending"
          /\ th[t].copy \in forwarded' \ forwarded
          => intent'[b].ready /\ Self \in intent'[b].holders]_vars
  BY NoHollow
<1>2. CarrierIInv /\ [Next]_vars =>
        [\A p \in Peers, c \in Copies :
          LET i == intent'[BodyOf(c)] IN
          /\ relay[p][c] \notin Final /\ relay'[p][c] \in Final
          /\ OnlyCopy(p, c) /\ ~ locked /\ Countable(i)
          => p \in i.holders \/ BeingConfirmed(p, c)']_vars
  BY NoLoss DEF AnsweredForGood, NotLost
<1>3. Spec => NoHollowCarrier
  BY <1>1, CarrierInductive, PTL DEF Spec, NoHollowCarrier
<1>4. Spec => NoSilentLoss
  BY <1>2, CarrierInductive, PTL DEF Spec, NoSilentLoss
<1> QED
  BY <1>3, <1>4 DEF RelayKept

=============================================================================
