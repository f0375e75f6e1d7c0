---------------------------- MODULE CarrierNode ----------------------------
(***************************************************************************)
(* The holder decision of one vault node: from the moment a coordinator-   *)
(* signed Spend arrives, on /sign or relayed by a peer on /channel, to the *)
(* moment the node has counted `Threshold` holders of it and, if its PIN   *)
(* was the duress PIN, arms.  vault-node/src/lib.rs has the handlers and   *)
(* channel.rs the store they share.                                        *)
(*                                                                         *)
(* A handler runs on a thread of its own and gives its locks up several    *)
(* times: to evaluate the PIN and derive the carrier id (window A), to     *)
(* fetch prevouts (window B), and again between every store call of the    *)
(* receipt path.  Each action below is what a handler does under one hold  *)
(* of sign_state or, on the receipt path, of the store lock; threads       *)
(* interleave between them, and the wall clock is read afresh (`now`, any  *)
(* reading) in each.                                                       *)
(*                                                                         *)
(* A body is the signed request without its signature.  Its carrier id is  *)
(* a key derivation of that body, so bodies stand for carrier ids; a copy  *)
(* is a body with one of the coordinator's signatures over it, and the     *)
(* signature tag identifies the copy.  The canonical body includes nonce,  *)
(* expiry and PIN, so these are functions of it.                           *)
(*                                                                         *)
(* The PIN budget, the candidate registry and the transaction checks       *)
(* appear as a choice of outcome.                                          *)
(***************************************************************************)
EXTENDS Integers, FiniteSets

CONSTANTS
    Bodies, Copies,      \* Copies is a set of pairs <<body, signature>>
    NonceOf, ExpiryOf,   \* what each body carries
    DuressBodies,        \* bodies whose PIN verifies as the duress PIN
    Peers, Self,         \* manifest ids of the other nodes, and our own
    Coord,               \* the sender of a /sign request
    Threshold,           \* t, the holders a decision needs
    Threads,             \* handler threads
    Horizon,             \* delivery_horizon_secs
    NoCopy,              \* "no copy"
    MaxAge, MaxCoordNonces, U64Max

Nonces == {NonceOf[b] : b \in Bodies}

ASSUME CarrierAssumption ==
    /\ \A c \in Copies : c[1] \in Bodies
    /\ NoCopy \notin Copies
    /\ ExpiryOf \in [Bodies -> 1 .. U64Max]
    /\ Self \notin Peers /\ Coord \notin Peers /\ IsFiniteSet(Peers)
    /\ Threshold \in Nat \ {0}
    /\ Horizon \in Nat \ {0}
    /\ MaxAge \in Nat \ {0} /\ MaxCoordNonces \in Nat \ {0} /\ U64Max \in Nat

VARIABLES
    mono, entries, highWater, accepts,   \* the nonce log (see NonceLog)
    memo,      \* PartialStore.carriers_by_nonce
    intent,    \* PartialStore.intents
    th,        \* the handlers
    armed,     \* PartialStore.armed.active
    locked,    \* Node.lockdown
    forwarded, \* history: copies pushed to the outbox, for fan-out to all peers
    relay      \* history: what each peer knows of its delivery of each copy

logVars   == <<entries, highWater, accepts>>
storeVars == <<memo, intent, armed>>
vars == <<mono, logVars, storeVars, th, locked, forwarded, relay>>

\* A node with a channel: every Spend it accepts fixes a Carrier deadline.
Log == INSTANCE NonceLog WITH ChannelMode <- TRUE, MalformedNonces <- {}

Time == Log!Time
BodyOf(c) == c[1]

NoTag    == [claim |-> FALSE, copy |-> NoCopy]
Tag(c)   == [claim |-> FALSE, copy |-> c]
Claim(c) == [claim |-> TRUE,  copy |-> c]    \* OUTER_STALE_CLAIM_TAG

\* CarrierMemo.  The memo of an accepted copy; `copy` is at once its signature
\* tag, its carrier (BodyOf) and its expiry (ExpiryOf).
NoMemo == [kind |-> "none", copy |-> NoCopy, deadline |-> 0,
           resolved |-> [p \in Peers |-> NoTag]]
MemoOf(kind, c, d) == [NoMemo EXCEPT !.kind = kind, !.copy = c, !.deadline = d]

\* ArmIntent.  `committed` is set only in the store hold that also retires the
\* intent, so no step ever reads it set; duress is b \in DuressBodies.
NoIntent == [present |-> FALSE, holders |-> {}, ready |-> FALSE,
             ruling |-> FALSE, deadline |-> 0]

Idle == [pc |-> "idle", copy |-> NoCopy, from |-> Coord, deadline |-> 0,
         owns |-> FALSE, rules |-> FALSE, seen |-> NoCopy, seenDeadline |-> 0]

NonceOfCopy(c)  == NonceOf[BodyOf(c)]
ExpiryOfCopy(c) == ExpiryOf[BodyOf(c)]

-----------------------------------------------------------------------------
(* The store.                                                                *)

\* prune_carriers: a deadline ends an intent and a memo, except while the
\* handler that owns it still rules on it.
PrunedIntents(i) == [b \in Bodies |->
    IF i[b].deadline > mono \/ i[b].ruling THEN i[b] ELSE NoIntent]

\* Mutant: an in-flight claim ends with its deadline.
PrunedMemosByDeadline(m, i) == [n \in Nonces |->
    IF m[n].deadline > mono THEN m[n] ELSE NoMemo]

PrunedMemos(m, i) == [n \in Nonces |->
    IF \/ m[n].deadline > mono
       \/ m[n].kind = "inflight"
       \/ m[n].kind = "derived" /\ i[BodyOf(m[n].copy)].ruling
    THEN m[n] ELSE NoMemo]

\* retire_carrier
WithoutCarrier(m, b) == [n \in Nonces |->
    IF m[n].kind = "derived" /\ BodyOf(m[n].copy) = b THEN NoMemo ELSE m[n]]

\* matches_generation: the in-flight claim of exactly this handler.
OwnClaim(t) ==
    LET m == memo[NonceOfCopy(th[t].copy)] IN
    m.kind = "inflight" /\ m.copy = th[t].copy /\ m.deadline = th[t].deadline

\* mark_carrier_propagated finds the carrier's intent, if it is there.
Marked(i, b) ==
    IF i[b].present
    THEN [i EXCEPT ![b].ready = TRUE, ![b].holders = @ \cup {Self}]
    ELSE i

\* The fire driver and /refresh prune the store at their own times.
PruneStore ==
    /\ intent' = PrunedIntents(intent)
    /\ memo' = PrunedMemos(memo, intent')
    /\ UNCHANGED <<mono, logVars, armed, th, locked, forwarded, relay>>

-----------------------------------------------------------------------------
(* The /sign handler (handle_sign_after_lock).                               *)

\* ensure_delivery_horizon
TooShort(e, at) == e < Log!SaturatingAdd(at, Horizon)

\* What the handler has left to do when /sign returns: a relayed request goes
\* on to the receipt path.
Returned(h) ==
    IF h.from \in Peers
    THEN [Idle EXCEPT !.pc = "lookup", !.copy = h.copy, !.from = h.from]
    ELSE Idle

Delivered(c, from) ==
    IF from \in Peers
    THEN [relay EXCEPT ![from][c] = "delivered"]
    ELSE relay

\* The first hold of sign_state: authenticate, spend the nonce, apply the
\* delivery horizon and claim the nonce.  A horizon refusal still forwards.
\* Requests too large to relay are refused in between and are left out.
Ingress(t, c, from) ==
    /\ th[t].pc = "idle"
    /\ relay' = Delivered(c, from)
    /\ \E now \in Time :
         LET n == NonceOfCopy(c)
             e == ExpiryOfCopy(c)
             h == [Idle EXCEPT !.copy = c, !.from = from]
             refused == locked \/ Log!Refusal(n, e, now, TRUE) # "None"
         IN
         \/ /\ refused
            /\ th' = [th EXCEPT ![t] = Returned(h)]
            /\ UNCHANGED <<logVars, storeVars, forwarded>>
         \/ /\ ~ refused
            /\ Log!Record(n, e, now, TRUE)
            /\ IF TooShort(e, IF highWater' > now THEN highWater' ELSE now)
               THEN /\ forwarded' = forwarded \cup {c}
                    /\ th' = [th EXCEPT ![t] = Returned(h)]
                    /\ UNCHANGED storeVars
               ELSE LET d == entries'[n].deadline IN
                    /\ intent' = PrunedIntents(intent)
                    /\ memo' = [PrunedMemos(memo, intent') EXCEPT
                                   ![n] = MemoOf("inflight", c, d)]
                    /\ th' = [th EXCEPT ![t] =
                                [h EXCEPT !.pc = "windowA", !.deadline = d,
                                          !.owns = TRUE]]
                    /\ UNCHANGED <<armed, forwarded>>
    /\ UNCHANGED <<mono, locked>>

\* The clock refusals shared by the second and the third hold.
ClockRefuses(e, now) ==
    \/ e <= Log!EffectiveNow(now)
    \/ ~ Log!WithinAge(e, now)
    \/ TooShort(e, Log!EffectiveNow(now))

\* record_arm_intent, the intent half
Recorded(t) ==
    LET b == BodyOf(th[t].copy) IN
    [intent EXCEPT ![b] =
        IF intent[b].present THEN [@ EXCEPT !.ruling = TRUE]
        ELSE [NoIntent EXCEPT !.present = TRUE, !.ruling = TRUE,
                              !.deadline = th[t].deadline]]

\* record_arm_intent, the memo half: Upgraded or Reinstalled, or Superseded by
\* the claim of a newer generation.
Upgrades(t) == OwnClaim(t) \/ memo[NonceOfCopy(th[t].copy)].kind = "none"

\* The second hold, after the PIN verdict and the carrier id: record the arm
\* intent, then refuse by clock or PIN budget (staging the carrier all the
\* same) or go on to the prevout fetch.
Commit(t) ==
    /\ th[t].pc = "windowA"
    /\ LET c == th[t].copy
           b == BodyOf(c)
       IN
       IF locked
       THEN /\ th' = [th EXCEPT ![t].pc = "ending"]
            /\ UNCHANGED <<storeVars, forwarded>>
       ELSE \E now \in Time, pinRefuses \in BOOLEAN :
            LET stops == ClockRefuses(ExpiryOf[b], now) \/ pinRefuses IN
            /\ intent' = IF stops THEN Marked(Recorded(t), b) ELSE Recorded(t)
            /\ memo' = IF Upgrades(t)
                       THEN [memo EXCEPT ![NonceOf[b]] =
                                MemoOf("derived", c, th[t].deadline)]
                       ELSE memo
            /\ forwarded' = IF stops THEN forwarded \cup {c} ELSE forwarded
            /\ th' = [th EXCEPT
                        ![t].pc = IF stops THEN "ending" ELSE "windowB",
                        ![t].owns = @ /\ ~ Upgrades(t),
                        ![t].rules = TRUE]
            /\ UNCHANGED armed
    /\ UNCHANGED <<mono, logVars, locked, relay>>

\* The third hold, after the prevout fetch.  Clock refusals, prevout failures,
\* Hot-budget refusals, cached verdicts and success stage the carrier; decode
\* errors and the federation-uniform policy refusals end without staging it.
\* The store is pruned on the way unless an earlier check returned.
Register(t) ==
    /\ th[t].pc = "windowB"
    /\ LET b == BodyOf(th[t].copy) IN
       IF locked
       THEN UNCHANGED <<storeVars, forwarded>>
       ELSE \E now \in Time, staged, prunes \in BOOLEAN :
            LET kept == IF prunes THEN PrunedIntents(intent) ELSE intent IN
            /\ ClockRefuses(ExpiryOf[b], now) => staged /\ ~ prunes
            /\ memo' = IF prunes THEN PrunedMemos(memo, kept) ELSE memo
            /\ intent' = IF staged THEN Marked(kept, b) ELSE kept
            /\ forwarded' = IF staged THEN forwarded \cup {th[t].copy}
                            ELSE forwarded
            /\ UNCHANGED armed
    /\ th' = [th EXCEPT ![t].pc = "ending"]
    /\ UNCHANGED <<mono, logVars, locked, relay>>

\* Mutant: the claim is never given up.
ClaimKept(t) == memo

\* release_nonce_claim
ReleasedMemos(t) ==
    IF th[t].owns /\ OwnClaim(t)
    THEN [memo EXCEPT ![NonceOfCopy(th[t].copy)] = NoMemo] ELSE memo

\* Mutant: the ruling bit is cleared and the unstaged intent left behind.
RulingLeftBehind(i) == FALSE

\* end_carrier_ruling retires what the handler did not stage, or staged too
\* late for its deadline.
RulingRetires(i) == ~ i.ready \/ i.deadline <= mono

\* InFlightMemoGuard::drop, after sign_state was released: release_nonce_claim,
\* then end_carrier_ruling.
Ending(t) ==
    /\ th[t].pc = "ending"
    /\ LET b == BodyOf(th[t].copy)
           released == ReleasedMemos(t)
           ends == th[t].rules /\ intent[b].present
       IN
       IF ends /\ RulingRetires(intent[b])
       THEN /\ intent' = [intent EXCEPT ![b] = NoIntent]
            /\ memo' = WithoutCarrier(released, b)
       ELSE /\ intent' = IF ends THEN [intent EXCEPT ![b].ruling = FALSE]
                         ELSE intent
            /\ memo' = released
    /\ th' = [th EXCEPT ![t] = Returned(th[t])]
    /\ UNCHANGED <<mono, logVars, armed, locked, forwarded, relay>>

-----------------------------------------------------------------------------
(* The receipt path of a relayed Spend (handle_channel_body_with_clocks).    *)
(* ACCEPTED and REJECTED end the sender's retry loop; RATE_LIMITED does not. *)

\* A final answer; the model lets a peer deliver again all the same.
Finish(t, answer) ==
    /\ th' = [th EXCEPT ![t] = Idle]
    /\ relay' = [relay EXCEPT ![th[t].from][th[t].copy] = answer]

Answer(t) == Finish(t, "answered")

Retry(t) == th' = [th EXCEPT ![t] = Idle] /\ UNCHANGED relay

\* raw_expired_retry
RawExpiredRetry(i, p) ==
    IF ~ i.present \/ p \in i.holders THEN "Vacant"
    ELSE IF i.ruling /\ ~ i.ready THEN "AwaitingPropagation"
    ELSE IF i.ready THEN "ClockRefused"
    ELSE "Vacant"

\* carrier_memo_lookup
Lookup(c, p, now) ==
    LET m == memo[NonceOfCopy(c)]
        i == intent[BodyOf(m.copy)]
        rawExpired == ExpiryOfCopy(c) <= now
        resolved == m.resolved[p]
    IN
    IF \/ m.kind = "none"
       \/ m.deadline <= mono
       \/ ExpiryOfCopy(m.copy) # ExpiryOfCopy(c)     THEN "Vacant"
    ELSE IF m.kind = "inflight"                      THEN "InFlight"
    ELSE IF ~ rawExpired /\ i.ruling /\ ~ i.ready    THEN "AwaitingPropagation"
    ELSE IF m.copy = c \/ resolved = Tag(c)
         THEN IF rawExpired THEN RawExpiredRetry(i, p) ELSE "Exact"
    ELSE IF p \in i.holders                          THEN "Skip"
    ELSE IF resolved = Claim(c)                      THEN "InFlight"
    ELSE IF resolved # NoTag                         THEN "Skip"
    ELSE "DeriveForConfirmation"

\* Go on with the memo the lookup returned.
Follow(t, pc) ==
    LET m == memo[NonceOfCopy(th[t].copy)] IN
    /\ th' = [th EXCEPT ![t].pc = pc, ![t].seen = m.copy,
                        ![t].seenDeadline = m.deadline]
    /\ UNCHANGED relay

Retriable == {"InFlight", "AwaitingPropagation", "ClockRefused"}

\* The first lookup; a locked-down node answers without one.
LookupMemo(t) ==
    /\ th[t].pc = "lookup"
    /\ \E now \in Time :
         LET found == Lookup(th[t].copy, th[t].from, now) IN
         \/ (locked \/ found = "Vacant") /\ Answer(t)
         \/ ~ locked /\ found = "Skip" /\ Finish(t, "skipped")
         \/ ~ locked /\ found \in Retriable /\ Retry(t)
         \/ ~ locked /\ found = "Exact" /\ Follow(t, "confirm")
         \/ ~ locked /\ found = "DeriveForConfirmation" /\ Follow(t, "claim")
    /\ UNCHANGED <<mono, logVars, storeVars, locked, forwarded>>

\* The one KDF slot: held by a derivation of the receipt path, and for a time
\* by a handler evaluating its PIN.
SlotTaken == \E t \in Threads : th[t].pc \in {"kdf", "staleKdf"}
SlotContended == SlotTaken \/ \E t \in Threads : th[t].pc = "windowA"

\* claim_carrier_derivation: each sender has one derivation per memo.
Claimable(c, p, b) ==
    LET m == memo[NonceOfCopy(c)] IN
    /\ intent[b].present /\ p \notin intent[b].holders
    /\ m.kind = "derived" /\ BodyOf(m.copy) = b
    /\ m.resolved[p] = NoTag

ClaimDerivation(t) ==
    LET c == th[t].copy
        n == NonceOfCopy(c)
        p == th[t].from
    IN
    /\ th[t].pc = "claim"
    /\ \/ /\ SlotContended
          /\ Retry(t)
          /\ UNCHANGED memo
       \/ /\ ~ SlotTaken
          /\ IF Claimable(c, p, BodyOf(th[t].seen))
             THEN /\ memo' = [memo EXCEPT ![n].resolved[p] = Tag(memo[n].copy)]
                  /\ th' = [th EXCEPT ![t].pc = "kdf"]
                  /\ UNCHANGED relay
             ELSE Retry(t) /\ UNCHANGED memo
    /\ UNCHANGED <<mono, logVars, intent, armed, locked, forwarded>>

\* Mutant: whatever was derived is taken for the memoized carrier.
AnyCarrier(c, seen) == TRUE

\* The derived carrier id equals the memoized one.
SameCarrier(c, seen) == BodyOf(c) = BodyOf(seen)

\* The derivation ends: record_carrier_derivation_result.
Derive(t) ==
    LET c == th[t].copy
        n == NonceOfCopy(c)
        p == th[t].from
        m == memo[n]
    IN
    /\ th[t].pc = "kdf"
    /\ IF /\ SameCarrier(c, th[t].seen)
          /\ m.kind = "derived"
          /\ m.copy = th[t].seen /\ m.deadline = th[t].seenDeadline
          /\ m.resolved[p] = Tag(th[t].seen)
       THEN /\ memo' = [memo EXCEPT ![n].resolved[p] = Tag(c)]
            /\ th' = [th EXCEPT ![t].pc = "relookup"]
            /\ UNCHANGED relay
       ELSE Answer(t) /\ UNCHANGED memo
    /\ UNCHANGED <<mono, logVars, intent, armed, locked, forwarded>>

\* The second lookup.
LookupAgain(t) ==
    /\ th[t].pc = "relookup"
    /\ \E now \in Time :
         LET found == Lookup(th[t].copy, th[t].from, now) IN
         \/ found = "Exact" /\ Follow(t, "confirm")
         \/ found \in {"AwaitingPropagation", "ClockRefused"} /\ Retry(t)
         \/ /\ found \in {"Vacant", "Skip", "InFlight", "DeriveForConfirmation"}
            /\ Answer(t)
    /\ UNCHANGED <<mono, logVars, storeVars, locked, forwarded>>

\* The expiry test of confirm_carrier, under sign_state.
WithinExpiry(b, now) == ExpiryOf[b] > Log!EffectiveNow(now)

\* Mutant: one holder short.
OneShort(holders) == Cardinality(holders) + 1 >= Threshold

Quorum(holders) == Cardinality(holders) >= Threshold

\* confirm_carrier: count the sender; at Threshold commit the decision.
Confirm(t) ==
    LET p == th[t].from
        b == BodyOf(th[t].seen)
        i == intent[b]
        holders == i.holders \cup {p}
        counts == i.ready /\ p \notin i.holders /\ i.deadline > mono
        quorum == Quorum(holders)
    IN
    /\ th[t].pc = "confirm"
    /\ \E now \in Time :
         \/ /\ ~ counts
            /\ Answer(t)
            /\ UNCHANGED storeVars
         \/ /\ counts /\ ~ WithinExpiry(b, now)
            /\ Retry(t)
            /\ UNCHANGED storeVars
         \/ /\ counts /\ WithinExpiry(b, now)
            /\ Answer(t)
            /\ intent' = [intent EXCEPT ![b] =
                            IF quorum THEN NoIntent
                            ELSE [@ EXCEPT !.holders = holders]]
            /\ memo' = IF quorum THEN WithoutCarrier(memo, b) ELSE memo
            /\ armed' = (armed \/ (quorum /\ b \in DuressBodies))
    /\ UNCHANGED <<mono, logVars, locked, forwarded>>

-----------------------------------------------------------------------------
(* An envelope whose own timestamp is stale counts nothing, but may resolve  *)
(* its signature, so that a fresh envelope confirms without a derivation     *)
(* (handle_outer_stale_spend, outer_stale_carrier).                          *)

\* The memo is of this copy's nonce generation, as the nonce log has it.
StaleMatches(c) ==
    LET m == memo[NonceOfCopy(c)]
        d == Log!OuterStaleCarrierDeadline(NonceOfCopy(c), ExpiryOfCopy(c))
    IN
    /\ d > mono
    /\ m.kind = "derived" /\ m.deadline = d
    /\ ExpiryOfCopy(m.copy) = ExpiryOfCopy(c)

\* Inspect: the receipt may spend the sender's derivation.  Every other verdict
\* only answers.
StaleDerives(c, p, now) ==
    LET m == memo[NonceOfCopy(c)]
        i == intent[BodyOf(m.copy)]
    IN
    /\ StaleMatches(c)
    /\ ExpiryOfCopy(c) > now
    /\ i.present /\ i.deadline = m.deadline
    /\ p \notin i.holders
    /\ i.ready
    /\ m.copy # c /\ m.resolved[p] = NoTag

StaleClaim(t, c, p) ==
    /\ th[t].pc = "idle"
    /\ ~ locked
    /\ ~ SlotTaken
    /\ \E now \in Time : StaleDerives(c, p, now)
    /\ LET n == NonceOfCopy(c) IN
       /\ memo' = [memo EXCEPT ![n].resolved[p] = Claim(c)]
       /\ th' = [th EXCEPT ![t] =
                   [Idle EXCEPT !.pc = "staleKdf", !.copy = c, !.from = p,
                                !.seen = memo[n].copy,
                                !.seenDeadline = memo[n].deadline]]
    /\ relay' = Delivered(c, p)
    /\ UNCHANGED <<mono, logVars, intent, armed, locked, forwarded>>

\* Finish: settle the claim if the memo is still the one it was made on.
StaleFinish(t) ==
    LET c == th[t].copy
        n == NonceOfCopy(c)
        p == th[t].from
        m == memo[n]
        settled == IF SameCarrier(c, th[t].seen) THEN c ELSE m.copy
    IN
    /\ th[t].pc = "staleKdf"
    /\ memo' = IF /\ ~ locked
                  /\ StaleMatches(c)
                  /\ m.copy = th[t].seen /\ m.deadline = th[t].seenDeadline
                  /\ m.resolved[p] = Claim(c)
               THEN [memo EXCEPT ![n].resolved[p] = Tag(settled)]
               ELSE memo
    /\ th' = [th EXCEPT ![t] = Idle]
    /\ UNCHANGED <<mono, logVars, intent, armed, locked, forwarded, relay>>

-----------------------------------------------------------------------------

\* The fire driver latches Lockdown at T, some time after the arm.
LatchLockdown ==
    /\ armed /\ ~ locked
    /\ locked' = TRUE
    /\ UNCHANGED <<mono, logVars, storeVars, th, forwarded, relay>>

TickMono ==
    /\ Log!TickMono
    /\ UNCHANGED <<storeVars, th, locked, forwarded, relay>>

Init ==
    /\ Log!Init
    /\ memo = [n \in Nonces |-> NoMemo]
    /\ intent = [b \in Bodies |-> NoIntent]
    /\ th = [t \in Threads |-> Idle]
    /\ armed = FALSE /\ locked = FALSE
    /\ forwarded = {}
    /\ relay = [p \in Peers |-> [c \in Copies |-> "none"]]

HandlerStep(t) ==
    \/ Commit(t) \/ Register(t) \/ Ending(t)
    \/ LookupMemo(t) \/ ClaimDerivation(t) \/ Derive(t) \/ LookupAgain(t)
    \/ Confirm(t) \/ StaleFinish(t)

Next ==
    \/ \E t \in Threads, c \in Copies :
          \/ \E from \in Peers \cup {Coord} : Ingress(t, c, from)
          \/ \E p \in Peers : StaleClaim(t, c, p)
    \/ \E t \in Threads : HandlerStep(t)
    \/ PruneStore \/ LatchLockdown \/ TickMono

Spec == Init /\ [][Next]_vars

\* Every handler that has started runs on: its steps are not blocked for good
\* by the locks they take, and the PIN and KDF work in between ends.
FairSpec == Spec /\ \A t \in Threads : WF_vars(HandlerStep(t))

-----------------------------------------------------------------------------

Handler == [pc : {"idle", "windowA", "windowB", "ending", "lookup", "claim",
                  "kdf", "relookup", "confirm", "staleKdf"},
            copy : Copies \cup {NoCopy}, from : Peers \cup {Coord},
            deadline : Time, owns : BOOLEAN, rules : BOOLEAN,
            seen : Copies \cup {NoCopy}, seenDeadline : Time]

Tags == [claim : BOOLEAN, copy : Copies \cup {NoCopy}]

\* Every variable has its type.
TypeOK ==
    /\ Log!TypeOK
    /\ memo \in [Nonces -> [kind : {"none", "inflight", "derived"},
                            copy : Copies \cup {NoCopy}, deadline : Time,
                            resolved : [Peers -> Tags]]]
    /\ intent \in [Bodies -> [present : BOOLEAN,
                              holders : SUBSET (Peers \cup {Self}),
                              ready : BOOLEAN, ruling : BOOLEAN,
                              deadline : Time]]
    /\ th \in [Threads -> Handler]
    /\ armed \in BOOLEAN /\ locked \in BOOLEAN
    /\ forwarded \subseteq Copies
    /\ relay \in [Peers -> [Copies -> {"none", "delivered", "answered",
                                        "skipped"}]]

\* Peers that have delivered some copy of body b to this node.
Deliverers(b) ==
    {p \in Peers : \E c \in Copies : BodyOf(c) = b /\ relay[p][c] # "none"}

Forwarded(b) == \E c \in forwarded : BodyOf(c) = b

\* Only real holders count: a peer counted for a body delivered that very body,
\* under some signature, not another body under the same nonce; and the node
\* counts itself only for a body it has put in its outbox.
HoldersAreReal ==
    \A b \in Bodies :
        /\ intent[b].holders \ {Self} \subseteq Deliverers(b)
        /\ Self \in intent[b].holders => Forwarded(b)

\* The node arms only on a body with the duress PIN that `Threshold` nodes hold,
\* itself included, and that it has itself sent on (confirm_carrier).
ArmNeedsQuorum ==
    armed => \E b \in DuressBodies :
                /\ Cardinality(Deliverers(b)) + 1 >= Threshold
                /\ Forwarded(b)

\* The carrier store and the nonce log agree on which generation of a nonce is
\* current: an intent with time left belongs to the entry the log still holds,
\* with the same deadline, so one nonce never has two countable carriers.
LiveIntentIsCurrent ==
    \A b \in Bodies :
        intent[b].present /\ intent[b].deadline > mono =>
            entries[NonceOf[b]] = [expiry   |-> ExpiryOf[b],
                                   deadline |-> intent[b].deadline]

\* What makes a peer retry has an owner that will end it: an in-flight claim and
\* a pending ruling each belong to a running handler (InFlightMemoGuard).
ClaimsHaveOwners ==
    /\ \A n \in Nonces : memo[n].kind = "inflight" =>
          \E t \in Threads : th[t].owns /\ NonceOfCopy(th[t].copy) = n /\ OwnClaim(t)
    /\ \A b \in Bodies : intent[b].ruling =>
          \E t \in Threads : th[t].rules /\ BodyOf(th[t].copy) = b

\* A running handler keeps its claim until its own generation is over: the
\* claim is replaced, and may then be gone altogether (the Reinstalled case of
\* record_arm_intent), only after the deadline has passed and the log has
\* accepted a later generation of the nonce.
OwnersKeepClaims ==
    \A t \in Threads : th[t].owns /\ th[t].pc = "windowA" /\ ~ OwnClaim(t) =>
        /\ th[t].deadline <= mono
        /\ entries[NonceOfCopy(th[t].copy)].expiry # ExpiryOfCopy(th[t].copy)

\* No hollow carrier: a handler past the arm hook never forwards a carrier
\* whose intent is gone, so receipts of what it forwards can be counted.
NoHollowCarrier ==
    [][\A t \in Threads :
          LET b == BodyOf(th[t].copy) IN
          /\ th[t].pc \in {"windowA", "windowB"}
          /\ th'[t].pc = "ending"
          /\ th[t].copy \in forwarded' \ forwarded
          => intent'[b].ready /\ Self \in intent'[b].holders]_vars

\* p has sent no other copy of this nonce: an honest node accepts, and so
\* relays, one copy of it.
OnlyCopy(p, c) ==
    \A other \in Copies \ {c} :
        NonceOfCopy(other) = NonceOfCopy(c) => relay[p][other] = "none"

Final == {"answered", "skipped"}

\* The carrier of body b can still be counted.
Countable(i) == i.present /\ i.deadline > mono

\* Another handler is deriving or confirming the same delivery.
BeingConfirmed(p, c) ==
    \E t \in Threads : /\ th[t].from = p /\ th[t].copy = c
                       /\ th[t].pc \in {"kdf", "relookup", "confirm"}

\* ACCEPTED is not a silent false positive: when an honest relay's delivery is
\* answered for good while the node holds a live intent for its body, the
\* sender has been counted, or a concurrent handler of the same delivery is
\* about to settle it.
NoSilentLoss ==
    [][\A p \in Peers, c \in Copies :
          LET i == intent'[BodyOf(c)] IN
          /\ relay[p][c] \notin Final /\ relay'[p][c] \in Final
          /\ OnlyCopy(p, c) /\ ~ locked /\ Countable(i)
          => p \in i.holders \/ BeingConfirmed(p, c)']_vars

\* Once no handler runs, an honest relay that was answered ACCEPTED because its
\* one derivation was already taken has been counted, while that still matters.
NoStrandedReceipt ==
    (\A t \in Threads : th[t].pc = "idle") =>
        \A p \in Peers, c \in Copies :
            LET i == intent[BodyOf(c)] IN
            relay[p][c] = "skipped" /\ OnlyCopy(p, c) /\ ~ locked /\ Countable(i) =>
                p \in i.holders

\* An in-flight claim does not stay: the handler that made it derives the
\* carrier or gives the nonce up.
ClaimsResolve ==
    \A n \in Nonces : memo[n].kind = "inflight" ~> memo[n].kind # "inflight"

\* confirm_carrier: types, only real holders count, and the node arms on a quorum.
ArmInv == TypeOK /\ HoldersAreReal /\ ArmNeedsQuorum

\* InFlightMemoGuard and record_arm_intent: claims, their owners, the intents and the
\* nonce log agree.
ClaimInv == LiveIntentIsCurrent /\ ClaimsHaveOwners /\ OwnersKeepClaims

\* What a node forwards it can count, and what it answers for good it has counted.
RelayKept == NoHollowCarrier /\ NoSilentLoss
=============================================================================
