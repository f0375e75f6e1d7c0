--------------------------- MODULE CandidateStore ---------------------------
(***************************************************************************)
(* The candidate registry of one vault node, with the two things that live *)
(* under its lock: the Hot budget's velocity ledger and the Armed overlay. *)
(* channel.rs has the store; lib.rs has its three users, which interleave: *)
(*                                                                         *)
(*   - the last hold of a /sign handler, which meters and registers a pair *)
(*     (Submit, Register).  It holds sign_state, but gives the store up    *)
(*     between the two calls it makes of it;                               *)
(*   - the receipt path, which commits a decision (Confirm, under          *)
(*     sign_state) and evicts an expired candidate (EvictOnPartial);       *)
(*   - the fire driver, which prunes, releases this node's partials (under *)
(*     sign_state), and finalizes, sends and settles (without it).         *)
(*                                                                         *)
(* A request is a pair of candidates, a spend and its mandatory escape; a  *)
(* commitment id is a hash of transaction and expiry, so expiry, class and *)
(* outflow are functions of the request.  Several carriers (signed bodies  *)
(* with nonces of their own) may carry one request.  How a carrier gathers *)
(* its holders is in CarrierNode: here it is staged, and may be confirmed. *)
(* Peers' partials are a choice: any staged candidate may have a quorum.   *)
(* Fee-bump rungs of an escape are left out.                               *)
(***************************************************************************)
EXTENDS Integers, FiniteSets, FiniteSetsExt

CONSTANTS
    Requests, Carriers, NoReq,
    ReqOf, DuressCarriers,      \* what a carrier carries, and its PIN
    Hot, ExpiryOf, Outflow,     \* the spend of a request
    Inputs,                     \* the coins each candidate spends
    HoldSecs, EpsilonSecs, CombineSlackSecs, DuressDelaySecs,
    GraceSecs,                  \* SETTLEMENT_OBSERVE_GRACE_SECS
    MaxCommitmentAgeSecs, DeliveryHorizonSecs, HotWindowSecs, MaxPerWindowSat,
    MaxHotReservations, MaxActiveCandidates,
    MaxTime,                    \* bound on both clocks
    MaxWallSteps,               \* bound: how often the wall clock is stepped
    SlowSends,                  \* TRUE: a send may outlast its candidate
    ClockRewinds                \* TRUE: the wall clock may be set back over an expiry

SpendId(r)  == <<r, "spend">>
EscapeId(r) == <<r, "escape">>
Ids == Requests \X {"spend", "escape"}
IsHot(id)    == id[2] = "spend" /\ id[1] \in Hot
IsEscape(id) == id[2] = "escape"

\* from_toml_str
ASSUME StoreAssumption ==
    /\ IsFiniteSet(Requests) /\ Carriers # {}
    /\ Hot \subseteq Requests /\ NoReq \notin Requests
    /\ ReqOf \in [Carriers -> Requests] /\ DuressCarriers \subseteq Carriers
    /\ ExpiryOf \in [Requests -> Nat] /\ Outflow \in [Requests -> Nat]
    /\ {HoldSecs, EpsilonSecs, CombineSlackSecs, DuressDelaySecs, GraceSecs,
        MaxCommitmentAgeSecs, DeliveryHorizonSecs, HotWindowSecs, MaxPerWindowSat,
        MaxHotReservations, MaxActiveCandidates, MaxTime, MaxWallSteps} \subseteq Nat
    /\ {SlowSends, ClockRewinds} \subseteq BOOLEAN
    /\ HoldSecs < MaxCommitmentAgeSecs
    /\ HotWindowSecs >= MaxCommitmentAgeSecs
    /\ EpsilonSecs <= MaxCommitmentAgeSecs
    /\ DuressDelaySecs <= MaxCommitmentAgeSecs
    /\ HoldSecs + CombineSlackSecs <= MaxCommitmentAgeSecs
    /\ CombineSlackSecs > 0

VARIABLES
    wall, peak, mono,  \* the wall clock, its highest reading, HotClock
    steps,             \* how often the wall clock was stepped
    highWater,         \* NonceLog's rollback guard
    cand,              \* PartialStore.candidates
    ledger,            \* PartialStore.hot_budget.reservations
    armed,             \* PartialStore.armed
    intent,            \* PartialStore.intents
    sign,              \* the handler in its last hold of sign_state
    fire,              \* the fire driver
    replay, pending,   \* SignState.replay (accepted requests), .pending
    locked,            \* Node.lockdown
    exposed            \* history: the reservation under which a hot spend left
                       \* this node, or was seen settled

clockVars == <<wall, peak, mono, steps, highWater>>
storeVars == <<cand, ledger, armed, intent>>
logVars   == <<replay, pending>>
vars == <<clockVars, storeVars, sign, fire, logVars, locked, exposed>>

Time == 0 .. MaxTime
Monus(a, b) == IF a > b THEN a - b ELSE 0     \* saturating_sub
Least(a, b) == IF a < b THEN a ELSE b
Most(a, b)  == IF a > b THEN a ELSE b

EffectiveNow == Most(wall, highWater)

Gone == [present |-> FALSE, quorum |-> FALSE, released |-> FALSE,
         broadcast |-> FALSE, scheduled |-> FALSE, fireAt |-> 0, deadline |-> 0]
NoReservation == [held |-> FALSE, at |-> 0]
NoIntent == [phase |-> "new", seen |-> 0, req |-> NoReq]
Free == [pc |-> "free", carrier |-> CHOOSE k \in Carriers : TRUE,
         owned |-> FALSE, now |-> 0, raw |-> 0]
Resting == [pc |-> "idle", now |-> 0, due |-> {},
            id |-> CHOOSE id \in Ids : TRUE, settled |-> {}]

-----------------------------------------------------------------------------
(* The velocity ledger.                                                      *)

\* Mutant: reservations age on the monotonic clock alone.
LiveByMono(r, l, w) == l[r].at >= Monus(mono, HotWindowSecs)

\* is_live: a reservation dies only when both clocks say so.
IsLive(r, l, w) ==
    \/ l[r].at >= Monus(mono, HotWindowSecs)
    \/ w <= ExpiryOf[r]

LedgerPruned(l, w) == [r \in Requests |->
    IF l[r].held /\ IsLive(r, l, w) THEN l[r] ELSE NoReservation]

HeldIn(l) == {r \in Requests : l[r].held}
SumOf[S \in SUBSET Requests] ==
    IF S = {} THEN 0
    ELSE LET r == CHOOSE r \in S : TRUE IN Outflow[r] + SumOf[S \ {r}]

\* reserve, on a pruned ledger
ReserveVerdict(l, r) ==
    IF l[r].held                                       THEN "already"
    ELSE IF SumOf[HeldIn(l)] + Outflow[r] > MaxPerWindowSat THEN "window"
    ELSE IF Cardinality(HeldIn(l)) >= MaxHotReservations    THEN "capacity"
    ELSE "inserted"

Reserved(l, r) == [l EXCEPT ![r] = [held |-> TRUE, at |-> mono]]
Released(l, r) == [l EXCEPT ![r] = NoReservation]

-----------------------------------------------------------------------------
(* The candidates.                                                           *)

\* Mutant: every removal gives its reservation back.
AnyHot(id, c) == IsHot(id)

\* is_unexposed_hot
UnexposedHot(id, c) == IsHot(id) /\ ~ c[id].released /\ ~ c[id].broadcast

\* release_if_unexposed, for every candidate of S
Refunded(l, c, S) == [r \in Requests |->
    IF SpendId(r) \in S /\ UnexposedHot(SpendId(r), c)
    THEN NoReservation ELSE l[r]]

Without(c, S) == [id \in Ids |-> IF id \in S THEN Gone ELSE c[id]]

\* delayed_slot_context_exempt: a pair stays while the window of its escape is
\* not over, whatever the PIN was.
Exempt(id, c, now) ==
    LET e == c[EscapeId(id[1])] IN
    e.present /\ ~ e.broadcast /\ e.scheduled /\ now <= e.deadline

\* The selected escape and its pair go once the sweep's window is over.
FireComplete(id, c, now) ==
    /\ armed.active /\ armed.sweep
    /\ now > armed.fireAt + armed.slack
    /\ id[1] = armed.escape
    /\ IsEscape(id) \/ c[EscapeId(id[1])].present

Expired(c, now) == {id \in Ids :
    /\ c[id].present
    /\ \/ FireComplete(id, c, now)
       \/ ExpiryOf[id[1]] < now /\ ~ Exempt(id, c, now)}

\* prune_store; the carriers it retires are in RetireIntent.
Pruned(now) == Without(cand, Expired(cand, now))
PrunedRefund(now) == Refunded(ledger, cand, Expired(cand, now))

\* The assumption SlowSends lifts: a send is answered, and its candidate marked,
\* before any handler sees that the candidate (one of S) or a hot spend's expiry is
\* over.
Spares(S, now) ==
    \/ SlowSends
    \/ /\ fire.pc \in {"sending", "settle"} => fire.id \notin S
       /\ fire.pc = "sending" /\ IsHot(fire.id) => now <= ExpiryOf[fire.id[1]]

SlotActive(id) ==
    /\ cand[id].quorum
    /\ IsEscape(id) => armed.active /\ armed.sweep /\ armed.escape = id[1]

WindowOpen(id, now) ==
    cand[id].scheduled /\ now >= cand[id].fireAt /\ now <= cand[id].deadline

\* Mutant: the freeze is not looked at.
NotFrozenEver(id) == FALSE

Frozen(id) == armed.active /\ IsHot(id)

\* The gates of release_partials, try_finalize and with_broadcast_authorization.
MayRelease(id, now) ==
    cand[id].present /\ SlotActive(id) /\ ~ Frozen(id) /\ WindowOpen(id, now)

\* with_broadcast_authorization, on its own: the arm may have landed since.
MayBroadcast(id, now) == MayRelease(id, now) /\ ~ cand[id].broadcast

\* invalidate_hot_conflicts
HotConflicts(id) == {h \in Ids :
    /\ IsHot(h) /\ h # id /\ cand[h].present
    /\ cand[id].present /\ Inputs[h] \cap Inputs[id] # {}}

Invalidated(c, S) == [id \in Ids |->
    IF id \in S THEN [c[id] EXCEPT !.broadcast = TRUE] ELSE c[id]]

-----------------------------------------------------------------------------
(* The Armed overlay.                                                        *)

\* Mutant: T ignores the pending hot spends.
NoHotFire(c, now) == {}

\* The fire times of the hot spends still pending.
PendingHotFire(c, now) ==
    {c[id].fireAt : id \in {h \in Ids :
        IsHot(h) /\ c[h].present /\ ~ c[h].broadcast /\ ExpiryOf[h[1]] >= now}}

\* T, given the T this request asks for: it is free until the node is armed,
\* then it only shrinks, and only for an arming decision.
FireAt(a, t, arm) ==
    IF ~ a.active THEN t
    ELSE IF arm THEN Least(a.fireAt, t)
    ELSE a.fireAt

\* write_safety_overlay
Overlay(a, c, arm, seen, now) ==
    LET hot == PendingHotFire(c, now)
        own == seen + DuressDelaySecs
        t   == IF hot = {} THEN own
               ELSE Least(own, Monus(Min(hot), EpsilonSecs))
    IN [a EXCEPT !.fireAt = FireAt(a, Most(t, now), arm),
                 !.slack  = CombineSlackSecs,
                 !.active = @ \/ arm]

\* refresh_escape_window
Refreshed(c, a, r) ==
    IF r = NoReq \/ ~ c[EscapeId(r)].present THEN c
    ELSE [c EXCEPT ![EscapeId(r)] =
             [@ EXCEPT !.scheduled = TRUE, !.fireAt = a.fireAt,
                       !.deadline = a.fireAt + a.slack]]

\* The escape of r can be adopted for the sweep: it has its holders.
EscapeLive(c, r) == c[EscapeId(r)].present /\ c[EscapeId(r)].quorum

\* apply_arm_directive: an armed node moves T before a new hot spend; the first
\* live sweep wins.
Directed(a, c, r, duress, holds, now) ==
    LET t == {Most(Monus(h, EpsilonSecs), now) : h \in holds} IN
    [a EXCEPT !.fireAt = IF a.active THEN Min({@} \cup t) ELSE @,
              !.escape = IF a.sweep THEN @ ELSE r,
              !.sweep  = @ \/ (a.active /\ duress /\ EscapeLive(c, r))]

Scheduled(c, a, r) == Refreshed(Refreshed(c, a, r), a, a.escape)

-----------------------------------------------------------------------------
(* The /sign handler.                                                        *)

\* The expiry e is over, too far off, or too near for the peers.
ClockRefuses(e) ==
    \/ e <= EffectiveNow
    \/ e > wall + MaxCommitmentAgeSecs
    \/ e < EffectiveNow + DeliveryHorizonSecs

\* The second hold: record_arm_intent.  `seen` is the reading of the first.  A
\* handler that is refused here, by the clock or for its PIN, stages the carrier
\* and ends.
RecordIntent(k) ==
    /\ intent[k].phase = "new"
    /\ sign.pc = "free" /\ ~ locked
    /\ \E seen \in 0 .. peak, phase \in {"recorded", "staged"} :
         /\ ClockRefuses(ExpiryOf[ReqOf[k]]) => phase = "staged"
         /\ armed' = Overlay(armed, cand, FALSE, seen, EffectiveNow)
         /\ intent' = [intent EXCEPT ![k] =
                         [phase |-> phase, seen |-> seen, req |-> NoReq]]
    /\ UNCHANGED <<clockVars, cand, ledger, sign, fire, logVars, locked, exposed>>

\* How the handler leaves the carrier: staged for its holders, or retired.
Ended(i, k, staged) ==
    [i EXCEPT ![k].phase = IF staged THEN "staged" ELSE "gone"]

\* The last hold begins.  The clock may refuse the request, and so may the checks
\* of its PSBTs, their prevouts and the policy (a choice here; only some of them
\* stage the carrier).  A request answered before ends it too; otherwise the
\* stores are pruned and a hot spend is metered.
Submit(k) ==
    LET r   == ReqOf[k]
        now == EffectiveNow
        met == LedgerPruned(PrunedRefund(now), wall)
        verdict == IF r \in Hot THEN ReserveVerdict(met, r) ELSE "unmetered"
    IN
    /\ intent[k].phase = "recorded"
    /\ sign.pc = "free"
    /\ UNCHANGED <<clockVars, fire, locked, exposed>>
    /\ \/ /\ locked
          /\ intent' = Ended(intent, k, FALSE)
          /\ UNCHANGED <<cand, ledger, armed, sign, logVars>>
       \/ /\ ~ locked /\ ClockRefuses(ExpiryOf[r])
          /\ intent' = Ended(intent, k, TRUE)
          /\ UNCHANGED <<cand, ledger, armed, sign, logVars>>
       \/ /\ ~ locked /\ ~ ClockRefuses(ExpiryOf[r])    \* decode_psbt
          /\ intent' = Ended(intent, k, FALSE)
          /\ UNCHANGED <<cand, ledger, armed, sign, logVars>>
       \/ /\ ~ locked /\ ~ ClockRefuses(ExpiryOf[r])
          /\ replay' = {q \in replay : ExpiryOf[q] > now}
          /\ \/ /\ r \in replay'      \* apply_cached_schedule, record_intent_pair
                /\ armed' = Directed(armed, cand, r, k \in DuressCarriers, {}, now)
                /\ cand' = Scheduled(cand, armed', r)
                /\ intent' = [Ended(intent, k, TRUE) EXCEPT ![k].req = r]
                /\ UNCHANGED <<ledger, sign, pending>>
             \/ /\ r \notin replay'   \* a recorded refusal, or no prevouts
                /\ \E staged \in BOOLEAN : intent' = Ended(intent, k, staged)
                /\ UNCHANGED <<cand, ledger, armed, sign, pending>>
             \/ /\ r \notin replay'
                /\ Spares(Expired(cand, now), now)
                /\ pending' = {q \in pending : ExpiryOf[q] >= now}
                /\ cand' = Pruned(now)
                /\ UNCHANGED armed
                /\ \/ /\ ledger' = PrunedRefund(now)     \* verify_spend, classify
                      /\ \E staged \in BOOLEAN : intent' = Ended(intent, k, staged)
                      /\ UNCHANGED sign
                   \/ /\ verdict \in {"window", "capacity"}
                      /\ ledger' = met
                      /\ intent' = Ended(intent, k, TRUE)
                      /\ UNCHANGED sign
                   \/ /\ verdict \in {"inserted", "already", "unmetered"}
                      /\ ledger' = CASE verdict = "inserted" -> Reserved(met, r)
                                     [] verdict = "already" -> met
                                     [] OTHER -> PrunedRefund(now)
                      /\ sign' = [pc |-> "reserved", carrier |-> k,
                                  owned |-> verdict = "inserted",
                                  now |-> now, raw |-> wall]
                      /\ UNCHANGED intent

\* The reserve of register_candidates
RegistrationReserve(r, raw) ==
    LET met == LedgerPruned(ledger, raw)
        verdict == ReserveVerdict(met, r)
    IN [verdict |-> verdict,
        ledger |-> IF verdict = "inserted" THEN Reserved(met, r) ELSE met]

Window(r, now) ==
    LET at == IF r \in Hot THEN now + HoldSecs ELSE now IN
    [at |-> at, deadline |-> Least(ExpiryOf[r], at + CombineSlackSecs)]

\* What register makes of a pair: candidates that are resident stay as they are.
Inserted(r, now) == [id \in Ids |->
    IF id[1] # r \/ cand[id].present THEN cand[id]
    ELSE IF IsEscape(id) THEN [Gone EXCEPT !.present = TRUE]
    ELSE [Gone EXCEPT !.present = TRUE, !.scheduled = TRUE,
                      !.fireAt = Window(r, now).at,
                      !.deadline = Window(r, now).deadline]]

ResidentIds == {id \in Ids : cand[id].present}
FitsRegistry(r) ==
    Cardinality(ResidentIds \cup {SpendId(r), EscapeId(r)}) <= MaxActiveCandidates

\* unwind_hot_reservation
Unwound(l, r) == IF sign.owned THEN Released(l, r) ELSE l

\* The last hold goes on: refuse the escape or the signing, or sign, stage the
\* carrier and register the pair (register_candidates, one hold of the store).
Register ==
    LET k   == sign.carrier
        r   == ReqOf[k]
        now == sign.now
        res == IF r \in Hot THEN RegistrationReserve(r, sign.raw)
               ELSE [ledger |-> ledger, verdict |-> "unmetered"]
        short == r \in Hot /\
                    ExpiryOf[r] < now + HoldSecs + CombineSlackSecs
    IN
    /\ sign.pc = "reserved"
    /\ sign' = Free
    /\ UNCHANGED <<clockVars, fire, locked, exposed>>
    /\ \/ \E staged \in BOOLEAN :    \* verify_escape, signing; the expiry floor
             /\ staged => short
             /\ ledger' = Unwound(ledger, r)
             /\ intent' = Ended(intent, k, staged)
             /\ UNCHANGED <<cand, armed, logVars>>
       \/ /\ ~ short
          /\ res.verdict \in {"window", "capacity"}
          /\ ledger' = Unwound(res.ledger, r)
          /\ intent' = Ended(intent, k, TRUE)
          /\ UNCHANGED <<cand, armed, logVars>>
       \/ /\ ~ short            \* a conflict, or no room in entries or bytes
          /\ res.verdict \notin {"window", "capacity"}
          /\ ledger' = Unwound(IF res.verdict = "inserted"
                               THEN Released(res.ledger, r) ELSE res.ledger, r)
          /\ intent' = Ended(intent, k, TRUE)
          /\ UNCHANGED <<cand, armed, logVars>>
       \/ /\ ~ short
          /\ res.verdict \notin {"window", "capacity"}
          /\ FitsRegistry(r)
          /\ LET c == Inserted(r, now)
                 holds == IF r \in Hot THEN {Window(r, now).at} ELSE {}
             IN /\ armed' = Directed(armed, c, r, k \in DuressCarriers, holds, now)
                /\ cand' = Scheduled(c, armed', r)
          /\ ledger' = res.ledger
          /\ intent' = [Ended(intent, k, TRUE) EXCEPT ![k].req = r]
          /\ pending' = IF r \in Hot THEN pending \cup {r} ELSE pending
          /\ replay' = replay \cup {r}

-----------------------------------------------------------------------------
(* The receipt path.                                                         *)

\* confirm_carrier at the last holder: commit the decision.
Confirm(k) ==
    LET r      == intent[k].req
        now    == EffectiveNow
        arms   == k \in DuressCarriers
        a      == Overlay(armed, cand, arms, intent[k].seen, now)
        select == arms /\ ~ armed.sweep /\ r # NoReq
        held   == [id \in Ids |->
                     IF cand[id].present /\ id[1] = r
                     THEN [cand[id] EXCEPT !.quorum = TRUE] ELSE cand[id]]
    IN
    /\ intent[k].phase = "staged"
    /\ sign.pc = "free"
    /\ ExpiryOf[ReqOf[k]] > now
    /\ armed' = [a EXCEPT !.escape = IF select THEN r ELSE @,
                          !.sweep = @ \/ select]
    /\ cand' = Scheduled(held, armed', r)
    /\ intent' = [intent EXCEPT ![k].phase = "gone"]
    /\ UNCHANGED <<clockVars, ledger, sign, fire, logVars, locked, exposed>>

\* A staged carrier's deadline passes.
RetireIntent(k) ==
    /\ intent[k].phase = "staged"
    /\ intent' = [intent EXCEPT ![k].phase = "gone"]
    /\ UNCHANGED <<clockVars, cand, ledger, armed, sign, fire, logVars, locked,
                   exposed>>

\* accept_partial for a candidate that has expired.
EvictOnPartial(id) ==
    /\ cand[id].present
    /\ ExpiryOf[id[1]] < wall /\ ~ Exempt(id, cand, wall)
    /\ Spares({id}, wall)
    /\ cand' = Without(cand, {id})
    /\ ledger' = Refunded(ledger, cand, {id})
    /\ UNCHANGED <<clockVars, armed, intent, sign, fire, logVars, locked, exposed>>

-----------------------------------------------------------------------------
(* The fire driver, one pass after another.                                  *)

\* A /refresh prunes everything that sign_state and the store hold.
Prune ==
    LET now == EffectiveNow IN
    /\ sign.pc = "free" /\ ~ locked
    /\ Spares(Expired(cand, now), now)
    /\ replay' = {q \in replay : ExpiryOf[q] > now}
    /\ pending' = {q \in pending : ExpiryOf[q] >= now}
    /\ cand' = Pruned(now)
    /\ ledger' = PrunedRefund(now)
    /\ UNCHANGED <<clockVars, armed, intent, sign, fire, locked, exposed>>

LockdownDue == armed.active /\ wall >= armed.fireAt

\* lockdown_driver, which runs besides the fire driver.
LatchLockdown ==
    /\ LockdownDue /\ ~ locked
    /\ locked' = TRUE
    /\ UNCHANGED <<clockVars, storeVars, sign, fire, logVars, exposed>>

\* fire_settlement_pollable
Pollable(r, now) ==
    LET s == cand[SpendId(r)] IN
    /\ s.present /\ s.scheduled
    /\ now >= s.fireAt /\ now <= s.deadline + GraceSecs

\* due_for_fire
Due(c, now) == {id \in Ids :
    /\ c[id].present /\ ~ c[id].broadcast
    /\ MayRelease(id, now)}

\* The head of a pass: prune_store, lockdown_tick, due_for_fire.
StartPass ==
    /\ fire.pc = "idle"
    /\ cand' = Pruned(wall)
    /\ ledger' = PrunedRefund(wall)
    /\ locked' = (locked \/ LockdownDue)
    /\ fire' = [fire EXCEPT !.pc = "poll", !.now = wall, !.due = Due(cand', wall)]
    /\ UNCHANGED <<clockVars, armed, intent, sign, logVars, exposed>>

\* The pending spends still worth watching, by the same clock reading.
PollPending ==
    /\ fire.pc = "poll" /\ sign.pc = "free"
    /\ LET watched == {q \in pending : ExpiryOf[q] >= fire.now /\ Pollable(q, fire.now)}
           due == fire.due \cup {SpendId(r) : r \in watched}
       IN fire' = IF due = {} THEN Resting
                  ELSE [Resting EXCEPT !.pc = "release", !.due = due]
    /\ UNCHANGED <<clockVars, storeVars, sign, logVars, locked, exposed>>

IsArmedEscape(id) ==
    armed.active /\ armed.sweep /\ IsEscape(id) /\ armed.escape = id[1]

\* The reservation a share leaves under; without one, it counts from now.
Exposure(r) == IF ledger[r].held THEN ledger[r]
               ELSE [held |-> TRUE, at |-> mono]

\* The release hold, one hold of sign_state for the whole list; an inadmissible
\* sweep is skipped.
ReleasePartials ==
    /\ fire.pc = "release" /\ sign.pc = "free"
    /\ \E admissible \in BOOLEAN :
         LET out == {id \in fire.due : /\ MayRelease(id, wall)
                                       /\ IsArmedEscape(id) => admissible} IN
         /\ cand' = [id \in Ids |->
                       IF id \in out THEN [cand[id] EXCEPT !.released = TRUE]
                       ELSE cand[id]]
         /\ exposed' = [r \in Requests |->
                          IF SpendId(r) \in out /\ r \in Hot
                             /\ ~ cand[SpendId(r)].released
                          THEN Exposure(r) ELSE exposed[r]]
    /\ fire' = [fire EXCEPT !.pc = "combine"]
    /\ UNCHANGED <<clockVars, ledger, armed, intent, sign, logVars, locked>>

\* Done with this entry of the list.
Proceed == fire' = IF fire.due \ {fire.id} = {} THEN Resting
                   ELSE [Resting EXCEPT !.pc = "combine",
                                        !.due = fire.due \ {fire.id}]

\* combine_and_broadcast takes up an entry: its transaction is on the network,
\* or it finalizes here (try_finalize), or neither.
Combine(id) ==
    /\ fire.pc = "combine" /\ id \in fire.due
    /\ \/ cand[id].present /\ fire' = [fire EXCEPT !.pc = "settle", !.id = id]
       \/ /\ cand[id].present /\ MayBroadcast(id, wall)
          /\ fire' = [fire EXCEPT !.pc = "finalized", !.id = id]
       \/ fire' = [fire EXCEPT !.pc = "next", !.id = id]
    /\ UNCHANGED <<clockVars, storeVars, sign, logVars, locked, exposed>>

Skip ==
    /\ fire.pc = "next"
    /\ Proceed
    /\ UNCHANGED <<clockVars, storeVars, sign, logVars, locked, exposed>>

\* The package checks, without a lock, then with_broadcast_authorization.
Authorize ==
    /\ fire.pc = "finalized"
    /\ \/ /\ MayBroadcast(fire.id, wall)
          /\ fire' = [fire EXCEPT !.pc = "sending"]
       \/ Proceed
    /\ UNCHANGED <<clockVars, storeVars, sign, logVars, locked, exposed>>

\* The send failed, or succeeded; an armed escape is not settled by it.
Sent ==
    /\ fire.pc = "sending"
    /\ \/ Proceed /\ UNCHANGED exposed
       \/ /\ ~ IsArmedEscape(fire.id)
          /\ fire' = [fire EXCEPT !.pc = "settle"]
          /\ exposed' = IF IsHot(fire.id)
                        THEN [exposed EXCEPT ![fire.id[1]] = Exposure(fire.id[1])]
                        ELSE exposed
    /\ UNCHANGED <<clockVars, storeVars, sign, logVars, locked>>

\* mark_broadcast, or for an armed escape seen confirmed only its conflicts
\* (invalidate_hot_conflicts_in_store).
MarkBroadcast ==
    LET id == fire.id
        S  == HotConflicts(id)
        c  == Invalidated(cand, S)
    IN
    /\ fire.pc = "settle"
    /\ ledger' = Refunded(ledger, cand, S)
    /\ cand' = IF IsArmedEscape(id) \/ ~ cand[id].present THEN c
               ELSE [c EXCEPT ![id].broadcast = TRUE]
    /\ fire' = [fire EXCEPT !.pc = "pending",
                            !.settled = {id[1]} \cup {h[1] : h \in S}]
    /\ exposed' = IF IsHot(id) /\ ledger[id[1]].held
                  THEN [exposed EXCEPT ![id[1]] = ledger[id[1]]] ELSE exposed
    /\ UNCHANGED <<clockVars, armed, intent, sign, logVars, locked>>

\* settle_candidate then takes sign_state to end what is no longer pending.
EndPending ==
    /\ fire.pc = "pending" /\ sign.pc = "free"
    /\ pending' = pending \ fire.settled
    /\ Proceed
    /\ UNCHANGED <<clockVars, storeVars, sign, replay, locked, exposed>>

-----------------------------------------------------------------------------

Tick ==
    /\ mono < MaxTime /\ wall < MaxTime
    /\ mono' = mono + 1 /\ wall' = wall + 1
    /\ peak' = Most(peak, wall + 1)
    /\ UNCHANGED <<steps, highWater, storeVars, sign, fire, logVars, locked, exposed>>

\* The assumption ClockRewinds lifts: an expiry the wall clock has reached, or has
\* passed, stays so.
KeepsExpiries(t) == \A r \in Requests :
    /\ peak >= ExpiryOf[r] => t >= ExpiryOf[r]
    /\ peak > ExpiryOf[r] => t > ExpiryOf[r]

\* The wall clock is stepped, in either direction.
StepWall ==
    /\ steps < MaxWallSteps
    /\ steps' = steps + 1
    /\ wall' \in {t \in Time \ {wall} : ClockRewinds \/ KeepsExpiries(t)}
    /\ peak' = Most(peak, wall')
    /\ UNCHANGED <<mono, highWater, storeVars, sign, fire, logVars, locked, exposed>>

\* The nonce log forgets an entry that has expired.
RaiseHighWater ==
    /\ sign.pc = "free" /\ highWater < wall
    /\ highWater' = wall
    /\ UNCHANGED <<wall, peak, mono, steps, storeVars, sign, fire, logVars, locked, exposed>>

Init ==
    /\ wall = 0 /\ peak = 0 /\ mono = 0 /\ steps = 0 /\ highWater = 0
    /\ cand = [id \in Ids |-> Gone]
    /\ ledger = [r \in Requests |-> NoReservation]
    /\ armed = [active |-> FALSE, fireAt |-> 0, escape |-> NoReq,
                sweep |-> FALSE, slack |-> 0]
    /\ intent = [k \in Carriers |-> NoIntent]
    /\ sign = Free /\ fire = Resting
    /\ replay = {} /\ pending = {}
    /\ locked = FALSE
    /\ exposed = [r \in Requests |-> NoReservation]

Next ==
    \/ \E k \in Carriers :
          RecordIntent(k) \/ Submit(k) \/ Confirm(k) \/ RetireIntent(k)
    \/ \E id \in Ids : EvictOnPartial(id) \/ Combine(id)
    \/ Register \/ Prune \/ LatchLockdown
    \/ StartPass \/ PollPending \/ ReleasePartials \/ Skip \/ Authorize \/ Sent
    \/ MarkBroadcast \/ EndPending
    \/ Tick \/ StepWall \/ RaiseHighWater

Spec == Init /\ [][Next]_vars

-----------------------------------------------------------------------------

Candidate == [present : BOOLEAN, quorum : BOOLEAN, released : BOOLEAN,
              broadcast : BOOLEAN, scheduled : BOOLEAN, fireAt : Nat,
              deadline : Nat]
Reservation == [held : BOOLEAN, at : Time]

\* Every variable has its type.
TypeOK ==
    /\ {wall, peak, mono, highWater} \subseteq Time
    /\ steps \in 0 .. MaxWallSteps
    /\ cand \in [Ids -> Candidate]
    /\ ledger \in [Requests -> Reservation]
    /\ armed \in [active : BOOLEAN, fireAt : Nat,
                  escape : Requests \cup {NoReq}, sweep : BOOLEAN, slack : Nat]
    /\ intent \in [Carriers -> [phase : {"new", "recorded", "staged", "gone"},
                                seen : Time, req : Requests \cup {NoReq}]]
    /\ sign \in [pc : {"free", "reserved"}, carrier : Carriers,
                 owned : BOOLEAN, now : Time, raw : Time]
    /\ fire \in [pc : {"idle", "poll", "release", "combine", "next",
                       "finalized", "sending", "settle", "pending"},
                 now : Time, due : SUBSET Ids, id : Ids, settled : SUBSET Requests]
    /\ replay \subseteq Requests /\ pending \subseteq Requests
    /\ locked \in BOOLEAN
    /\ exposed \in [Requests -> Reservation]

\* This node may yet let the hot spend of r go.
Exposable(r) ==
    LET s == cand[SpendId(r)] IN
    /\ s.present /\ ~ s.released /\ ~ s.broadcast /\ wall <= s.deadline
    /\ ~ armed.active

\* Its share or its transaction left under a reservation of the current window.
ExposedInWindow(r) ==
    exposed[r].held /\ exposed[r].at >= Monus(mono, HotWindowSecs)

\* The aggregate bound of the Hot budget: what this node has let go within a
\* window, and what it may yet let go, stays within max_per_window_sat, across
\* pruning between the two reserves, refusals, refunds and settlements.
VelocityBound ==
    SumOf[{r \in Hot : Exposable(r) \/ ExposedInWindow(r)}] <= MaxPerWindowSat

\* A hot spend leaves this node only under a reservation: when its share is
\* released, its transaction sent or its settlement seen, it is still metered.
BroadcastIsMetered ==
    [][\A r \in Hot : exposed'[r] # exposed[r] => ledger[r].held]_vars

\* A reservation whose spend has left this node is kept until it ages out:
\* no removal, refusal or unwinding gives it back (release_if_unexposed).
ExposedKeepsReservation ==
    [][\A r \in Hot :
          /\ ledger[r].held /\ ~ ledger'[r].held
          /\ exposed[r].held /\ exposed[r].at = ledger[r].at
          => ~ IsLive(r, ledger, wall)]_vars

\* No leak: with no handler between its two reserves, a live reservation
\* belongs to a resident spend or to one that has left this node or settled.
ReservationsHaveSpends ==
    \A r \in Hot : ledger[r].held /\ sign.pc = "free" =>
        \/ cand[SpendId(r)].present /\ ~ cand[SpendId(r)].broadcast
        \/ exposed[r].held

\* The freeze: once the node is armed, no hot share leaves and no hot broadcast
\* is authorized, also not one that was finalized before the arm.
FreezeHolds ==
    [][armed.active => \A id \in Ids : IsHot(id) =>
          /\ cand'[id].released => cand[id].released
          /\ fire'.pc = "sending" /\ fire'.id = id => fire.pc = "sending"]_vars

\* Once active, the overlay stays active, T only shrinks, and a live sweep stays
\* on the escape it was pinned to.
OverlayMonotone ==
    [][/\ armed.active => armed'.active /\ armed'.fireAt <= armed.fireAt
       /\ armed.sweep => armed'.sweep /\ armed'.escape = armed.escape]_vars

\* The sweep is never pinned to an escape that cannot fire: the selected escape
\* has its holders while it is resident.
SweepCanFire ==
    armed.sweep /\ cand[EscapeId(armed.escape)].present =>
        cand[EscapeId(armed.escape)].quorum

\* Lockdown comes before the Hold of a frozen spend ends: T is at least epsilon
\* before the fire time of every hot spend still pending, or is already due, as
\* long as the wall clock is not stepped.  So the refund at that spend's expiry,
\* which only an armed node makes, never shows before Lockdown
\* (write_safety_overlay, release_if_unexposed).
LockdownBeforeHoldEnds ==
    armed.active /\ steps = 0 => \A r \in Hot :
        LET s == cand[SpendId(r)] IN
        s.present /\ ~ s.broadcast /\ ExpiryOf[r] >= wall =>
            armed.fireAt <= Most(Monus(s.fireAt, EpsilonSecs), wall)

\* The invariant of the store: types, every reservation belongs to a spend, Lockdown
\* precedes the end of every frozen Hold, and the sweep is on an escape that can fire.
CandidateInv ==
    TypeOK /\ ReservationsHaveSpends /\ LockdownBeforeHoldEnds /\ SweepCanFire

\* Once armed: T only shrinks, the selection stays, and no hot spend leaves.
ArmedStaysArmed == FreezeHolds /\ OverlayMonotone

\* The Hot ledger: what is broadcast is metered, and what is out stays metered.
HotStaysMetered == BroadcastIsMetered /\ ExposedKeepsReservation
=============================================================================
