----------------------------- MODULE RefreshGate -----------------------------
(***************************************************************************)
(* The replay, pending and refresh logs of crates/vault-node/src/replay.rs *)
(* and the handlers that share them (handle_sign and handle_refresh of     *)
(* lib.rs): how a pin-less, instant refresh is kept behind every spend     *)
(* that waits out its Hold or is still on its way to registration, and how *)
(* often a coin may be refreshed.                                          *)
(*                                                                         *)
(* handle_sign holds sign_state three times (ingress, ruling, registration)*)
(* and leaves it for the memory-hard pin and for the chain preflight;      *)
(* handle_refresh holds it twice.  Each hold is one action.  The wall      *)
(* clock can be stepped between any two of them; the readings below are    *)
(* the ones already raised to the nonce log's mark.  Duress, Lockdown and  *)
(* the candidates' windows are in CarrierNode, NodeProcess and             *)
(* CandidateStore.                                                         *)
(***************************************************************************)
EXTENDS Integers, FiniteSets

CONSTANTS
    HotSpends,       \* commitments of hot-class spends
    EscapeSpends,    \* commitments of escape-class spends, which never wait
    Refreshes,       \* commitments of refreshes
    Coins,           \* outpoints
    Inputs,          \* [Refreshes -> SUBSET Coins]: the coins a refresh spends
    Outputs,         \* [Refreshes -> SUBSET Coins]: the coins it creates
    Expiry,          \* the expiry each commitment binds
    Submissions,     \* <<spend, user-signature instance>> pairs submitted
    SpendHandlers,   \* concurrent /sign handlers
    RefreshHandlers, \* concurrent /refresh handlers
    CommitmentAge,   \* max_commitment_age_secs
    RefreshInterval, \* refresh_min_interval_secs
    LastReading      \* bound on the clock readings explored

Spends == HotSpends \cup EscapeSpends
Commitments == Spends \cup Refreshes

ASSUME GateAssumption ==
    /\ Spends \cap Refreshes = {}
    /\ HotSpends \cap EscapeSpends = {}
    /\ IsFiniteSet(SpendHandlers) /\ SpendHandlers \cap RefreshHandlers = {}
    /\ Inputs \in [Refreshes -> SUBSET Coins]
    /\ Outputs \in [Refreshes -> SUBSET Coins]
    /\ Expiry \in [Commitments -> Nat]
    /\ Submissions \subseteq Spends \X (Nat \ {0})
    /\ CommitmentAge \in Nat \ {0}
    /\ RefreshInterval \in Nat \ {0}
    /\ LastReading \in Nat \ {0}

VARIABLES
    clock,       \* the reading the next hold takes
    handler,     \* what each handler is working on
    preflights,  \* Node.spend_preflight
    accepted,    \* ReplayLog, acceptance keys: <<commitment, instance>>
    refused,     \* ReplayLog, commitment ids with a recorded refusal
    pending,     \* PendingLog
    refreshedAt, \* RefreshLog, 0 for a coin it does not hold
    resident,    \* instance of the candidate registered, 0 for none
    broadcast,   \* resident candidates marked broadcast
    settling,    \* candidates marked broadcast, pending entry not yet removed
    wentBack,    \* history: the wall clock was set back
    settled,     \* history: transactions seen settled on the network
    lineage      \* history: when a coin was last refreshed or created by a
                 \* refresh, since the clock last went back

replayLog == <<accepted, refused>>
holdLogs == <<pending, refreshedAt, resident, broadcast>>
history == <<wentBack, settled, lineage>>
gateVars == <<clock, handler, preflights, replayLog, holdLogs, settling, history>>

GateReadings == 1 .. LastReading
Free == [at |-> "idle", commitment |-> "none", instance |-> 0]

\* Outside the holds: the pin window, the chain preflight, and the moment
\* between the last unlock and the drop of the preflight slot.
Phases == {"idle", "pin", "chain", "leaving"}

InAgeWindow(x) == Expiry[x] > clock /\ Expiry[x] <= clock + CommitmentAge

At(h, place) == handler[h].at = place
Moves(h, place) == handler' = [handler EXCEPT ![h].at = place]
Ends(h) == handler' = [handler EXCEPT ![h] = Free]

Starts(h, x, i, place) ==
    handler' = [handler EXCEPT ![h] =
                   [at |-> place, commitment |-> x, instance |-> i]]

-----------------------------------------------------------------------------
(* The logs.                                                                 *)

LiveVerdict(x) == Expiry[x] > clock
PruneReplay == /\ accepted' = {key \in accepted : LiveVerdict(key[1])}
               /\ refused' = {x \in refused : LiveVerdict(x)}

Elapsed(coin) ==
    IF clock > refreshedAt[coin] THEN clock - refreshedAt[coin] ELSE 0

\* RefreshLog::prune keeps a coin until the interval is over.
Recent(coin) == refreshedAt[coin] > 0 /\ Elapsed(coin) < RefreshInterval

StillPending(x) == x \in pending /\ Expiry[x] >= clock
StillResident(x) == resident[x] # 0 /\ Expiry[x] >= clock

PrunedRefreshes == [c \in Coins |-> IF Recent(c) THEN refreshedAt[c] ELSE 0]
PrunedStore == [x \in Commitments |-> IF StillResident(x) THEN resident[x] ELSE 0]
PrunedPending == {x \in pending : StillPending(x)}

\* A refusal in a registration hold, after the three prunes.
PruneOnly == /\ pending' = PrunedPending
             /\ refreshedAt' = PrunedRefreshes
             /\ resident' = PrunedStore
             /\ broadcast' = {x \in broadcast : StillResident(x)}

\* Mutant: registration compares the commitment alone.
AnyInstance(x, i) == TRUE

\* PartialStore::register: absent, or resident under the same user-signature
\* instance (matches_registration); anything else is a Conflict.
Registrable(x, i) == PrunedStore[x] \in {0, i}

\* Mutant: the coins a refresh creates start no interval.
InputsOnly(r) == Inputs[r]

\* The coins RefreshLog::record stamps.
Stamped(r) == Inputs[r] \cup Outputs[r]

-----------------------------------------------------------------------------
(* handle_sign.                                                              *)

\* enter_spend_preflight, in the ingress hold.
ClaimSlot == preflights' = preflights + 1

\* Drop of SpendPreflightGuard.
DropSlot == preflights' = preflights - 1

\* The ingress hold: authentication and the nonce log's window, the slot, and
\* out into the pin window.
SpendIngress(h, x, i) ==
    /\ At(h, "idle")
    /\ InAgeWindow(x)
    /\ Starts(h, x, i, "pin")
    /\ ClaimSlot
    /\ UNCHANGED <<clock, replayLog, holdLogs, settling, history>>

\* The ruling hold lets the spend go on to its chain preflight.
PinAccepted(h) ==
    /\ At(h, "pin")
    /\ Moves(h, "chain")
    /\ UNCHANGED <<clock, preflights, replayLog, holdLogs, settling, history>>

\* A wrong or locked pin: the slot is dropped before the backoff sleep.  A
\* panic in a window unwinds through the guard and does the same.
PinRefused(h) ==
    /\ At(h, "pin")
    /\ Ends(h)
    /\ DropSlot
    /\ UNCHANGED <<clock, replayLog, holdLogs, settling, history>>

WindowPanics(h) ==
    /\ handler[h].at \in {"pin", "chain"}
    /\ Ends(h)
    /\ DropSlot
    /\ UNCHANGED <<clock, replayLog, holdLogs, settling, history>>

\* The commitment expired while its handler was out of the lock.
ExpiredMeanwhile(h) ==
    /\ ~ InAgeWindow(handler[h].commitment)
    /\ UNCHANGED <<replayLog, holdLogs>>

HasVerdict(h) == \/ <<handler[h].commitment, handler[h].instance>> \in accepted
                 \/ handler[h].commitment \in refused

\* The recorded verdict is returned.
Replays(h) ==
    /\ InAgeWindow(handler[h].commitment)
    /\ HasVerdict(h)
    /\ PruneReplay
    /\ UNCHANGED holdLogs

Unruled(h) == InAgeWindow(handler[h].commitment) /\ ~ HasVerdict(h)

\* node_local_prevout_fetch_failure: this node could not read the prevouts.
FetchFailed(h) ==
    /\ Unruled(h)
    /\ PruneReplay
    /\ UNCHANGED holdLogs

\* A deterministic refusal of the transaction (verify_spend, classify) is
\* recorded under the commitment id.
RefusedForGood(h) ==
    LET x == handler[h].commitment
    IN  /\ Unruled(h)
        /\ accepted' = {key \in accepted : LiveVerdict(key[1])}
        /\ refused' = {y \in refused : LiveVerdict(y)} \cup {x}
        /\ PruneOnly

\* A refusal that depends on this node or this moment (velocity, escape, hold
\* floor, capacity, a registration conflict) is not.
RefusedNow(h) ==
    /\ Unruled(h)
    /\ PruneReplay
    /\ PruneOnly

\* Registration: the pair enters the store, a hot spend becomes pending, the
\* acceptance is recorded.
Registered(h) ==
    LET x == handler[h].commitment
        i == handler[h].instance
    IN  /\ Unruled(h)
        /\ Registrable(x, i)
        /\ accepted' = {key \in accepted : LiveVerdict(key[1])} \cup {<<x, i>>}
        /\ refused' = {y \in refused : LiveVerdict(y)}
        /\ resident' = [PrunedStore EXCEPT ![x] = i]
        /\ broadcast' = {y \in broadcast : StillResident(y)}
        /\ refreshedAt' = PrunedRefreshes
        /\ pending' = PrunedPending \cup ({x} \cap HotSpends)

SpendRegistration(h) ==
    /\ At(h, "chain")
    /\ \/ ExpiredMeanwhile(h)
       \/ Replays(h)
       \/ FetchFailed(h)
       \/ RefusedForGood(h)
       \/ RefusedNow(h)
       \/ Registered(h)
    /\ Moves(h, "leaving")
    /\ UNCHANGED <<clock, preflights, settling, history>>

\* The locals of handle_sign are dropped in reverse order: the lock guard
\* first, the slot after it.
SpendLeaves(h) ==
    /\ At(h, "leaving")
    /\ Ends(h)
    /\ DropSlot
    /\ UNCHANGED <<clock, replayLog, holdLogs, settling, history>>

-----------------------------------------------------------------------------
(* handle_refresh.                                                           *)

RefreshIngress(h, r) ==
    /\ At(h, "idle")
    /\ InAgeWindow(r)
    /\ Starts(h, r, 1, "chain")
    /\ UNCHANGED <<clock, preflights, replayLog, holdLogs, settling, history>>

\* Mutant: only registered spends are looked at.
PendingOnly == PrunedPending # {}

\* The two halves of subordination, read in the registration hold.
Subordinated == PrunedPending # {} \/ preflights > 0

TooSoon(r) == \E c \in Inputs[r] : Recent(c)

\* Admission: the refresh is registered as immediately fireable and its coins
\* are stamped.
Admitted(h) ==
    LET r == handler[h].commitment
    IN  /\ Unruled(h)
        /\ ~ Subordinated
        /\ ~ TooSoon(r)
        /\ Registrable(r, 1)
        /\ accepted' = {key \in accepted : LiveVerdict(key[1])} \cup {<<r, 1>>}
        /\ refused' = {y \in refused : LiveVerdict(y)}
        /\ resident' = [PrunedStore EXCEPT ![r] = 1]
        /\ broadcast' = {y \in broadcast : StillResident(y)}
        /\ pending' = PrunedPending
        /\ refreshedAt' = [c \in Coins |-> IF c \in Stamped(r) THEN clock
                                           ELSE PrunedRefreshes[c]]
        /\ lineage' = [c \in Coins |->
                          IF c \in Inputs[r] \cup Outputs[r] THEN clock
                          ELSE lineage[c]]
        /\ UNCHANGED <<wentBack, settled>>

RefreshRegistration(h) ==
    /\ At(h, "chain")
    /\ \/ ExpiredMeanwhile(h) /\ UNCHANGED history
       \/ Replays(h) /\ UNCHANGED history
       \/ RefusedForGood(h) /\ UNCHANGED history
       \/ RefusedNow(h) /\ UNCHANGED history
       \/ Admitted(h)
    /\ Ends(h)
    /\ UNCHANGED <<clock, preflights, settling>>

-----------------------------------------------------------------------------
(* The fire driver and the clock.                                            *)

\* settle_candidate: the candidate is marked under the store lock ...
MarkBroadcast(x) ==
    /\ resident[x] # 0
    /\ x \notin broadcast
    /\ broadcast' = broadcast \cup {x}
    /\ settling' = settling \cup {x}
    /\ settled' = settled \cup {x}
    /\ UNCHANGED <<clock, handler, preflights, replayLog, pending, refreshedAt,
                   resident, wentBack, lineage>>

\* ... and its pending entry removed under sign_state, in a hold of its own.
RemovePending(x) ==
    /\ x \in settling
    /\ settling' = settling \ {x}
    /\ pending' = pending \ {x}
    /\ UNCHANGED <<clock, handler, preflights, replayLog, refreshedAt, resident,
                   broadcast, history>>

\* The pass that opens every fire tick.
FirePrune ==
    /\ resident' = PrunedStore
    /\ broadcast' = {x \in broadcast : StillResident(x)}
    /\ UNCHANGED <<clock, handler, preflights, replayLog, pending, refreshedAt,
                   settling, history>>

TickClock ==
    /\ clock < LastReading
    /\ clock' = clock + 1
    /\ UNCHANGED <<handler, preflights, replayLog, holdLogs, settling, history>>

\* The wall clock is set back, once: what was forgotten while it ran ahead is
\* gone.
StepBack ==
    /\ ~ wentBack
    /\ clock' \in {t \in GateReadings : t < clock}
    /\ wentBack' = TRUE
    /\ lineage' = [c \in Coins |-> 0]
    /\ UNCHANGED <<handler, preflights, replayLog, holdLogs, settling, settled>>

GateInit ==
    /\ clock = 1
    /\ handler = [h \in SpendHandlers \cup RefreshHandlers |-> Free]
    /\ preflights = 0
    /\ accepted = {}
    /\ refused = {}
    /\ pending = {}
    /\ refreshedAt = [c \in Coins |-> 0]
    /\ resident = [x \in Commitments |-> 0]
    /\ broadcast = {}
    /\ settling = {}
    /\ wentBack = FALSE
    /\ settled = {}
    /\ lineage = [c \in Coins |-> 0]

GateNext ==
    \/ \E h \in SpendHandlers :
          \/ \E s \in Submissions : SpendIngress(h, s[1], s[2])
          \/ PinAccepted(h)
          \/ PinRefused(h)
          \/ WindowPanics(h)
          \/ SpendRegistration(h)
          \/ SpendLeaves(h)
    \/ \E h \in RefreshHandlers :
          \/ \E r \in Refreshes : RefreshIngress(h, r)
          \/ RefreshRegistration(h)
    \/ \E x \in Commitments : MarkBroadcast(x) \/ RemovePending(x)
    \/ FirePrune
    \/ TickClock
    \/ StepBack

GateSpec == GateInit /\ [][GateNext]_gateVars

-----------------------------------------------------------------------------

\* Every variable has its type; the slot counter never wraps below zero and
\* never counts more slots than there are handlers.
GateTypeOK ==
    /\ clock \in GateReadings
    /\ \A h \in DOMAIN handler :
          /\ handler[h].at \in Phases
          /\ At(h, "idle") \/ handler[h].commitment \in Commitments
    /\ preflights \in 0 .. Cardinality(SpendHandlers)
    /\ accepted \subseteq Submissions \cup (Refreshes \X {1})
    /\ refused \subseteq Commitments
    /\ pending \subseteq HotSpends
    /\ refreshedAt \in [Coins -> 0 .. LastReading]
    /\ resident \in [Commitments -> {0, 1} \cup {s[2] : s \in Submissions}]
    /\ broadcast \subseteq {x \in Commitments : resident[x] # 0}
    /\ settling \cup settled \subseteq Commitments
    /\ wentBack \in BOOLEAN

\* A hot spend that is registered, not settled and inside its last second.
WaitingOut(x) == x \in HotSpends /\ StillResident(x) /\ x \notin settled

\* A refresh never overtakes a spend: at the moment one is admitted, no hot
\* spend waits out its Hold on this node and no /sign handler is between its
\* ingress hold and a registration it may still make (the two halves of the
\* predicate in handle_refresh, the slot claimed under the lock and dropped
\* only after the registration hold).
NoRefreshOvertakes ==
    [][\A r \in Refreshes :
          (<<r, 1>> \in accepted' /\ <<r, 1>> \notin accepted) =>
              /\ \A x \in HotSpends : ~ WaitingOut(x)
              /\ \A h \in SpendHandlers : handler[h].at \notin {"pin", "chain"}]_gateVars

\* A chain of refreshes is paced: while the clock does not go back, a coin that
\* a refresh spent or created is not refreshed again within
\* refresh_min_interval_secs, whichever handler prunes the log in between.
RefreshesArePaced ==
    [][\A r \in Refreshes :
          (<<r, 1>> \in accepted' /\ <<r, 1>> \notin accepted) =>
              \A c \in Inputs[r] :
                  lineage[c] > 0 => clock - lineage[c] >= RefreshInterval]_gateVars

\* A settled spend stays settled: a resubmission under another nonce, or under
\* another user-signature instance, does not make it pending again and block
\* refreshes once more, as long as the clock has not gone back.  (Set back by
\* a second from the expiry itself it can: the replay log forgets an acceptance
\* one second before the pending log and the store do.)
SettledStaysSettled == ~ wentBack => (settled \ settling) \cap pending = {}

\* No way out of handle_sign leaks the in-flight slot: with no spend in flight,
\* refreshes are subordinate to registered spends only.
SlotsReturn ==
    (\A h \in SpendHandlers : At(h, "idle")) => preflights = 0

\* The invariant of the logs and the counter that the handlers share: types, a settled
\* spend is not pending again, and the counter is the number of spends in preflight.
GateInv == GateTypeOK /\ SettledStaysSettled /\ SlotsReturn
=============================================================================
