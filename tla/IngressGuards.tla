---------------------------- MODULE IngressGuards ----------------------------
(***************************************************************************)
(* IngressGuards of channel.rs: freshness, replay and quota of an          *)
(* authenticated envelope, decided in one hold of the guards' lock against *)
(* a clock that never goes back.                                           *)
(***************************************************************************)
EXTENDS Integers, Sequences, FiniteSets

CONSTANTS
    Senders,                     \* peers that sign envelopes
    FreshnessPast, FreshnessFuture, QuotaWindow,
    Quota                        \* per_peer_quota_per_min

ASSUME GuardsAssumption ==
    /\ FreshnessPast \in Nat /\ FreshnessFuture \in Nat
    /\ QuotaWindow \in Nat \ {0} /\ Quota \in Nat \ {0}

VARIABLES
    highWater,   \* the latest clock reading of any call
    seenNonces,  \* {[peer, nonce, ts]} retained
    charged,     \* PeerQuota.charged_at of each peer
    accepts,     \* history: {<<peer, nonce, ts>>} accepted
    acceptedTwice, \* history: an envelope was accepted again
    charges      \* history: every charge ever made, by peer

guardVars == <<highWater, seenNonces, charged, accepts, acceptedTwice, charges>>

GuardsInit ==
    /\ highWater = 0 /\ seenNonces = {}
    /\ charged = [p \in Senders |-> << >>]
    /\ accepts = {} /\ acceptedTwice = FALSE
    /\ charges = [p \in Senders |-> << >>]

Floor(a, b) == IF a > b THEN a - b ELSE 0        \* saturating_sub
Later(a, b) == IF a > b THEN a ELSE b

\* How many charges charge_quota pops off the front: those outside the window.
Popped(p, now) ==
    CHOOSE k \in 0 .. Len(charged[p]) :
        /\ \A i \in 1 .. k : charged[p][i] <= Floor(now, QuotaWindow)
        /\ k < Len(charged[p]) => charged[p][k + 1] > Floor(now, QuotaWindow)

LiveCharges(p, now) == SubSeq(charged[p], Popped(p, now) + 1, Len(charged[p]))

UnderQuota(p, now) == Len(LiveCharges(p, now)) < Quota

\* What an over-quota peer is told to wait.
RetryAfter(p, now) == Later(Floor(Head(LiveCharges(p, now)) + QuotaWindow, now), 1)

\* charge_quota
ChargeQuota(p, now) ==
    IF UnderQuota(p, now)
    THEN /\ charged' = [charged EXCEPT ![p] = Append(LiveCharges(p, now), now)]
         /\ charges' = [charges EXCEPT ![p] = Append(@, now)]
    ELSE /\ charged' = [charged EXCEPT ![p] = LiveCharges(p, now)]
         /\ UNCHANGED charges

Fresh(ts, now) == Floor(now, FreshnessPast) <= ts /\ ts <= now + FreshnessFuture

\* Mutant: nonces are forgotten a second before their timestamp goes stale.
RetainedShort(now) == {s \in seenNonces : s.ts > Floor(now, FreshnessPast)}

\* The retain of check_and_consume: by the envelope's timestamp.
Retained(now) == {s \in seenNonces : s.ts >= Floor(now, FreshnessPast)}

\* Mutant: envelopes of a peer are told apart by their timestamps.
KnownByTimestamp(e, now) == \E s \in Retained(now) : s.peer = e.peer /\ s.ts = e.ts

Known(e, now) == \E s \in Retained(now) : s.peer = e.peer /\ s.nonce = e.nonce

\* The verdict on envelope e at the guards' clock.
Verdict(e, now) ==
    IF ~ UnderQuota(e.peer, now) THEN "limited"
    ELSE IF ~ Fresh(e.ts, now)   THEN "stale"
    ELSE IF Known(e, now)        THEN "replayed"
    ELSE "accepted"

Clock(reading) == Later(highWater, reading)

\* check_and_consume.  Every authenticated envelope is charged; only an accepted
\* one is remembered.  A stale one leaves the nonces unpruned.
CheckAndConsume(e, reading) ==
    LET now == Clock(reading)
        key == <<e.peer, e.nonce, e.ts>> IN
    /\ highWater' = now
    /\ ChargeQuota(e.peer, now)
    /\ IF Verdict(e, now) = "accepted"
       THEN /\ seenNonces' = Retained(now)
                   \cup {[peer |-> e.peer, nonce |-> e.nonce, ts |-> e.ts]}
            /\ accepts' = accepts \cup {key}
            /\ acceptedTwice' = (acceptedTwice \/ key \in accepts)
       ELSE /\ seenNonces' = IF Fresh(e.ts, now) THEN Retained(now) ELSE seenNonces
            /\ UNCHANGED <<accepts, acceptedTwice>>

-----------------------------------------------------------------------------

\* An envelope passes the guards at most once, however late or often copies of
\* it arrive and however the clock moves (check_and_consume: a nonce is kept for
\* as long as its timestamp is fresh, by a clock that does not go back).
EnvelopeOnce == ~ acceptedTwice

\* What the argument rests on: an accepted envelope is remembered, or stale for
\* ever.
AcceptedRememberedOrStale ==
    \A a \in accepts :
        \/ [peer |-> a[1], nonce |-> a[2], ts |-> a[3]] \in seenNonces
        \/ a[3] < Floor(highWater, FreshnessPast)

\* No peer has more than Quota envelopes charged within one window, at any
\* alignment of the window (PeerQuota: no two bursts across a reset).
QuotaHolds ==
    \A p \in Senders : \A i \in DOMAIN charges[p] :
        i + Quota \in DOMAIN charges[p] =>
            charges[p][i + Quota] - charges[p][i] >= QuotaWindow

\* The invariant of check_and_consume and charge_quota.
GuardsInv == EnvelopeOnce /\ AcceptedRememberedOrStale /\ QuotaHolds
=============================================================================
