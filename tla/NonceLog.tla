------------------------------ MODULE NonceLog ------------------------------
(***************************************************************************)
(* The coordinator-request nonce log of crates/vault-node/src/replay.rs.   *)
(*                                                                         *)
(* Every /sign and /refresh request carries a coordinator nonce and a      *)
(* signed expiry.  The log decides, in one call made under the sign_state  *)
(* lock, whether the request is fresh, and records it.  Two clocks take    *)
(* part.  The wall clock may be stepped in either direction between any    *)
(* two calls (NTP, a VM restore), so every call is given an arbitrary      *)
(* reading `now`.  The process-monotonic clock (HotClock in channel.rs)    *)
(* only advances and is a variable.                                        *)
(*                                                                         *)
(* Clock readings are machine integers.  U64Max is the largest one, and    *)
(* the additions of the code saturate at it or are checked against it; a   *)
(* small U64Max makes TLC visit that boundary.                             *)
(***************************************************************************)
EXTENDS Integers, FiniteSets

CONSTANTS
    Nonces,           \* well-formed nonces (1..64 bytes)
    MalformedNonces,  \* nonces check_and_record refuses for their length
    MaxAge,           \* max_commitment_age_secs
    MaxCoordNonces,   \* MAX_COORD_NONCES
    ChannelMode,      \* the node was built with a channel: mono_now is Some
    U64Max            \* largest representable clock reading

ASSUME ConstantsAssumption ==
    /\ MaxAge \in Nat \ {0}
    /\ MaxCoordNonces \in Nat \ {0}
    /\ ChannelMode \in BOOLEAN
    /\ U64Max \in Nat
    /\ Nonces \cap MalformedNonces = {}

VARIABLES
    mono,      \* HotClock: seconds of process uptime
    entries,   \* NonceLog.entries
    highWater, \* NonceLog.high_water
    accepts    \* history: how often each (nonce, expiry) was accepted

logVars == <<entries, highWater, accepts>>
vars == <<mono, logVars>>

Time == 0 .. U64Max

\* An entry that is not in the map.  No accepted request has expiry 0, so
\* expiry 0 is free to mean "absent", and deadline 0 to mean "no deadline".
Absent == [expiry |-> 0, deadline |-> 0]

NonceEntry == [expiry : Time, deadline : Time]

Resident(n) == entries[n].expiry > 0

SaturatingAdd(a, b) == IF a + b > U64Max THEN U64Max ELSE a + b

EffectiveNow(now) == IF highWater > now THEN highWater ELSE now

\* Mutant: liveness judged by the wall clock alone.
IsLiveByWall(entry, now) == entry.expiry > EffectiveNow(now)

\* NonceEntry::is_live.  Node::channel is fixed at construction, so the
\* match arm (Some(deadline), None) never meets a resident deadline.
IsLive(entry, now) ==
    \/ entry.expiry > EffectiveNow(now)
    \/ ChannelMode /\ mono < entry.deadline

LiveNonces(now) == {n \in Nonces : IsLive(entries[n], now)}

\* The Carrier deadline D = M + (E - W) a channel-mode Spend fixes when it is
\* accepted; a Refresh and an absent-channel Spend record none.
CarrierDeadline(e, now, spend) ==
    IF ChannelMode /\ spend THEN mono + (e - EffectiveNow(now)) ELSE 0

-----------------------------------------------------------------------------
(* The early returns of check_and_record, in the order the code tests them.  *)
(* WithinAge, Full and Overflows are its three bounds.                       *)

WithinAge(e, now) == e <= SaturatingAdd(now, MaxAge)
Full(now) == Cardinality(LiveNonces(now)) >= MaxCoordNonces
Overflows(e, now, spend) == CarrierDeadline(e, now, spend) > U64Max

Refusal(n, e, now, spend) ==
    IF n \in MalformedNonces THEN "InvalidLength"
    ELSE IF e <= EffectiveNow(now) \/ ~ WithinAge(e, now) THEN "OutsideWindow"
    ELSE IF IsLive(entries[n], now) THEN "Replayed"
    ELSE IF Full(now) THEN "AtCapacity"
    ELSE IF Overflows(e, now, spend) THEN "OutsideWindow"
    ELSE "None"

IsMax(m, S) == m \in S /\ \A x \in S : x <= m

\* The expiries retain() drops.
Forgotten(now) == {entries[m].expiry : m \in Nonces \ LiveNonces(now)}

\* Mutants: pruning without advancing the mark; latching the raw reading.
KeepMark(now) == highWater' = highWater
MarkAtNow(now) == highWater' = EffectiveNow(now)

\* high_water advances through the expiries actually forgotten.
AdvanceMark(now) ==
    \E mark \in Time : /\ IsMax(mark, {highWater} \cup Forgotten(now))
                       /\ highWater' = mark

\* The accepting tail: prune under both clocks, advance the mark, insert.
Record(n, e, now, spend) ==
    /\ AdvanceMark(now)
    /\ entries' =
          [m \in Nonces |->
             IF m = n THEN [expiry   |-> e,
                            deadline |-> CarrierDeadline(e, now, spend)]
             ELSE IF m \in LiveNonces(now) THEN entries[m]
             ELSE Absent]
    /\ accepts' = [accepts EXCEPT ![n][e] = @ + 1]

\* check_and_record: a refusal leaves the log as it was.
CheckAndRecord(n, e, now, spend) ==
    /\ IF Refusal(n, e, now, spend) = "None"
         THEN Record(n, e, now, spend)
         ELSE UNCHANGED logVars
    /\ UNCHANGED mono

Spend   == \E n \in Nonces \cup MalformedNonces, e, now \in Time :
              CheckAndRecord(n, e, now, TRUE)
Refresh == \E n \in Nonces \cup MalformedNonces, e, now \in Time :
              CheckAndRecord(n, e, now, FALSE)

TickMono == /\ mono < U64Max
            /\ mono' = mono + 1
            /\ UNCHANGED logVars

\* The read that lets an outer-stale /channel receipt be judged: the deadline
\* of exactly this generation, while its expiry is above the mark; 0 if none.
OuterStaleCarrierDeadline(n, e) ==
    IF highWater < e /\ entries[n].expiry = e THEN entries[n].deadline ELSE 0

LogInit ==
    /\ entries = [n \in Nonces |-> Absent]
    /\ highWater = 0
    /\ accepts = [n \in Nonces |-> [e \in Time |-> 0]]

Init == mono = 0 /\ LogInit

Next == Spend \/ Refresh \/ TickMono

Spec == Init /\ [][Next]_vars

-----------------------------------------------------------------------------

\* Every variable has its type; in particular no deadline and no mark ever
\* leaves the machine's integers (the checked_add of check_and_record).
TypeOK ==
    /\ mono \in Time
    /\ entries \in [Nonces -> NonceEntry]
    /\ highWater \in Time
    /\ accepts \in [Nonces -> [Time -> Nat]]

\* A captured request is never accepted a second time, whatever the wall clock
\* did in between: (nonce, expiry) is single-use for the node's lifetime even
\* though entries are pruned (replay.rs, NonceLog::check_and_record).
SingleUse == \A n \in Nonces, e \in Time : accepts[n][e] <= 1

\* Why SingleUse holds: an accepted request is either still resident or its
\* expiry is at or below the mark.
AcceptedIsRemembered ==
    \A n \in Nonces, e \in Time :
        accepts[n][e] > 0 => entries[n].expiry = e \/ e <= highWater

\* The mark is only ever the expiry of a request that was accepted and then
\* forgotten: a transient forward excursion of the wall clock cannot latch it
\* at a raw reading and refuse honestly timed requests after the correction.
MarkIsForgottenExpiry ==
    highWater > 0 =>
        \E n \in Nonces : accepts[n][highWater] > 0

\* The log never holds more than MAX_COORD_NONCES nonces.
CapacityBound == Cardinality({n \in Nonces : Resident(n)}) <= MaxCoordNonces

\* A deadline-bearing entry is resident for at most one commitment age of
\* process uptime, whatever high_water was when it was accepted.
DeadlineBound == \A n \in Nonces : entries[n].deadline <= mono + MaxAge

\* What the outer-stale read hands out is the deadline of a request this node
\* accepted, and one the mark has not passed: a receipt cannot be judged
\* against the deadline of another generation of the same nonce.
OuterStaleIsAccepted ==
    \A n \in Nonces, e \in Time :
        OuterStaleCarrierDeadline(n, e) > 0 =>
            accepts[n][e] = 1 /\ e > highWater

\* An entry is replaced or removed only when both clocks have ended it, and
\* then the mark remembers its expiry: a different body under the same nonce
\* cannot displace a live Carrier.
LeavesOnlyDead ==
    [][\A n \in Nonces :
          entries'[n] # entries[n] /\ Resident(n) =>
              /\ entries[n].deadline <= mono
              /\ entries[n].expiry <= highWater']_vars

\* The invariant of check_and_record: types (no sum leaves the machine's integers),
\* an accepted request is remembered, a deadline is at most one commitment age ahead.
LogInv == TypeOK /\ AcceptedIsRemembered /\ DeadlineBound

\* The log stays of use: the mark is never a mere clock reading, the log keeps to its
\* capacity, and the outer-stale read answers only for what this node accepted.
LogServes == MarkIsForgottenExpiry /\ CapacityBound /\ OuterStaleIsAccepted
=============================================================================
