------------------------------ MODULE PinBudget ------------------------------
(***************************************************************************)
(* The pin attempt budget of crates/vault-node/src/pin.rs: a fixed ring of *)
(* failure times, touched in the same slots for every class of pin.        *)
(*                                                                         *)
(* One Charge is one /sign request that reaches its PIN ruling; it runs    *)
(* under the sign_state lock, so it is atomic.  The reading it is given    *)
(* (`wall`) is the wall clock raised to the nonce log's high_water; it may *)
(* step backwards.                                                         *)
(***************************************************************************)
EXTENDS Integers, Sequences

CONSTANTS
    MaxAttempts,  \* max_attempts
    Window,       \* window_secs
    Backoff,      \* backoff_schedule
    Lockout,      \* lockout_secs
    ClockMax      \* largest representable clock reading

\* PinBudgetConfig::validate, and the types.
ASSUME ConfigAssumption ==
    /\ MaxAttempts \in Nat \ {0}
    /\ Window \in Nat \ {0}
    /\ Lockout \in Nat \ {0}
    /\ ClockMax \in Nat \ {0}
    /\ Backoff \in Seq(0 .. ClockMax) /\ Backoff # << >>

VARIABLES
    wall,         \* the reading charge is given
    failTimes,    \* the ring, indexed from 0
    failHead,     \* slot of the oldest counted failure
    fails,        \* how many slots from failHead on are counted
    lockedUntil,  \* lockout horizon, 0 when not locked
    outcome,      \* the last ChargeOutcome
    guesses       \* history: times of the last MaxAttempts + 1 wrong pins that
                  \* were judged since the wall clock last went back

budgetVars == <<failTimes, failHead, fails, lockedUntil, outcome>>
pinVars == <<wall, budgetVars, guesses>>

Readings == 0 .. ClockMax
Slots == 0 .. MaxAttempts - 1

Slot(i) == (failHead + i) % MaxAttempts

SatAdd(a, b) == IF a + b > ClockMax THEN ClockMax ELSE a + b
SatSub(a, b) == IF a > b THEN a - b ELSE 0

\* verify_pin: both slots are always evaluated and duress wins a double match.
Verdict(normalMatches, duressMatches) ==
    IF duressMatches THEN "Duress" ELSE IF normalMatches THEN "Normal" ELSE "Wrong"

\* Mutant: an elapsed lockout frees the node but keeps its failures.
UnlockOnly == [head |-> failHead, fails |-> fails, locked |-> 0]

\* First step of charge: recover from an elapsed lockout.
Recovered ==
    IF lockedUntil # 0 /\ wall >= lockedUntil
      THEN [head |-> 0, fails |-> 0, locked |-> 0]
      ELSE [head |-> failHead, fails |-> fails, locked |-> lockedUntil]

Outside(t) == SatSub(wall, t) >= Window

\* The while loop drops d failures from the head and stops.
Slides(head, count, d) ==
    /\ \A i \in 0 .. d - 1 : Outside(failTimes[(head + i) % MaxAttempts])
    /\ d < count => ~ Outside(failTimes[(head + d) % MaxAttempts])

ScheduledBackoff(k) ==
    Backoff[1 + (IF k < Len(Backoff) - 1 THEN k ELSE Len(Backoff) - 1)]

\* Mutant: a wrong pin is charged, and extends the lockout, while locked.
AppliesAlways(verdict, locked) == verdict = "Wrong"

\* Only wrong pins are charged, and never while locked.
Applies(verdict, locked) == verdict = "Wrong" /\ ~ locked

\* The max_attempts-th counted failure begins the lockout.
Trips(apply, counted) == apply /\ counted = MaxAttempts

LastOf(s, n) == IF Len(s) <= n THEN s ELSE SubSeq(s, Len(s) - n + 1, Len(s))

\* The rest of charge, on the recovered and slid ring.
Settle(verdict, head, count, lockedAt) ==
    LET locked  == lockedAt # 0
        apply   == Applies(verdict, locked)
        backoff == IF apply THEN ScheduledBackoff(count) ELSE 0
        tail    == (head + count) % MaxAttempts
        counted == IF count + 1 < MaxAttempts THEN count + 1 ELSE MaxAttempts
        trips   == Trips(apply, counted)
        horizon == SatAdd(SatAdd(wall, backoff), Lockout)
    IN  /\ failHead' = head
        /\ failTimes' = [failTimes EXCEPT ![tail] = IF apply THEN wall ELSE @]
        /\ fails' = IF apply THEN counted ELSE count
        /\ lockedUntil' = IF trips THEN horizon ELSE lockedAt
        /\ outcome' = [refuse  |-> locked \/ verdict = "Wrong",
                       backoff |-> backoff,
                       locked  |-> lockedUntil' # 0]
        /\ guesses' = IF apply
                        THEN LastOf(Append(guesses, wall), MaxAttempts + 1)
                        ELSE guesses

\* AttemptBudget::charge on the verdict of one request.
Charge(verdict) ==
    LET r == Recovered
    IN  /\ \E d \in 0 .. r.fails :
              /\ Slides(r.head, r.fails, d)
              /\ Settle(verdict, (r.head + d) % MaxAttempts, r.fails - d, r.locked)
        /\ UNCHANGED wall

Request == \E n, d \in BOOLEAN : Charge(Verdict(n, d))

MoveWall == /\ wall' \in Readings
            /\ guesses' = IF wall' < wall THEN << >> ELSE guesses
            /\ UNCHANGED budgetVars

\* AttemptBudget::new.
PinInit ==
        /\ wall \in Readings
        /\ failTimes = [s \in Slots |-> 0]
        /\ failHead = 0
        /\ fails = 0
        /\ lockedUntil = 0
        /\ outcome = [refuse |-> FALSE, backoff |-> 0, locked |-> FALSE]
        /\ guesses = << >>

PinNext == Request \/ MoveWall

PinSpec == PinInit /\ [][PinNext]_pinVars

-----------------------------------------------------------------------------

\* Every variable has its type: the ring indices never leave the ring, and the
\* horizon never leaves the machine's integers.
PinTypeOK ==
    /\ wall \in Readings
    /\ failTimes \in [Slots -> Readings]
    /\ failHead \in Slots
    /\ fails \in 0 .. MaxAttempts
    /\ lockedUntil \in Readings
    /\ outcome \in [refuse : BOOLEAN, backoff : Readings, locked : BOOLEAN]
    /\ guesses \in Seq(Readings) /\ Len(guesses) <= MaxAttempts + 1

\* A full ring means a lockout: charge never leaves max_attempts counted
\* failures on a node that still judges pins (the write at the tail would then
\* overwrite the oldest live failure).
FullMeansLocked == fails = MaxAttempts => lockedUntil # 0

\* Online guessing is limited: while the clock does not go back, any
\* max_attempts + 1 wrong pins that were judged (not refused by a lockout) span
\* at least the window or a lockout, whichever is shorter.  Sliding, recovery,
\* correct pins in between and the wrap of the ring do not open a gap.
GuessRate ==
    Len(guesses) = MaxAttempts + 1 =>
        LET span == guesses[MaxAttempts + 1] - guesses[1]
        IN  span >= Window \/ span >= Lockout \/ guesses[MaxAttempts + 1] = ClockMax

\* The queue the ring stands for: what is in the ring of a locked node is never
\* read again.
Queue == IF lockedUntil # 0 THEN << >>
         ELSE [i \in 1 .. fails |-> failTimes[Slot(i - 1)]]

Abstract == INSTANCE PinLockout WITH queue <- Queue, until <- lockedUntil,
                                     U64Max <- ClockMax

\* The ring implements the transition table of ADR-0013 section 7 above
\* AttemptBudget::charge, for every clock behaviour.
ImplementsLockout == Abstract!Spec

\* The invariant of charge: types, a full ring means a lockout, and the rate at which
\* wrong pins are judged.
PinInv == PinTypeOK /\ FullMeansLocked /\ GuessRate
=============================================================================
