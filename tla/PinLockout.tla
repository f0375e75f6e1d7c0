----------------------------- MODULE PinLockout -----------------------------
(***************************************************************************)
(* What the pin attempt budget promises (the transition table above        *)
(* AttemptBudget::charge in crates/vault-node/src/pin.rs), without the     *)
(* constant-time ring: an open node keeps the queue of recent wrong pins   *)
(* in the order they were charged, a locked node only its horizon.         *)
(***************************************************************************)
EXTENDS Integers, Sequences

CONSTANTS
    MaxAttempts,  \* max_attempts
    Window,       \* window_secs
    Backoff,      \* backoff_schedule, a non-empty sequence of seconds
    Lockout,      \* lockout_secs
    U64Max        \* largest representable clock reading

VARIABLES
    wall,     \* the clock reading the next request is charged at
    queue,    \* times of the wrong pins counted, oldest first
    until,    \* lockout horizon, 0 when open
    outcome   \* the last ChargeOutcome

Verdicts == {"Normal", "Duress", "Wrong"}
Time == 0 .. U64Max

Capped(t) == IF t > U64Max THEN U64Max ELSE t
BackoffAfter(k) == Backoff[IF k + 1 < Len(Backoff) THEN k + 1 ELSE Len(Backoff)]
TooOld(t) == wall - t >= Window

\* d failures at the front of the queue have left the window.
Expired(q, d) == /\ \A i \in 1 .. d : TooOld(q[i])
                 /\ d < Len(q) => ~ TooOld(q[d + 1])

Refused == /\ outcome' = [refuse |-> TRUE, backoff |-> 0, locked |-> TRUE]
           /\ UNCHANGED <<queue, until>>

\* A correct pin signs and leaves the surviving count alone; a wrong one joins
\* the queue, and the one that fills it locks the node.
Judged(q, verdict) ==
    LET pause == BackoffAfter(Len(q))
        trips == Len(q) + 1 = MaxAttempts
    IN  IF verdict # "Wrong"
          THEN /\ queue' = q
               /\ until' = 0
               /\ outcome' = [refuse |-> FALSE, backoff |-> 0, locked |-> FALSE]
          ELSE /\ queue' = IF trips THEN << >> ELSE Append(q, wall)
               /\ until' = IF trips THEN Capped(Capped(wall + pause) + Lockout)
                                    ELSE 0
               /\ outcome' = [refuse |-> TRUE, backoff |-> pause, locked |-> trips]

Charge(verdict) ==
    /\ IF until # 0 /\ wall < until
         THEN Refused
         ELSE \E d \in 0 .. Len(queue) :
                /\ Expired(queue, d)
                /\ Judged(SubSeq(queue, d + 1, Len(queue)), verdict)
    /\ UNCHANGED wall

SetWall == wall' \in Time /\ UNCHANGED <<queue, until, outcome>>

Init == /\ wall \in Time
        /\ queue = << >>
        /\ until = 0
        /\ outcome = [refuse |-> FALSE, backoff |-> 0, locked |-> FALSE]

Next == (\E v \in Verdicts : Charge(v)) \/ SetWall

Spec == Init /\ [][Next]_<<wall, queue, until, outcome>>
=============================================================================
