-------------------------- MODULE SignStateProofs --------------------------
(***************************************************************************)
(* Proofs about the state behind POST /sign: the coordinator nonce log,    *)
(* the PIN attempt budget, the gate of refreshes and the policy check of a *)
(* Spend, each for every value of its constants and any behaviour of the   *)
(* wall clock.                                                             *)
(***************************************************************************)
EXTENDS NonceLog, PinBudget, RefreshGate, PolicyCore, FiniteSetTheorems,
        WellFoundedInduction, TLAPS

-----------------------------------------------------------------------------
(* NonceLog.  SingleUse is not inductive by itself: that a request is not    *)
(* accepted again rests on the node still remembering it, in the map or in   *)
(* the mark.  The inductive invariant adds AcceptedIsRemembered.             *)

\* Only a node with a channel fixes deadlines.
DeadlinesNeedChannel ==
    \A n \in Nonces : entries[n].deadline > 0 => ChannelMode

LogIInv == /\ TypeOK
        /\ AcceptedIsRemembered
        /\ SingleUse
        /\ DeadlineBound
        /\ DeadlinesNeedChannel

\* A request was refused, or only the monotonic clock advanced.
IdleStep == /\ UNCHANGED logVars
            /\ mono' \in Time /\ mono' >= mono

\* An accepted request was in its window, was not resident as a live entry, found
\* the log not full, and its deadline did not overflow.
AcceptedStep(n, e, now, spend) ==
    /\ e > EffectiveNow(now)
    /\ WithinAge(e, now)
    /\ ~ IsLive(entries[n], now)
    /\ ~ Full(now)
    /\ CarrierDeadline(e, now, spend) <= U64Max
    /\ Record(n, e, now, spend)
    /\ UNCHANGED mono

\* Every step is one of the two.
LEMMA StepCases ==
    ASSUME TypeOK, [Next]_vars
    PROVE  \/ IdleStep
           \/ \E n \in Nonces, e \in Time, now \in Time, spend \in BOOLEAN :
                 AcceptedStep(n, e, now, spend)
<1>1. ASSUME NEW n \in Nonces \cup MalformedNonces, NEW e \in Time,
             NEW now \in Time, NEW spend \in BOOLEAN,
             CheckAndRecord(n, e, now, spend)
      PROVE  IdleStep \/ (n \in Nonces /\ AcceptedStep(n, e, now, spend))
  <2>1. CASE Refusal(n, e, now, spend) = "None"
    <3>1. Record(n, e, now, spend) /\ UNCHANGED mono
      BY <1>1, <2>1 DEF CheckAndRecord
    <3>2. /\ n \notin MalformedNonces
          /\ ~ (e <= EffectiveNow(now) \/ ~ WithinAge(e, now))
          /\ ~ IsLive(entries[n], now)
          /\ ~ Full(now)
          /\ ~ Overflows(e, now, spend)
      BY <2>1, Zenon DEF Refusal
    <3>3. /\ EffectiveNow(now) \in Nat /\ e \in Nat
          /\ CarrierDeadline(e, now, spend) \in Int
      BY ConstantsAssumption
      DEF TypeOK, EffectiveNow, CarrierDeadline, Time
    <3>4. n \in Nonces
      BY <1>1, <3>2
    <3>5. /\ e > EffectiveNow(now) /\ WithinAge(e, now)
          /\ CarrierDeadline(e, now, spend) <= U64Max
      BY <3>2, <3>3, ConstantsAssumption DEF Overflows
    <3> QED
      BY <3>1, <3>2, <3>4, <3>5 DEF AcceptedStep
  <2>2. CASE Refusal(n, e, now, spend) # "None"
    BY <1>1, <2>2 DEF CheckAndRecord, IdleStep, TypeOK, Time
  <2> QED
    BY <2>1, <2>2
<1>2. CASE Spend
  BY <1>1, <1>2 DEF Spend
<1>3. CASE Refresh
  BY <1>1, <1>3 DEF Refresh
<1>4. CASE TickMono
  BY <1>4, ConstantsAssumption DEF TickMono, IdleStep, TypeOK, Time
<1>5. CASE UNCHANGED vars
  BY <1>5 DEF vars, IdleStep, TypeOK, Time
<1> QED
  BY <1>2, <1>3, <1>4, <1>5 DEF Next

\* An accepted deadline lies between the current uptime and one commitment age
\* later.
LEMMA DeadlineRange ==
    ASSUME TypeOK, NEW e \in Time, NEW now \in Time, NEW spend \in BOOLEAN,
           e > EffectiveNow(now), WithinAge(e, now)
    PROVE  /\ CarrierDeadline(e, now, spend) \in Nat
           /\ CarrierDeadline(e, now, spend) <= mono + MaxAge
<1> now \in Nat /\ mono \in Nat /\ highWater \in Nat /\ e \in Nat
    /\ MaxAge \in Nat /\ U64Max \in Nat
  BY ConstantsAssumption DEF TypeOK, Time
<1> QED
  BY DEF CarrierDeadline, EffectiveNow, WithinAge, SaturatingAdd

\* The mark only advances, and covers the expiry of every entry pruned.
LEMMA MarkCovers ==
    ASSUME TypeOK, NEW now \in Time, AdvanceMark(now)
    PROVE  /\ highWater' \in Time
           /\ highWater' >= highWater
           /\ \A m \in Nonces : ~ IsLive(entries[m], now) =>
                 entries[m].expiry <= highWater'
BY DEF TypeOK, AdvanceMark, IsMax, Forgotten, LiveNonces, Time

-----------------------------------------------------------------------------

LEMMA TypeStep == TypeOK /\ [Next]_vars => TypeOK'
<1> SUFFICES ASSUME TypeOK, [Next]_vars PROVE TypeOK'
  OBVIOUS
<1>1. CASE IdleStep
  BY <1>1 DEF TypeOK, IdleStep, logVars
<1>3. ASSUME NEW n \in Nonces, NEW e \in Time, NEW now \in Time,
             NEW spend \in BOOLEAN, AcceptedStep(n, e, now, spend)
      PROVE  TypeOK'
  <2>1. CarrierDeadline(e, now, spend) \in Time
    BY <1>3, DeadlineRange, ConstantsAssumption DEF AcceptedStep, Time
  <2>2. highWater' \in Time
    BY <1>3, MarkCovers DEF AcceptedStep, Record
  <2>3. entries' \in [Nonces -> NonceEntry]
    <3>1. [expiry |-> e, deadline |-> CarrierDeadline(e, now, spend)] \in NonceEntry
      BY <2>1 DEF NonceEntry
    <3>2. Absent \in NonceEntry
      BY ConstantsAssumption DEF Absent, NonceEntry, Time
    <3> QED
      BY <1>3, <3>1, <3>2 DEF AcceptedStep, Record, TypeOK
  <2>4. accepts' \in [Nonces -> [Time -> Nat]]
    BY <1>3 DEF AcceptedStep, Record, TypeOK
  <2> QED
    BY <1>3, <2>2, <2>3, <2>4 DEF AcceptedStep, TypeOK
<1> QED
  BY <1>1, <1>3, StepCases

LEMMA InitHolds == Init => LogIInv
BY ConstantsAssumption
DEF Init, LogIInv, TypeOK, AcceptedIsRemembered, SingleUse, DeadlineBound,
    DeadlinesNeedChannel, Absent, NonceEntry,
    LogInit, Time

LEMMA IInvStep == LogIInv /\ [Next]_vars => LogIInv'
<1> SUFFICES ASSUME LogIInv, [Next]_vars PROVE LogIInv'
  OBVIOUS
<1> USE DEF LogIInv
<1>1. TypeOK'
  BY TypeStep
<1>2. ASSUME UNCHANGED <<entries, highWater, accepts>>, mono' \in Nat, mono' >= mono
      PROVE  LogIInv'
  <2>1. DeadlineBound'
    BY <1>2, ConstantsAssumption
    DEF DeadlineBound, TypeOK, NonceEntry, Time
  <2> QED
    BY <1>1, <1>2, <2>1
    DEF AcceptedIsRemembered, SingleUse, DeadlinesNeedChannel
<1>3. ASSUME NEW n \in Nonces, NEW e \in Time, NEW now \in Time,
             NEW spend \in BOOLEAN, AcceptedStep(n, e, now, spend)
      PROVE  LogIInv'
  <2>1. accepts' = [accepts EXCEPT ![n][e] = @ + 1]
    BY <1>3 DEF AcceptedStep, Record
  <2>2. /\ highWater' \in Nat /\ highWater \in Nat
        /\ highWater' >= highWater
        /\ \A m \in Nonces : ~ IsLive(entries[m], now) =>
              entries[m].expiry <= highWater'
    BY <1>3, MarkCovers DEF AcceptedStep, Record, TypeOK, Time
  \* The request was not accepted before: it would be resident and live, or
  \* at or below the mark.
  <2>3. accepts[n][e] = 0
    <3>1. e > highWater
      BY <1>3 DEF AcceptedStep, EffectiveNow, TypeOK, Time
    <3>2. entries[n].expiry # e
      BY <1>3 DEF AcceptedStep, IsLive
    <3>3. ~ (accepts[n][e] > 0)
      BY <3>1, <3>2 DEF AcceptedIsRemembered, TypeOK, Time
    <3> QED
      BY <3>3 DEF TypeOK
  <2>4. ASSUME NEW m \in Nonces, NEW f \in Time
        PROVE  /\ accepts'[m][f] = IF m = n /\ f = e THEN 1 ELSE accepts[m][f]
               /\ accepts[m][f] \in Nat
    BY <2>1, <2>3 DEF TypeOK
  <2>5. SingleUse'
    BY <2>4 DEF SingleUse
  <2>6. ASSUME NEW m \in Nonces, NEW f \in Time, accepts'[m][f] > 0
        PROVE  entries'[m].expiry = f \/ f <= highWater'
    <3>1. CASE m = n /\ f = e
      BY <1>3, <3>1 DEF AcceptedStep, Record
    <3>2. CASE ~ (m = n /\ f = e)
      <4>1. entries[m].expiry = f \/ f <= highWater
        BY <2>4, <2>6, <3>2 DEF AcceptedIsRemembered
      <4>2. CASE IsLive(entries[m], now)
        <5>1. m # n /\ m \in LiveNonces(now)
          BY <1>3, <4>2 DEF AcceptedStep, LiveNonces
        <5>2. entries'[m] = entries[m]
          BY <1>3, <5>1 DEF AcceptedStep, Record
        <5> QED
          BY <2>2, <4>1, <5>2 DEF Time
      <4>3. CASE ~ IsLive(entries[m], now)
        BY <2>2, <4>1, <4>3 DEF Time
      <4> QED
        BY <4>2, <4>3
    <3> QED
      BY <3>1, <3>2
  <2>7. ASSUME NEW m \in Nonces
        PROVE  /\ entries'[m].deadline <= mono' + MaxAge
               /\ entries'[m].deadline > 0 => ChannelMode
    <3>1. mono' = mono /\ mono \in Nat /\ MaxAge \in Nat
      BY <1>3, ConstantsAssumption DEF AcceptedStep, TypeOK, Time
    <3>2. /\ CarrierDeadline(e, now, spend) <= mono + MaxAge
          /\ CarrierDeadline(e, now, spend) > 0 => ChannelMode
      BY <1>3, DeadlineRange DEF AcceptedStep, CarrierDeadline
    <3>3. \/ entries'[m].deadline = CarrierDeadline(e, now, spend)
          \/ entries'[m].deadline = entries[m].deadline
          \/ entries'[m].deadline = 0
      BY <1>3 DEF AcceptedStep, Record, Absent
    <3> QED
      BY <3>1, <3>2, <3>3 DEF DeadlineBound, DeadlinesNeedChannel
  <2> QED
    BY <1>1, <2>5, <2>6, <2>7
    DEF AcceptedIsRemembered, DeadlineBound, DeadlinesNeedChannel
<1>4. CASE IdleStep
  BY <1>2, <1>4 DEF IdleStep, logVars, Time
<1> QED
  BY <1>3, <1>4, StepCases

\* The inductive invariant holds in every reachable state of the log.
LEMMA IInvHolds == Spec => []LogIInv
BY InitHolds, IInvStep, PTL DEF Spec

\* Every reachable state is well typed: no deadline and no mark computed by
\* check_and_record exceeds the machine's integers, whatever their width.
THEOREM TypeCorrect == Spec => []TypeOK
<1>1. LogIInv => TypeOK
  BY DEF LogIInv
<1> QED
  BY <1>1, IInvHolds, PTL

\* The invariant that check_and_record keeps: types, what was accepted is remembered
\* by an entry or by the mark, and no deadline is more than a commitment age ahead.
THEOREM LogInvHolds == Spec => []LogInv
<1>1. LogIInv => LogInv
  BY DEF LogIInv, LogInv
<1> QED
  BY <1>1, IInvHolds, PTL

\* check_and_record accepts a given (nonce, expiry) at most once in the life of
\* the node, for any wall-clock steps between the calls.
THEOREM SingleUseHolds == Spec => []SingleUse
<1>1. LogIInv => SingleUse
  BY DEF LogIInv
<1> QED
  BY <1>1, IInvHolds, PTL

\* The prune of check_and_record drops or replaces an entry only after both
\* clocks ended it, and the mark then covers its expiry.
THEOREM LeavesOnlyDeadHolds == Spec => LeavesOnlyDead
<1>1. ASSUME LogIInv, [Next]_vars, NEW n \in Nonces,
             entries'[n] # entries[n], Resident(n)
      PROVE  entries[n].deadline <= mono /\ entries[n].expiry <= highWater'
  <2>1. PICK m \in Nonces, e \in Time, now \in Time, spend \in BOOLEAN :
           AcceptedStep(m, e, now, spend)
    BY <1>1, StepCases DEF LogIInv, IdleStep, logVars
  <2>2. ~ IsLive(entries[n], now)
    BY <1>1, <2>1 DEF AcceptedStep, Record, LiveNonces
  <2>3. entries[n].expiry <= highWater'
    BY <1>1, <2>1, <2>2, MarkCovers DEF LogIInv, AcceptedStep, Record
  <2>4. /\ entries[n].deadline \in Nat /\ mono \in Nat
        /\ entries[n].deadline > 0 => ChannelMode
    BY <1>1 DEF LogIInv, TypeOK, NonceEntry, Time, DeadlinesNeedChannel
  <2> QED
    BY <2>2, <2>3, <2>4 DEF IsLive
<1>2. LogIInv /\ [Next]_vars =>
         [\A n \in Nonces :
             entries'[n] # entries[n] /\ Resident(n) =>
                 /\ entries[n].deadline <= mono
                 /\ entries[n].expiry <= highWater']_vars
  BY <1>1
<1> QED
  BY <1>2, IInvHolds, PTL DEF Spec, LeavesOnlyDead

\* A Carrier deadline fixed by check_and_record is never more than one
\* commitment age of process uptime ahead, so the log drains in bounded time.
THEOREM DeadlineBoundHolds == Spec => []DeadlineBound
<1>1. LogIInv => DeadlineBound
  BY DEF LogIInv
<1> QED
  BY <1>1, IInvHolds, PTL

-----------------------------------------------------------------------------
(* The log stays of use: LogServes.                                          *)

Residents == {n \in Nonces : Resident(n)}

\* An entry is the record of an accepted request, and an absent one has no
\* deadline; the residents are within the capacity (Nonces may be infinite).
ServeInv ==
    /\ \A n \in Nonces : Resident(n) => accepts[n][entries[n].expiry] > 0
    /\ \A n \in Nonces : entries[n].deadline > 0 => Resident(n)
    /\ IsFiniteSet(Residents) /\ Cardinality(Residents) <= MaxCoordNonces
    /\ MarkIsForgottenExpiry

LEMMA ServeInit == Init => ServeInv
<1> SUFFICES ASSUME Init PROVE ServeInv
  OBVIOUS
<1>1. \A n \in Nonces : entries[n] = [expiry |-> 0, deadline |-> 0]
  BY DEF Init, LogInit, Absent
<1>2. Residents = {}
  BY <1>1 DEF Residents, Resident
<1>3. highWater = 0
  BY DEF Init, LogInit
<1> QED
  BY <1>1, <1>2, <1>3, FS_EmptySet, ConstantsAssumption
  DEF ServeInv, Resident, MarkIsForgottenExpiry

LEMMA ServeStep == LogIInv /\ ServeInv /\ [Next]_vars => ServeInv'
<1> SUFFICES ASSUME LogIInv, ServeInv, [Next]_vars PROVE ServeInv'
  OBVIOUS
<1>1. CASE IdleStep
  BY <1>1 DEF IdleStep, logVars, ServeInv, Residents, Resident, MarkIsForgottenExpiry
<1>2. ASSUME NEW n \in Nonces, NEW e \in Time, NEW now \in Time,
             NEW spend \in BOOLEAN, AcceptedStep(n, e, now, spend)
      PROVE  ServeInv'
  <2>1. /\ accepts' = [accepts EXCEPT ![n][e] = @ + 1]
        /\ accepts \in [Nonces -> [Time -> Nat]]
        /\ highWater \in Nat /\ highWater' \in Time /\ mono \in Nat
        /\ EffectiveNow(now) \in Nat
    BY <1>2, MarkCovers
    DEF AcceptedStep, Record, LogIInv, TypeOK, EffectiveNow, Time
  <2>2. \A m \in Nonces, f \in Time : accepts[m][f] > 0 => accepts'[m][f] > 0
    BY <2>1
  <2>3. accepts'[n][e] > 0
    BY <2>1
  <2>4. e > 0 /\ e \in Nat
    BY <1>2, <2>1 DEF AcceptedStep, Time
  <2>5. \A m \in Nonces : entries[m].expiry \in Time /\ entries[m].deadline \in Time
    BY DEF LogIInv, TypeOK, NonceEntry
  \* What is live is resident.
  <2>6. LiveNonces(now) \subseteq Residents
    <3>1. ASSUME NEW m \in Nonces, IsLive(entries[m], now) PROVE Resident(m)
      <4>1. CASE entries[m].expiry > EffectiveNow(now)
        BY <2>1, <2>5, <4>1 DEF Resident, Time
      <4>2. CASE mono < entries[m].deadline
        BY <2>1, <2>5, <4>2 DEF ServeInv, Time
      <4> QED
        BY <3>1, <4>1, <4>2 DEF IsLive
    <3> QED
      BY <3>1 DEF LiveNonces, Residents
  <2>7. \A m \in Nonces :
           entries'[m] = IF m = n
                           THEN [expiry |-> e, deadline |-> CarrierDeadline(e, now, spend)]
                         ELSE IF m \in LiveNonces(now) THEN entries[m]
                         ELSE [expiry |-> 0, deadline |-> 0]
    BY <1>2 DEF AcceptedStep, Record, Absent
  <2>8. \A m \in Nonces : Resident(m)' => accepts'[m][entries'[m].expiry] > 0
    <3> SUFFICES ASSUME NEW m \in Nonces, Resident(m)'
                 PROVE  accepts'[m][entries'[m].expiry] > 0
      OBVIOUS
    <3>1. CASE m = n
      BY <2>3, <2>7, <3>1
    <3>2. CASE m # n
      <4>1. m \in LiveNonces(now) /\ entries'[m] = entries[m]
        BY <2>7, <3>2 DEF Resident
      <4>2. Resident(m)
        BY <2>6, <4>1 DEF Residents
      <4> QED
        BY <2>2, <2>5, <4>1, <4>2 DEF ServeInv
    <3> QED
      BY <3>1, <3>2
  <2>9. \A m \in Nonces : entries'[m].deadline > 0 => Resident(m)'
    BY <2>4, <2>7 DEF ServeInv, Resident
  <2>10. IsFiniteSet(Residents') /\ Cardinality(Residents') <= MaxCoordNonces
    <3>1. Residents' \subseteq LiveNonces(now) \cup {n}
      BY <2>7 DEF Residents, Resident
    <3>2. IsFiniteSet(LiveNonces(now))
      BY <2>6, FS_Subset DEF ServeInv
    <3>3. Cardinality(LiveNonces(now)) \in Nat
      BY <3>2, FS_CardinalityType
    <3>4. Cardinality(LiveNonces(now)) < MaxCoordNonces
      BY <1>2, <3>3, ConstantsAssumption DEF AcceptedStep, Full
    <3>5. /\ IsFiniteSet(LiveNonces(now) \cup {n})
          /\ Cardinality(LiveNonces(now) \cup {n}) <= MaxCoordNonces
      <4>1. /\ IsFiniteSet(LiveNonces(now) \cup {n})
            /\ Cardinality(LiveNonces(now) \cup {n}) =
                  IF n \in LiveNonces(now) THEN Cardinality(LiveNonces(now))
                  ELSE Cardinality(LiveNonces(now)) + 1
        BY <3>2, FS_AddElement, Zenon
      <4> QED
        BY <3>3, <3>4, <4>1, ConstantsAssumption
    <3>6. /\ IsFiniteSet(Residents')
          /\ Cardinality(Residents') <= Cardinality(LiveNonces(now) \cup {n})
      BY <3>1, <3>5, FS_Subset
    <3> QED
      BY <3>5, <3>6, FS_CardinalityType, ConstantsAssumption
  <2>11. MarkIsForgottenExpiry'
    <3> SUFFICES ASSUME highWater' > 0
                 PROVE  \E m \in Nonces : accepts'[m][highWater'] > 0
      BY DEF MarkIsForgottenExpiry
    <3>1. highWater' \in {highWater} \cup Forgotten(now)
      BY <1>2 DEF AcceptedStep, Record, AdvanceMark, IsMax
    <3>2. CASE highWater' = highWater
      BY <2>1, <2>2, <3>2 DEF ServeInv, MarkIsForgottenExpiry
    <3>3. CASE highWater' \in Forgotten(now)
      <4>1. PICK m \in Nonces : highWater' = entries[m].expiry
        BY <3>3 DEF Forgotten
      <4> QED
        BY <2>1, <2>2, <4>1 DEF ServeInv, Resident
    <3> QED
      BY <3>1, <3>2, <3>3
  <2> QED
    BY <2>8, <2>9, <2>10, <2>11 DEF ServeInv
<1> QED
  BY <1>1, <1>2, StepCases DEF LogIInv

\* check_and_record keeps the log of use, whatever the clocks do: its mark is the
\* expiry of a request it accepted and forgot, never a mere clock reading; it holds
\* at most MAX_COORD_NONCES nonces; and the outer-stale read answers only for a
\* request this node accepted and has not passed.
THEOREM LogServesHolds == Spec => []LogServes
<1>1. LogIInv /\ ServeInv => LogServes
  <2> SUFFICES ASSUME LogIInv, ServeInv PROVE LogServes
    OBVIOUS
  <2>1. MarkIsForgottenExpiry /\ CapacityBound
    BY DEF ServeInv, CapacityBound, Residents
  <2>2. ASSUME NEW n \in Nonces, NEW e \in Time, OuterStaleCarrierDeadline(n, e) > 0
        PROVE  accepts[n][e] = 1 /\ e > highWater
    <3>1. highWater < e /\ entries[n].expiry = e
      BY <2>2 DEF OuterStaleCarrierDeadline
    <3>2. highWater \in Nat /\ e \in Nat
      BY DEF LogIInv, TypeOK, Time
    <3>4. accepts[n][e] \in Nat
      BY DEF LogIInv, TypeOK
    <3>3. accepts[n][e] > 0
      BY <3>1, <3>2 DEF ServeInv, Resident
    <3> QED
      BY <3>1, <3>2, <3>3, <3>4 DEF LogIInv, SingleUse
  <2> QED
    BY <2>1, <2>2 DEF LogServes, OuterStaleIsAccepted
<1> QED
  BY <1>1, ServeInit, ServeStep, IInvHolds, PTL DEF Spec

-----------------------------------------------------------------------------
(* PinBudget.  The ring of AttemptBudget implements the queue of PinLockout,  *)
(* and the rate at which wrong pins are judged is bounded.                   *)

\* The i-th counted failure, oldest first.
Failure(i) == failTimes[Slot(i - 1)]

-----------------------------------------------------------------------------
(* The ring.                                                                 *)

\* Once around the ring.
LEMMA ModRing ==
    ASSUME NEW N \in Nat \ {0}, NEW a \in 0 .. 2 * N - 1
    PROVE  /\ a < N => a % N = a
           /\ ~ (a < N) => a % N = a - N
  OBVIOUS

\* Sliding the head by d renames the slots, and the tail is none of those counted.
LEMMA RingSlides ==
    ASSUME NEW h \in Slots, NEW n \in 0 .. MaxAttempts, NEW d \in 0 .. n
    PROVE  /\ (h + d) % MaxAttempts \in Slots
           /\ (((h + d) % MaxAttempts) + (n - d)) % MaxAttempts \in Slots
           /\ \A i \in 0 .. n - d : i < MaxAttempts =>
                 (((h + d) % MaxAttempts) + i) % MaxAttempts = (h + (d + i)) % MaxAttempts
           /\ n - d < MaxAttempts => \A i \in 0 .. n - d - 1 :
                 (((h + d) % MaxAttempts) + i) % MaxAttempts #
                     (((h + d) % MaxAttempts) + (n - d)) % MaxAttempts
<1> DEFINE g == (h + d) % MaxAttempts
<1>1. /\ MaxAttempts \in Nat \ {0} /\ h \in 0 .. MaxAttempts - 1
      /\ n \in Nat /\ d \in Nat /\ d <= n /\ n <= MaxAttempts
  BY ConfigAssumption DEF Slots
<1>2. \A a \in 0 .. 2 * MaxAttempts - 1 :
         /\ a < MaxAttempts => a % MaxAttempts = a
         /\ ~ (a < MaxAttempts) => a % MaxAttempts = a - MaxAttempts
  BY <1>1, ModRing
<1>3. /\ h + d < MaxAttempts => g = h + d
      /\ ~ (h + d < MaxAttempts) => g = (h + d) - MaxAttempts
  <2>1. h + d \in 0 .. 2 * MaxAttempts - 1
    BY <1>1
  <2> QED
    BY <1>2, <2>1, Zenon
<1> HIDE DEF g
<1>4. g \in 0 .. MaxAttempts - 1
  BY <1>1, <1>3
<1>5. ASSUME NEW i \in 0 .. MaxAttempts
      PROVE  /\ g + i < MaxAttempts => (g + i) % MaxAttempts = g + i
             /\ ~ (g + i < MaxAttempts) => (g + i) % MaxAttempts = (g + i) - MaxAttempts
  <2>1. g + i \in 0 .. 2 * MaxAttempts - 1
    BY <1>1, <1>4
  <2> QED
    BY <1>2, <2>1, Zenon
<1>6. n - d \in 0 .. MaxAttempts
  BY <1>1
<1>7. (g + (n - d)) % MaxAttempts \in 0 .. MaxAttempts - 1
  BY <1>1, <1>4, <1>5, <1>6
<1>8. ASSUME NEW i \in 0 .. n - d, i < MaxAttempts
      PROVE  (g + i) % MaxAttempts = (h + (d + i)) % MaxAttempts
  <2>1. h + (d + i) \in 0 .. 2 * MaxAttempts - 1 /\ i \in 0 .. MaxAttempts
    BY <1>1, <1>8
  <2>2. /\ h + (d + i) < MaxAttempts => (h + (d + i)) % MaxAttempts = h + (d + i)
        /\ ~ (h + (d + i) < MaxAttempts) =>
              (h + (d + i)) % MaxAttempts = (h + (d + i)) - MaxAttempts
    BY <1>2, <2>1, Zenon
  <2> QED
    BY <1>1, <1>3, <1>5, <1>8, <2>1, <2>2
<1>9. ASSUME n - d < MaxAttempts, NEW i \in 0 .. n - d - 1
      PROVE  (g + i) % MaxAttempts # (g + (n - d)) % MaxAttempts
  <2>1. i \in 0 .. MaxAttempts /\ i \in Nat /\ i < n - d
    BY <1>1, <1>9
  <2> QED
    BY <1>1, <1>4, <1>5, <1>6, <1>9, <2>1
<1> QED
  BY <1>4, <1>7, <1>8, <1>9 DEF g, Slots

-----------------------------------------------------------------------------
(* One charge.                                                               *)

Verdicts == {"Normal", "Duress", "Wrong"}

\* The node is locked for the request at hand.
StillLocked == lockedUntil # 0 /\ wall < lockedUntil

\* The failures counted before the slide: none when a lockout is over.
Held == IF lockedUntil # 0 THEN 0 ELSE fails

Horizon(k) == SatAdd(SatAdd(wall, ScheduledBackoff(k)), Lockout)

LEMMA ScheduleType == \A k \in Nat : ScheduledBackoff(k) \in Readings
<1> SUFFICES ASSUME NEW k \in Nat PROVE ScheduledBackoff(k) \in Readings
  OBVIOUS
<1>1. Backoff \in Seq(Readings) /\ Len(Backoff) \in Nat /\ Len(Backoff) # 0
  BY ConfigAssumption DEF Readings
<1>2. 1 + (IF k < Len(Backoff) - 1 THEN k ELSE Len(Backoff) - 1) \in 1 .. Len(Backoff)
  BY <1>1
<1> QED
  BY <1>1, <1>2 DEF ScheduledBackoff

LEMMA SatType ==
    ASSUME NEW a \in Readings, NEW b \in Nat
    PROVE  /\ SatAdd(a, b) \in Readings /\ SatAdd(a, b) >= a
           /\ b > 0 => SatAdd(a, b) > 0
           /\ SatAdd(a, b) = ClockMax \/ SatAdd(a, b) = a + b
  BY ConfigAssumption DEF SatAdd, Readings

LEMMA HorizonType ==
    ASSUME PinTypeOK, NEW k \in Nat
    PROVE  /\ Horizon(k) \in Readings /\ Horizon(k) # 0
           /\ Horizon(k) = ClockMax \/ Horizon(k) >= wall + Lockout
<1>1. /\ wall \in Readings /\ ScheduledBackoff(k) \in Readings /\ Lockout \in Nat /\ Lockout > 0
      /\ Readings \subseteq Nat /\ ClockMax \in Nat
  <2>1. wall \in Readings /\ ScheduledBackoff(k) \in Readings
    BY ScheduleType DEF PinTypeOK
  <2>2. Lockout \in Nat /\ Lockout > 0 /\ Readings \subseteq Nat /\ ClockMax \in Nat
    BY ConfigAssumption DEF Readings
  <2> QED
    BY <2>1, <2>2
<1> DEFINE a == SatAdd(wall, ScheduledBackoff(k))
<1>2. a \in Readings /\ a >= wall
  BY <1>1, SatType
<1> HIDE DEF a
<1>3. /\ SatAdd(a, Lockout) \in Readings /\ SatAdd(a, Lockout) > 0
      /\ SatAdd(a, Lockout) = ClockMax \/ SatAdd(a, Lockout) = a + Lockout
  BY <1>1, <1>2, SatType
<1>4. Horizon(k) = SatAdd(a, Lockout)
  BY DEF Horizon, a
<1> QED
  BY <1>1, <1>2, <1>3, <1>4

\* What Settle does on a slid ring, whatever was locked.
LEMMA SettleRing ==
    ASSUME PinTypeOK, NEW v \in Verdicts, NEW h \in Slots, NEW n \in 0 .. MaxAttempts,
           NEW d \in 0 .. n, NEW l \in Readings,
           Settle(v, (h + d) % MaxAttempts, n - d, l)
    PROVE  /\ failHead' = (h + d) % MaxAttempts /\ failHead' \in Slots
           /\ failTimes' \in [Slots -> Readings]
           /\ l # 0 \/ v # "Wrong" =>
                 /\ fails' = n - d /\ lockedUntil' = l /\ guesses' = guesses
                 /\ outcome' = [refuse |-> l # 0 \/ v = "Wrong", backoff |-> 0,
                                locked |-> l # 0]
                 /\ failTimes' = failTimes
           /\ l = 0 /\ v = "Wrong" /\ n - d < MaxAttempts =>
                 /\ fails' = n - d + 1
                 /\ lockedUntil' = IF n - d + 1 = MaxAttempts THEN Horizon(n - d) ELSE 0
                 /\ outcome' = [refuse |-> TRUE, backoff |-> ScheduledBackoff(n - d),
                                locked |-> lockedUntil' # 0]
                 /\ guesses' = LastOf(Append(guesses, wall), MaxAttempts + 1)
                 /\ failTimes' = [failTimes EXCEPT
                       ![(((h + d) % MaxAttempts) + (n - d)) % MaxAttempts] = wall]
<1>1. /\ MaxAttempts \in Nat \ {0} /\ n - d \in 0 .. MaxAttempts /\ n - d \in Nat
      /\ failTimes \in [Slots -> Readings] /\ wall \in Readings
  BY ConfigAssumption DEF PinTypeOK
<1> DEFINE g == (h + d) % MaxAttempts
           c == n - d
           t == (g + c) % MaxAttempts
<1>2. g \in Slots /\ t \in Slots
  BY RingSlides
<1>3. Settle(v, g, c, l) /\ c \in 0 .. MaxAttempts
  BY <1>1
<1> HIDE DEF g, c
<1>4. failHead' = g /\ failTimes' \in [Slots -> Readings]
  BY <1>1, <1>2, <1>3 DEF Settle
<1>5. ASSUME l # 0 \/ v # "Wrong"
      PROVE  /\ fails' = c /\ lockedUntil' = l /\ guesses' = guesses
             /\ outcome' = [refuse |-> l # 0 \/ v = "Wrong", backoff |-> 0,
                            locked |-> l # 0]
             /\ failTimes' = failTimes
  <2>1. ~ Applies(v, l # 0)
    BY <1>5 DEF Applies
  <2> QED
    BY <1>1, <1>2, <1>3, <2>1 DEF Settle, Trips
<1>6. ASSUME l = 0, v = "Wrong", c < MaxAttempts
      PROVE  /\ fails' = c + 1
             /\ lockedUntil' = IF c + 1 = MaxAttempts THEN Horizon(c) ELSE 0
             /\ outcome' = [refuse |-> TRUE, backoff |-> ScheduledBackoff(c),
                            locked |-> lockedUntil' # 0]
             /\ guesses' = LastOf(Append(guesses, wall), MaxAttempts + 1)
             /\ failTimes' = [failTimes EXCEPT ![t] = wall]
  <2>1. Applies(v, l # 0)
    BY <1>6 DEF Applies
  <2>2. (IF c + 1 < MaxAttempts THEN c + 1 ELSE MaxAttempts) = c + 1
    BY <1>1, <1>3, <1>6
  <2> QED
    BY <1>1, <1>2, <1>3, <1>6, <2>1, <2>2 DEF Settle, Trips, Horizon
<1> QED
  BY <1>2, <1>4, <1>5, <1>6 DEF g, c

\* A request to a locked node changes no more than the slots nobody reads.
LEMMA ChargeLocked ==
    ASSUME PinTypeOK, NEW v \in Verdicts, Charge(v), StillLocked
    PROVE  /\ wall' = wall /\ lockedUntil' = lockedUntil /\ guesses' = guesses
           /\ outcome' = [refuse |-> TRUE, backoff |-> 0, locked |-> TRUE]
           /\ failHead' \in Slots /\ failTimes' \in [Slots -> Readings]
           /\ fails' \in 0 .. MaxAttempts
<1>1. /\ lockedUntil \in Readings /\ failHead \in Slots /\ fails \in 0 .. MaxAttempts
      /\ wall \in Readings /\ MaxAttempts \in Nat /\ Readings \subseteq Nat
  BY ConfigAssumption DEF PinTypeOK, Readings
<1>2. Recovered = [head |-> failHead, fails |-> fails, locked |-> lockedUntil]
  BY <1>1 DEF Recovered, StillLocked
<1>3. PICK d \in 0 .. fails :
         Settle(v, (failHead + d) % MaxAttempts, fails - d, lockedUntil)
  BY <1>2 DEF Charge
<1>4. lockedUntil # 0
  BY DEF StillLocked
<1>5. /\ failHead' \in Slots /\ failTimes' \in [Slots -> Readings]
      /\ fails' = fails - d /\ lockedUntil' = lockedUntil /\ guesses' = guesses
      /\ outcome' = [refuse |-> lockedUntil # 0 \/ v = "Wrong", backoff |-> 0,
                     locked |-> lockedUntil # 0]
  <2>1. v \in Verdicts /\ failHead \in Slots /\ fails \in 0 .. MaxAttempts /\ d \in 0 .. fails
        /\ lockedUntil \in Readings /\ PinTypeOK
    BY <1>1
  <2> DEFINE l == lockedUntil
             h == failHead
             n == fails
  <2>2. Settle(v, (h + d) % MaxAttempts, n - d, l)
    BY <1>3
  <2>3. l \in Readings /\ l # 0 /\ h \in Slots /\ n \in 0 .. MaxAttempts /\ d \in 0 .. n
    BY <2>1, <1>4
  <2> HIDE DEF l, h, n
  <2>4. /\ failHead' \in Slots /\ failTimes' \in [Slots -> Readings]
        /\ l # 0 \/ v # "Wrong" =>
              /\ fails' = n - d /\ lockedUntil' = l /\ guesses' = guesses
              /\ outcome' = [refuse |-> l # 0 \/ v = "Wrong", backoff |-> 0,
                             locked |-> l # 0]
    BY ONLY <2>1, <2>2, <2>3, SettleRing
  <2> QED
    BY <2>3, <2>4 DEF l, n
<1>6. fails' \in 0 .. MaxAttempts
  BY <1>1, <1>5
<1>7. wall' = wall
  BY DEF Charge
<1> QED
  BY <1>4, <1>5, <1>6, <1>7

\* A request that is judged, with d failures slid out of the window.
JudgedWith(v, d) ==
    /\ wall' = wall
    /\ \A i \in 1 .. d : Outside(Failure(i))
    /\ d < Held => ~ Outside(Failure(d + 1))
    /\ failHead' \in Slots /\ failTimes' \in [Slots -> Readings]
    /\ \A i \in 1 .. Held - d : Failure(i)' = Failure(d + i)
    /\ v # "Wrong" =>
          /\ fails' = Held - d /\ lockedUntil' = 0 /\ guesses' = guesses
          /\ outcome' = [refuse |-> FALSE, backoff |-> 0, locked |-> FALSE]
    /\ v = "Wrong" =>
          /\ fails' = Held - d + 1 /\ Failure(fails)' = wall
          /\ lockedUntil' = IF Held - d + 1 = MaxAttempts THEN Horizon(Held - d) ELSE 0
          /\ outcome' = [refuse |-> TRUE, backoff |-> ScheduledBackoff(Held - d),
                         locked |-> Held - d + 1 = MaxAttempts]
          /\ guesses' = LastOf(Append(guesses, wall), MaxAttempts + 1)

LEMMA ChargeJudged ==
    ASSUME PinTypeOK, FullMeansLocked, NEW v \in Verdicts, Charge(v), ~ StillLocked
    PROVE  Held \in 0 .. MaxAttempts - 1 /\ \E d \in 0 .. Held : JudgedWith(v, d)
<1>1. /\ lockedUntil \in Readings /\ failHead \in Slots /\ fails \in 0 .. MaxAttempts
      /\ wall \in Readings /\ MaxAttempts \in Nat \ {0} /\ Readings \subseteq Nat
      /\ 0 \in Slots /\ 0 \in Readings
  BY ConfigAssumption DEF PinTypeOK, Readings, Slots
<1> DEFINE h == IF lockedUntil # 0 THEN 0 ELSE failHead
<1>2. Held \in 0 .. MaxAttempts - 1 /\ h \in Slots
  BY <1>1 DEF Held, FullMeansLocked
<1>3. Recovered = [head |-> h, fails |-> Held, locked |-> 0]
  BY <1>1 DEF Recovered, StillLocked, Held
<1>4. Held # 0 => h = failHead
  BY DEF Held
<1> HIDE DEF h
<1>5. PICK d \in 0 .. Held :
         /\ Slides(h, Held, d)
         /\ Settle(v, (h + d) % MaxAttempts, Held - d, 0)
  BY <1>3 DEF Charge
<1>6. Held \in 0 .. MaxAttempts /\ Held - d < MaxAttempts /\ Held - d \in Nat /\ d \in Nat
  BY <1>1, <1>2
<1>7. /\ failHead' = (h + d) % MaxAttempts /\ failHead' \in Slots
      /\ failTimes' \in [Slots -> Readings]
      /\ v # "Wrong" =>
            /\ fails' = Held - d /\ lockedUntil' = 0 /\ guesses' = guesses
            /\ outcome' = [refuse |-> FALSE, backoff |-> 0, locked |-> FALSE]
            /\ failTimes' = failTimes
      /\ v = "Wrong" =>
            /\ fails' = Held - d + 1
            /\ lockedUntil' = IF Held - d + 1 = MaxAttempts THEN Horizon(Held - d) ELSE 0
            /\ outcome' = [refuse |-> TRUE, backoff |-> ScheduledBackoff(Held - d),
                           locked |-> lockedUntil' # 0]
            /\ guesses' = LastOf(Append(guesses, wall), MaxAttempts + 1)
            /\ failTimes' = [failTimes EXCEPT
                  ![(((h + d) % MaxAttempts) + (Held - d)) % MaxAttempts] = wall]
  <2> DEFINE n == Held
             l == 0
  <2>1. n \in 0 .. MaxAttempts /\ d \in 0 .. n /\ l \in Readings /\ n - d < MaxAttempts
    BY <1>1, <1>5, <1>6
  <2>2. Settle(v, (h + d) % MaxAttempts, n - d, l)
    BY <1>5
  <2> HIDE DEF n, l
  <2>3. /\ failHead' = (h + d) % MaxAttempts /\ failHead' \in Slots
        /\ failTimes' \in [Slots -> Readings]
        /\ l # 0 \/ v # "Wrong" =>
              /\ fails' = n - d /\ lockedUntil' = l /\ guesses' = guesses
              /\ outcome' = [refuse |-> l # 0 \/ v = "Wrong", backoff |-> 0,
                             locked |-> l # 0]
              /\ failTimes' = failTimes
        /\ l = 0 /\ v = "Wrong" /\ n - d < MaxAttempts =>
              /\ fails' = n - d + 1
              /\ lockedUntil' = IF n - d + 1 = MaxAttempts THEN Horizon(n - d) ELSE 0
              /\ outcome' = [refuse |-> TRUE, backoff |-> ScheduledBackoff(n - d),
                             locked |-> lockedUntil' # 0]
              /\ guesses' = LastOf(Append(guesses, wall), MaxAttempts + 1)
              /\ failTimes' = [failTimes EXCEPT
                    ![(((h + d) % MaxAttempts) + (n - d)) % MaxAttempts] = wall]
    BY <1>2, <2>1, <2>2, SettleRing
  <2>4. l = 0 /\ n = Held
    BY DEF l, n
  <2>5. v # "Wrong" => /\ (l # 0 \/ v = "Wrong") = FALSE
                       /\ (l # 0) = FALSE
    BY <2>4
  <2>6. v # "Wrong" => outcome' = [refuse |-> FALSE, backoff |-> 0, locked |-> FALSE]
    BY <2>3, <2>5
  <2> QED
    BY <2>1, <2>3, <2>4, <2>6
<1>8. /\ \A i \in 1 .. d : Outside(Failure(i))
      /\ d < Held => ~ Outside(Failure(d + 1))
  <2>1. ASSUME NEW i \in 1 .. d PROVE Outside(Failure(i))
    <3>1. i - 1 \in 0 .. d - 1 /\ h = failHead
      BY <1>1, <1>2, <1>4, <1>6
    <3>2. Outside(failTimes[(h + (i - 1)) % MaxAttempts])
      BY <1>5, <3>1 DEF Slides
    <3> QED
      BY <3>1, <3>2 DEF Failure, Slot
  <2>2. ASSUME d < Held PROVE ~ Outside(Failure(d + 1))
    <3>1. h = failHead /\ (d + 1) - 1 = d
      BY <1>1, <1>2, <1>4, <1>6, <2>2
    <3> QED
      BY <1>5, <2>2, <3>1 DEF Slides, Failure, Slot
  <2> QED
    BY <2>1, <2>2
<1>9. ASSUME NEW i \in 1 .. Held - d PROVE Failure(i)' = Failure(d + i)
  <2>1. /\ i - 1 \in 0 .. Held - d /\ i - 1 \in 0 .. Held - d - 1 /\ i - 1 < MaxAttempts
        /\ h = failHead /\ d + (i - 1) = (d + i) - 1
    BY <1>1, <1>2, <1>4, <1>6
  <2>2. /\ (((h + d) % MaxAttempts) + (i - 1)) % MaxAttempts =
              (h + (d + (i - 1))) % MaxAttempts
        /\ (((h + d) % MaxAttempts) + (i - 1)) % MaxAttempts #
              (((h + d) % MaxAttempts) + (Held - d)) % MaxAttempts
    BY <1>2, <1>6, <2>1, RingSlides
  <2>3. (h + (d + (i - 1))) % MaxAttempts \in Slots
    <3>1. h + (d + (i - 1)) \in 0 .. 2 * MaxAttempts - 1
      BY <1>1, <1>2, <1>6 DEF Slots
    <3> QED
      BY <1>1, <3>1, ModRing DEF Slots
  <2>4. failTimes'[(failHead' + (i - 1)) % MaxAttempts] =
           failTimes[(failHead + ((d + i) - 1)) % MaxAttempts]
    <3>1. v = "Wrong" \/ v # "Wrong"
      OBVIOUS
    <3>2. failTimes \in [Slots -> Readings]
      BY DEF PinTypeOK
    <3> QED
      BY <1>7, <2>1, <2>2, <2>3, <3>1, <3>2
  <2> QED
    BY <2>4 DEF Failure, Slot
<1>10. v = "Wrong" => Failure(fails)' = wall
  <2>1. (Held - d + 1) - 1 = Held - d
    BY <1>6
  <2>2. (((h + d) % MaxAttempts) + (Held - d)) % MaxAttempts \in Slots
    BY <1>2, <1>6, RingSlides
  <2>3. failTimes \in [Slots -> Readings]
    BY DEF PinTypeOK
  <2>4. v = "Wrong" => failTimes'[(failHead' + (fails' - 1)) % MaxAttempts] = wall
    BY <1>7, <2>1, <2>2, <2>3
  <2> QED
    BY <2>4 DEF Failure, Slot
<1>11. Horizon(Held - d) # 0 /\ wall' = wall
  BY <1>6, HorizonType DEF Charge
<1>12. JudgedWith(v, d)
  BY <1>7, <1>8, <1>9, <1>10, <1>11 DEF JudgedWith
<1> QED
  BY <1>2, <1>12

-----------------------------------------------------------------------------
(* The inductive invariant.                                                  *)

\* A wrong pin judged at g no longer stands in the way of another one.
Spent(g) == wall - g >= Window \/ wall - g >= Lockout \/ wall = ClockMax

\* With k failures counted, the latest guesses are those failures and the one
\* before them is spent.
Counted(k) ==
    /\ \A m \in 0 .. k - 1 : m < Len(guesses) =>
          Failure(fails - m) = guesses[Len(guesses) - m]
    /\ Len(guesses) > k => Spent(guesses[Len(guesses) - k])

GuessesOrdered ==
    /\ \A i \in 1 .. Len(guesses) : guesses[i] <= wall
    /\ \A i, j \in 1 .. Len(guesses) : i <= j => guesses[i] <= guesses[j]

\* An open node's ring holds its latest guesses.
OpenCounts == lockedUntil = 0 => Counted(fails)

\* A locked node stays so for the lockout after its latest guess.
LockedLong ==
    lockedUntil # 0 /\ Len(guesses) > 0 =>
        lockedUntil = ClockMax \/ lockedUntil >= guesses[Len(guesses)] + Lockout

PinIInv == PinInv /\ GuessesOrdered /\ OpenCounts /\ LockedLong

LEMMA LastOfAppend ==
    ASSUME NEW s \in Seq(Readings), NEW w \in Readings, NEW n \in Nat \ {0}, Len(s) <= n
    PROVE  LET t == LastOf(Append(s, w), n)
           IN  /\ t \in Seq(Readings) /\ Len(t) <= n /\ Len(t) > 0 /\ t[Len(t)] = w
               /\ Len(t) <= Len(s) + 1
               /\ \A j \in 1 .. Len(t) - 1 : t[Len(t) - j] = s[Len(s) + 1 - j]
<1> DEFINE a == Append(s, w)
           k == Len(s) + 1
<1>1. /\ a \in Seq(Readings) /\ Len(a) = k /\ a[k] = w /\ Len(s) \in Nat /\ k \in Nat
      /\ \A i \in 1 .. Len(s) : a[i] = s[i]
  OBVIOUS
<1> HIDE DEF a
<1>2. CASE k <= n
  <2>1. LastOf(a, n) = a
    BY <1>1, <1>2 DEF LastOf
  <2>2. \A j \in 1 .. k - 1 : a[k - j] = s[Len(s) + 1 - j]
    BY <1>1
  <2> QED
    BY <1>1, <1>2, <2>1, <2>2 DEF a
<1>3. CASE ~ (k <= n)
  <2> DEFINE b == SubSeq(a, k - n + 1, k)
  <2>1. LastOf(a, n) = b
    BY <1>1, <1>3 DEF LastOf
  <2>2. /\ k - n + 1 \in 1 .. k /\ k \in 1 .. k /\ k - (k - n + 1) + 1 = n
    BY <1>1, <1>3
  <2>3. /\ b \in Seq(Readings) /\ Len(b) = n
        /\ \A i \in 1 .. n : b[i] = a[(k - n + 1) + i - 1]
    BY <1>1, <2>2
  <2> HIDE DEF b
  <2>4. b[n] = w
    BY <1>1, <1>3, <2>3
  <2>5. \A j \in 1 .. n - 1 : b[n - j] = s[Len(s) + 1 - j]
    <3>1. SUFFICES ASSUME NEW j \in 1 .. n - 1 PROVE b[n - j] = s[Len(s) + 1 - j]
      OBVIOUS
    <3>2. /\ n - j \in 1 .. n /\ (k - n + 1) + (n - j) - 1 = Len(s) + 1 - j
          /\ Len(s) + 1 - j \in 1 .. Len(s)
      BY <1>1, <1>3
    <3> QED
      BY <1>1, <2>3, <3>2
  <2> QED
    BY <1>1, <1>3, <2>1, <2>3, <2>4, <2>5 DEF a
<1> QED
  BY <1>2, <1>3

\* After the slide, what is left in the ring is still the latest guesses, and the
\* guess before them is spent: it slid out of the window, it was spent before, or
\* the lockout it began is over.
LEMMA Survivors ==
    ASSUME PinIInv, ~ StillLocked, Held \in 0 .. MaxAttempts - 1,
           NEW v \in Verdicts, NEW d \in 0 .. Held, JudgedWith(v, d)
    PROVE  /\ \A m \in 0 .. Held - d - 1 : m < Len(guesses) =>
                 Failure(Held - m) = guesses[Len(guesses) - m]
           /\ Len(guesses) > Held - d => Spent(guesses[Len(guesses) - (Held - d)])
<1>1. /\ wall \in Readings /\ guesses \in Seq(Readings) /\ Len(guesses) \in Nat
      /\ lockedUntil \in Readings /\ fails \in Nat /\ Readings \subseteq Nat
      /\ Held \in Nat /\ d \in Nat /\ d <= Held /\ MaxAttempts \in Nat
      /\ ClockMax \in Nat /\ wall <= ClockMax /\ Window \in Nat /\ Window > 0 /\ Lockout \in Nat
  BY ConfigAssumption DEF PinIInv, PinInv, PinTypeOK, Readings
<1>2. CASE lockedUntil # 0
  <2>1. Held = 0 /\ d = 0 /\ wall >= lockedUntil
    BY <1>1, <1>2 DEF Held, StillLocked
  <2>2. ASSUME Len(guesses) > 0 PROVE Spent(guesses[Len(guesses)])
    <3>1. guesses[Len(guesses)] \in Readings
      BY <1>1, <2>2
    <3>2. lockedUntil = ClockMax \/ lockedUntil >= guesses[Len(guesses)] + Lockout
      BY <1>2, <2>2 DEF PinIInv, LockedLong
    <3> DEFINE g == guesses[Len(guesses)]
    <3>3. g \in Nat /\ wall \in Nat /\ lockedUntil \in Nat
      BY <1>1, <3>1
    <3> HIDE DEF g
    <3>4. wall = ClockMax \/ wall - g >= Lockout
      BY <1>1, <2>1, <3>2, <3>3 DEF g
    <3> QED
      BY <3>4 DEF Spent, g
  <2> QED
    BY <1>1, <2>1, <2>2
<1>3. CASE lockedUntil = 0
  <2>1. Held = fails /\ Counted(fails)
    BY <1>3 DEF Held, PinIInv, OpenCounts
  <2>2. \A m \in 0 .. fails - 1 : m < Len(guesses) =>
           Failure(fails - m) = guesses[Len(guesses) - m]
    BY <2>1 DEF Counted
  <2>3. ASSUME Len(guesses) > fails - d PROVE Spent(guesses[Len(guesses) - (fails - d)])
    <3>1. CASE d = 0
      <4>1. fails - d = fails
        BY <1>1, <3>1
      <4> QED
        BY <2>1, <2>3, <4>1 DEF Counted
    <3>2. CASE d # 0
      <4> DEFINE m == fails - d
      <4>1. m \in 0 .. fails - 1 /\ m < Len(guesses) /\ fails - m = d /\ d \in 1 .. d
        BY <1>1, <2>1, <2>3, <3>2
      <4>2. Len(guesses) - m \in 1 .. Len(guesses)
        BY <1>1, <4>1
      <4> HIDE DEF m
      <4>3. Failure(d) = guesses[Len(guesses) - m]
        BY <2>2, <4>1
      <4>4. Outside(guesses[Len(guesses) - m])
        BY <4>1, <4>3 DEF JudgedWith
      <4>5. guesses[Len(guesses) - m] \in Readings
        BY <1>1, <4>2
      <4>6. wall - guesses[Len(guesses) - m] >= Window
        BY <1>1, <4>4, <4>5 DEF Outside, SatSub
      <4> QED
        BY <4>6 DEF Spent, m
    <3> QED
      BY <3>1, <3>2
  <2>4. \A m \in 0 .. fails - d - 1 : m \in 0 .. fails - 1
    BY <1>1, <2>1
  <2> QED
    BY <2>1, <2>2, <2>3, <2>4
<1> QED
  BY <1>2, <1>3

\* The facts every step below starts from.
LEMMA PinFacts ==
    ASSUME PinIInv
    PROVE  /\ wall \in Nat /\ wall <= ClockMax /\ wall \in Readings /\ Readings \subseteq Nat
           /\ guesses \in Seq(Readings) /\ Len(guesses) \in Nat
           /\ Len(guesses) <= MaxAttempts + 1 /\ MaxAttempts \in Nat \ {0}
           /\ \A i \in 1 .. Len(guesses) : guesses[i] \in Nat
           /\ ClockMax \in Nat /\ Window \in Nat /\ Lockout \in Nat
<1>1. /\ wall \in Readings /\ guesses \in Seq(Readings)
      /\ Len(guesses) <= MaxAttempts + 1
  BY DEF PinIInv, PinInv, PinTypeOK
<1>2. /\ MaxAttempts \in Nat \ {0} /\ ClockMax \in Nat /\ Window \in Nat /\ Lockout \in Nat
      /\ Readings \subseteq Nat /\ \A x \in Readings : x <= ClockMax
  BY ConfigAssumption DEF Readings
<1>3. \A i \in 1 .. Len(guesses) : guesses[i] \in Readings
  BY <1>1
<1>4. wall \in Nat /\ wall <= ClockMax /\ Len(guesses) \in Nat
  BY <1>1, <1>2
<1>5. \A i \in 1 .. Len(guesses) : guesses[i] \in Nat
  BY <1>2, <1>3, Zenon
<1> QED
  BY <1>1, <1>2, <1>4, <1>5

\* A right pin leaves the guesses alone; the failures left are the survivors.
LEMMA RightPinStep ==
    ASSUME PinIInv, ~ StillLocked, Held \in 0 .. MaxAttempts - 1,
           NEW v \in Verdicts, NEW d \in 0 .. Held, JudgedWith(v, d), v # "Wrong"
    PROVE  PinIInv'
<1>1. /\ wall' = wall /\ failHead' \in Slots /\ failTimes' \in [Slots -> Readings]
      /\ fails' = Held - d /\ lockedUntil' = 0 /\ guesses' = guesses
      /\ outcome' = [refuse |-> FALSE, backoff |-> 0, locked |-> FALSE]
      /\ \A i \in 1 .. Held - d :
            failTimes'[(failHead' + (i - 1)) % MaxAttempts] = Failure(d + i)
  BY DEF JudgedWith, Failure, Slot
<1>2. Held \in Nat /\ d \in Nat /\ Held - d \in 0 .. MaxAttempts /\ Held - d # MaxAttempts
  BY PinFacts
<1>3. PinTypeOK'
  <2>1. 0 \in Readings
    BY ConfigAssumption DEF Readings
  <2> QED
    BY <1>1, <1>2, <2>1 DEF PinTypeOK, PinIInv, PinInv
<1>4. FullMeansLocked' /\ GuessRate' /\ GuessesOrdered' /\ LockedLong'
  BY <1>1, <1>2 DEF FullMeansLocked, GuessRate, GuessesOrdered, LockedLong, PinIInv, PinInv
<1>5. Counted(fails)'
  <2>1. ASSUME NEW m \in 0 .. fails' - 1, m < Len(guesses)
        PROVE  failTimes'[(failHead' + ((fails' - m) - 1)) % MaxAttempts] =
                  guesses[Len(guesses) - m]
    <3>1. fails' - m \in 1 .. Held - d /\ d + (fails' - m) = Held - m /\ m \in 0 .. Held - d - 1
      BY <1>1, <1>2
    <3>2. failTimes'[(failHead' + ((fails' - m) - 1)) % MaxAttempts] = Failure(Held - m)
      BY <1>1, <3>1
    <3>3. Failure(Held - m) = guesses[Len(guesses) - m]
      BY <2>1, <3>1, Survivors
    <3> QED
      BY <3>2, <3>3
  <2>2. Len(guesses) > fails' => Spent(guesses[Len(guesses) - fails'])
    BY <1>1, Survivors
  <2> QED
    BY <1>1, <2>1, <2>2 DEF Counted, Failure, Slot, Spent
<1> QED
  BY <1>3, <1>4, <1>5 DEF PinIInv, PinInv, OpenCounts

\* A wrong pin is the newest guess and the newest failure.
LEMMA WrongPinStep ==
    ASSUME PinIInv, ~ StillLocked, Held \in 0 .. MaxAttempts - 1,
           NEW d \in 0 .. Held, JudgedWith("Wrong", d)
    PROVE  PinIInv'
<1> DEFINE k == Held - d
           L == Len(guesses)
<1>1. /\ wall' = wall /\ failHead' \in Slots /\ failTimes' \in [Slots -> Readings]
      /\ fails' = k + 1 /\ failTimes'[(failHead' + (fails' - 1)) % MaxAttempts] = wall
      /\ lockedUntil' = IF k + 1 = MaxAttempts THEN Horizon(k) ELSE 0
      /\ outcome' = [refuse |-> TRUE, backoff |-> ScheduledBackoff(k),
                     locked |-> k + 1 = MaxAttempts]
      /\ guesses' = LastOf(Append(guesses, wall), MaxAttempts + 1)
      /\ \A i \in 1 .. k :
            failTimes'[(failHead' + (i - 1)) % MaxAttempts] = Failure(d + i)
  BY DEF JudgedWith, Failure, Slot
<1>2. /\ k \in Nat /\ d \in Nat /\ Held \in Nat /\ k + 1 \in 0 .. MaxAttempts
      /\ k <= MaxAttempts - 1 /\ Held = d + k
  BY PinFacts
<1>3. /\ \A m \in 0 .. k - 1 : m < L => Failure(Held - m) = guesses[L - m]
      /\ L > k => Spent(guesses[L - k])
  BY Survivors DEF Verdicts
<1> HIDE DEF k
<1> DEFINE g == guesses'
           K == Len(g)
<1>4. /\ g \in Seq(Readings) /\ K <= MaxAttempts + 1 /\ K > 0 /\ g[K] = wall
      /\ K <= L + 1 /\ K \in Nat
      /\ \A j \in 1 .. K - 1 : g[K - j] = guesses[L + 1 - j]
  <2> DEFINE n == MaxAttempts + 1
             t == LastOf(Append(guesses, wall), n)
  <2>1. n \in Nat \ {0} /\ Len(guesses) <= n /\ guesses \in Seq(Readings) /\ wall \in Readings
    BY PinFacts
  <2>2. g = t
    BY <1>1
  <2> HIDE DEF n, g
  <2>3. /\ t \in Seq(Readings) /\ Len(t) <= n /\ Len(t) > 0 /\ t[Len(t)] = wall
        /\ Len(t) <= Len(guesses) + 1
        /\ \A j \in 1 .. Len(t) - 1 : t[Len(t) - j] = guesses[Len(guesses) + 1 - j]
    BY <2>1, LastOfAppend
  <2> HIDE DEF t
  <2>4. Len(t) \in Nat
    BY <2>3
  <2> QED
    BY <2>2, <2>3, <2>4 DEF n
<1> HIDE DEF g
<1>5. /\ L \in Nat /\ \A i \in 1 .. L : guesses[i] <= wall
      /\ \A i, j \in 1 .. L : i <= j => guesses[i] <= guesses[j]
      /\ \A i \in 1 .. L : guesses[i] \in Nat
      /\ wall \in Nat /\ MaxAttempts \in Nat \ {0} /\ wall \in Readings
  BY PinFacts DEF PinIInv, GuessesOrdered
<1> HIDE DEF L
\* The guesses kept are the latest ones.
<1>6. \A i \in 1 .. K - 1 : g[i] = guesses[L + 1 - (K - i)] /\ L + 1 - (K - i) \in 1 .. L
  <2>1. SUFFICES ASSUME NEW i \in 1 .. K - 1
                 PROVE  g[i] = guesses[L + 1 - (K - i)] /\ L + 1 - (K - i) \in 1 .. L
    OBVIOUS
  <2>2. K - i \in 1 .. K - 1 /\ K - (K - i) = i /\ L + 1 - (K - i) \in 1 .. L
    BY <1>4, <1>5
  <2> QED
    BY <1>4, <2>2
<1>7. /\ \A i \in 1 .. K : g[i] <= wall
      /\ \A i, j \in 1 .. K : i <= j => g[i] <= g[j]
  <2>1. \A i \in 1 .. K : i \in 1 .. K - 1 \/ i = K
    BY <1>4
  <2>2. \A i \in 1 .. K - 1 : g[i] <= wall
    BY <1>5, <1>6
  <2>3. \A i, j \in 1 .. K - 1 : i <= j => L + 1 - (K - i) <= L + 1 - (K - j)
    BY <1>4, <1>5
  <2>4. \A i, j \in 1 .. K - 1 : i <= j => g[i] <= g[j]
    BY <1>5, <1>6, <2>3, Zenon
  <2>5. wall <= wall
    BY <1>5
  <2>6. \A i, j \in 1 .. K : i <= j /\ i = K => j = K
    BY <1>4
  <2> QED
    BY <1>4, <2>1, <2>2, <2>4, <2>5, <2>6
<1>8. GuessesOrdered'
  BY <1>1, <1>7 DEF GuessesOrdered, g
<1>9. PinTypeOK' /\ FullMeansLocked'
  <2>1. ScheduledBackoff(k) \in Readings /\ Horizon(k) \in Readings /\ Horizon(k) # 0
    BY <1>2, ScheduleType, HorizonType DEF PinIInv, PinInv
  <2>2. 0 \in Readings
    BY ConfigAssumption DEF Readings
  <2>3. lockedUntil' \in Readings
    BY <1>1, <2>1, <2>2
  <2>4. outcome' \in [refuse : BOOLEAN, backoff : Readings, locked : BOOLEAN]
    BY <1>1, <2>1
  <2> QED
    BY <1>1, <1>2, <1>4, <1>5, <2>1, <2>3, <2>4 DEF PinTypeOK, FullMeansLocked, g
<1>10. LockedLong'
  <2>1. Horizon(k) = ClockMax \/ Horizon(k) >= wall + Lockout
    BY <1>2, HorizonType DEF PinIInv, PinInv
  <2> QED
    BY <1>1, <1>4, <2>1 DEF LockedLong, g
<1>11. OpenCounts'
  <2>1. ASSUME NEW m \in 0 .. fails' - 1, m < K
        PROVE  failTimes'[(failHead' + ((fails' - m) - 1)) % MaxAttempts] = g[K - m]
    <3>1. CASE m = 0
      <4>1. fails' - m = fails' /\ K - m = K
        BY <1>1, <1>2, <1>4, <3>1
      <4> QED
        BY <1>1, <1>4, <4>1
    <3>2. CASE m # 0
      <4>1. /\ fails' - m \in 1 .. k /\ d + (fails' - m) = Held - (m - 1)
            /\ m - 1 \in 0 .. k - 1 /\ m - 1 < L /\ m \in 1 .. K - 1
            /\ L - (m - 1) = L + 1 - m
        BY <1>1, <1>2, <1>4, <1>5, <2>1, <3>2
      <4>2. failTimes'[(failHead' + ((fails' - m) - 1)) % MaxAttempts] =
               Failure(Held - (m - 1))
        BY <1>1, <4>1
      <4>3. Failure(Held - (m - 1)) = guesses[L + 1 - m]
        BY <1>3, <4>1
      <4> QED
        BY <1>4, <4>1, <4>2, <4>3
    <3> QED
      BY <3>1, <3>2
  <2>2. ASSUME K > fails' PROVE Spent(g[K - fails'])
    <3>1. fails' \in 1 .. K - 1 /\ L + 1 - fails' = L - k /\ L > k
      BY <1>1, <1>2, <1>4, <1>5, <2>2
    <3> QED
      BY <1>3, <1>4, <3>1
  <2>3. Counted(fails)'
    BY <1>1, <2>1, <2>2 DEF Counted, Failure, Slot, Spent, g
  <2> QED
    BY <2>3 DEF OpenCounts
<1>12. GuessRate'
  <2>1. SUFFICES ASSUME K = MaxAttempts + 1
                 PROVE  \/ g[MaxAttempts + 1] - g[1] >= Window
                        \/ g[MaxAttempts + 1] - g[1] >= Lockout
                        \/ g[MaxAttempts + 1] = ClockMax
    BY DEF GuessRate, g
  <2>2. g[MaxAttempts + 1] = wall
    BY <1>4, <2>1
  <2> DEFINE i == L + 1 - (K - 1)
             j == L - k
  <2>3. i \in 1 .. L /\ j \in 1 .. L /\ i <= j /\ L > k /\ 1 \in 1 .. K - 1
    BY <1>2, <1>4, <1>5, <2>1
  <2>4. g[1] = guesses[i] /\ Spent(guesses[j])
    BY <1>3, <1>6, <2>3
  <2> HIDE DEF i, j
  <2>5. guesses[i] <= guesses[j] /\ guesses[i] \in Nat /\ guesses[j] \in Nat
    BY <1>5, <2>3
  <2>6. Window \in Nat /\ Lockout \in Nat
    BY ConfigAssumption
  <2> QED
    BY <1>5, <2>2, <2>4, <2>5, <2>6 DEF Spent
<1> QED
  BY <1>8, <1>9, <1>10, <1>11, <1>12 DEF PinIInv, PinInv

LEMMA LockedStep ==
    ASSUME PinIInv, StillLocked, NEW v \in Verdicts, Charge(v)
    PROVE  PinIInv'
<1>1. /\ wall' = wall /\ lockedUntil' = lockedUntil /\ guesses' = guesses /\ lockedUntil # 0
      /\ outcome' = [refuse |-> TRUE, backoff |-> 0, locked |-> TRUE]
      /\ failHead' \in Slots /\ failTimes' \in [Slots -> Readings]
      /\ fails' \in 0 .. MaxAttempts
  BY ChargeLocked DEF PinIInv, PinInv, StillLocked
<1>2. PinTypeOK'
  <2>1. 0 \in Readings
    BY ConfigAssumption DEF Readings
  <2> QED
    BY <1>1, <2>1 DEF PinIInv, PinInv, PinTypeOK
<1> QED
  BY <1>1, <1>2 DEF PinIInv, PinInv, FullMeansLocked, GuessRate, GuessesOrdered,
                    OpenCounts, LockedLong

\* The clock may step back, and then no guess is remembered.
LEMMA MoveWallStep == PinIInv /\ MoveWall => PinIInv'
<1> SUFFICES ASSUME PinIInv, MoveWall PROVE PinIInv'
  OBVIOUS
<1>1. /\ failTimes' = failTimes /\ failHead' = failHead /\ fails' = fails
      /\ lockedUntil' = lockedUntil /\ outcome' = outcome /\ wall' \in Readings
      /\ guesses' = IF wall' < wall THEN << >> ELSE guesses
  BY DEF MoveWall, budgetVars
<1>2. wall' \in Nat /\ wall' <= ClockMax
  BY <1>1, ConfigAssumption DEF Readings
<1>3. CASE wall' < wall
  <2>1. guesses' = << >> /\ Len(guesses') = 0 /\ MaxAttempts \in Nat \ {0}
    BY <1>1, <1>3, ConfigAssumption
  <2>2. PinTypeOK' /\ FullMeansLocked'
    BY <1>1, <2>1 DEF PinIInv, PinInv, PinTypeOK, FullMeansLocked
  <2>3. GuessRate' /\ GuessesOrdered' /\ LockedLong'
    BY <2>1 DEF GuessRate, GuessesOrdered, LockedLong
  <2>4. \A m \in 0 .. fails' - 1 : ~ (m < 0)
    BY <1>1 DEF PinIInv, PinInv, PinTypeOK
  <2>5. ~ (0 > fails')
    BY <1>1, PinFacts DEF PinIInv, PinInv, PinTypeOK
  <2>6. OpenCounts'
    BY <2>1, <2>4, <2>5 DEF OpenCounts, Counted
  <2> QED
    BY <2>2, <2>3, <2>6 DEF PinIInv, PinInv
<1>4. CASE ~ (wall' < wall)
  <2>1. guesses' = guesses /\ wall' >= wall
    BY <1>1, <1>2, <1>4, PinFacts
  <2>2. PinTypeOK' /\ FullMeansLocked' /\ GuessRate' /\ LockedLong'
    BY <1>1, <2>1 DEF PinIInv, PinInv, PinTypeOK, FullMeansLocked, GuessRate, LockedLong
  <2>3. GuessesOrdered'
    BY <1>2, <2>1, PinFacts DEF PinIInv, GuessesOrdered
  <2>4. OpenCounts'
    <3>1. ASSUME lockedUntil = 0, Len(guesses) > fails
          PROVE  \/ wall' - guesses[Len(guesses) - fails] >= Window
                 \/ wall' - guesses[Len(guesses) - fails] >= Lockout
                 \/ wall' = ClockMax
      <4> DEFINE g == guesses[Len(guesses) - fails]
      <4>1. Len(guesses) - fails \in 1 .. Len(guesses)
        BY <3>1, PinFacts DEF PinIInv, PinInv, PinTypeOK
      <4>2. g \in Nat
        BY <4>1, PinFacts
      <4>3. Spent(g)
        BY <3>1 DEF PinIInv, OpenCounts, Counted
      <4> HIDE DEF g
      <4>4. wall' - g >= Window \/ wall' - g >= Lockout \/ wall' = ClockMax
        BY <1>2, <2>1, <4>2, <4>3, PinFacts DEF Spent
      <4> QED
        BY <4>4 DEF g
    <3>2. lockedUntil = 0 => \A m \in 0 .. fails - 1 : m < Len(guesses) =>
             Failure(fails - m) = guesses[Len(guesses) - m]
      BY DEF PinIInv, OpenCounts, Counted
    <3> QED
      BY <1>1, <2>1, <3>1, <3>2 DEF OpenCounts, Counted, Spent, Failure, Slot
  <2> QED
    BY <2>2, <2>3, <2>4 DEF PinIInv, PinInv
<1> QED
  BY <1>3, <1>4

LEMMA PinStart == PinInit => PinIInv
<1> SUFFICES ASSUME PinInit PROVE PinIInv
  OBVIOUS
<1>1. /\ MaxAttempts \in Nat \ {0} /\ 0 \in Slots /\ 0 \in Readings /\ Len(guesses) = 0
      /\ guesses \in Seq(Readings)
  BY ConfigAssumption DEF PinInit, Slots, Readings
<1>2. PinTypeOK /\ FullMeansLocked
  BY <1>1 DEF PinInit, PinTypeOK, FullMeansLocked
<1>3. GuessRate /\ GuessesOrdered /\ LockedLong
  BY <1>1 DEF PinInit, GuessRate, GuessesOrdered, LockedLong
<1>4. OpenCounts
  BY <1>1 DEF PinInit, OpenCounts, Counted
<1> QED
  BY <1>2, <1>3, <1>4 DEF PinIInv, PinInv

LEMMA PinStep == PinIInv /\ [PinNext]_pinVars => PinIInv'
<1> SUFFICES ASSUME PinIInv, [PinNext]_pinVars PROVE PinIInv'
  OBVIOUS
<1>1. CASE Request
  <2>1. PICK v \in Verdicts : Charge(v)
    BY <1>1 DEF Request, Verdict, Verdicts
  <2>2. CASE StillLocked
    BY <2>1, <2>2, LockedStep
  <2>3. CASE ~ StillLocked
    <3>1. Held \in 0 .. MaxAttempts - 1 /\ \E d \in 0 .. Held : JudgedWith(v, d)
      BY <2>1, <2>3, ChargeJudged DEF PinIInv, PinInv
    <3>2. PICK d \in 0 .. Held : JudgedWith(v, d)
      BY <3>1
    <3>3. CASE v = "Wrong"
      BY <2>3, <3>1, <3>2, <3>3, WrongPinStep
    <3>4. CASE v # "Wrong"
      BY <2>3, <3>1, <3>2, <3>4, RightPinStep
    <3> QED
      BY <3>3, <3>4
  <2> QED
    BY <2>2, <2>3
<1>2. CASE MoveWall
  BY <1>2, MoveWallStep
<1>3. CASE UNCHANGED pinVars
  BY <1>3 DEF PinIInv, PinInv, PinTypeOK, FullMeansLocked, GuessRate, GuessesOrdered,
              OpenCounts, LockedLong, Counted, Spent, Failure, Slot, pinVars, budgetVars
<1> QED
  BY <1>1, <1>2, <1>3 DEF PinNext

\* The budget's invariant is inductive: an open node's ring holds exactly its
\* latest judged guesses and the guess before them is spent, a locked node's
\* horizon is a whole lockout past its latest guess.
THEOREM PinInductive == PinSpec => []PinIInv
  BY PinStart, PinStep, PTL DEF PinSpec

\* AttemptBudget keeps the types of its fields, never leaves a full ring unlocked,
\* and never judges max_attempts + 1 wrong pins within both the window and the
\* lockout, whatever the schedule of requests and however far the clock jumps.
THEOREM PinInvHolds == PinSpec => []PinInv
<1>1. PinIInv => PinInv
  BY DEF PinIInv
<1> QED
  BY <1>1, PinInductive, PTL

-----------------------------------------------------------------------------
(* The ring implements the queue of PinLockout.                              *)

LEMMA SequencesEqual ==
    ASSUME NEW S, NEW s \in Seq(S), NEW t \in Seq(S), Len(s) = Len(t),
           \A i \in 1 .. Len(s) : s[i] = t[i]
    PROVE  s = t
  OBVIOUS

\* The queue has the failures held, oldest first.
QueueHolds ==
    /\ Queue \in Seq(Readings) /\ Len(Queue) = Held
    /\ \A i \in 1 .. Held : Queue[i] = Failure(i)

LEMMA QueueOf == PinTypeOK => QueueHolds
<1> SUFFICES ASSUME PinTypeOK
             PROVE  /\ Queue \in Seq(Readings) /\ Len(Queue) = Held
                    /\ \A i \in 1 .. Held : Queue[i] = Failure(i)
  BY DEF QueueHolds
<1>1. /\ fails \in Nat /\ fails <= MaxAttempts /\ failTimes \in [Slots -> Readings]
      /\ failHead \in Slots /\ MaxAttempts \in Nat \ {0}
  BY ConfigAssumption DEF PinTypeOK
<1>2. CASE lockedUntil # 0
  BY <1>2 DEF Queue, Held
<1>3. CASE lockedUntil = 0
  <2>1. ASSUME NEW i \in 1 .. fails PROVE Failure(i) \in Readings
    <3>1. failHead + (i - 1) \in 0 .. 2 * MaxAttempts - 1
      BY <1>1 DEF Slots
    <3>2. (failHead + (i - 1)) % MaxAttempts \in Slots
      BY <1>1, <3>1, ModRing DEF Slots
    <3> QED
      BY <1>1, <3>2 DEF Failure, Slot
  <2>2. Queue = [i \in 1 .. fails |-> Failure(i)]
    BY <1>3 DEF Queue, Failure
  <2>3. Held = fails
    BY <1>3 DEF Held
  <2>4. [i \in 1 .. fails |-> Failure(i)] \in Seq(Readings)
    BY <1>1, <2>1
  <2> QED
    BY <1>1, <2>2, <2>3, <2>4
<1> QED
  BY <1>2, <1>3

\* The prose of the transition table and the code agree on what is outside the
\* window, on the schedule's last delay and on the horizon.
LEMMA TooOldOf ==
    ASSUME PinTypeOK, NEW t \in Readings
    PROVE  Abstract!TooOld(t) <=> Outside(t)
  BY ConfigAssumption DEF PinTypeOK, Readings, Outside, SatSub, Abstract!TooOld

LEMMA PauseOf == \A k \in Nat : Abstract!BackoffAfter(k) = ScheduledBackoff(k)
<1> SUFFICES ASSUME NEW k \in Nat PROVE Abstract!BackoffAfter(k) = ScheduledBackoff(k)
  OBVIOUS
<1>1. Len(Backoff) \in Nat /\ Len(Backoff) # 0
  BY ConfigAssumption
<1>2. (IF k + 1 < Len(Backoff) THEN k + 1 ELSE Len(Backoff)) =
         1 + (IF k < Len(Backoff) - 1 THEN k ELSE Len(Backoff) - 1)
  BY <1>1
<1> QED
  BY <1>2 DEF Abstract!BackoffAfter, ScheduledBackoff

LEMMA HorizonOf ==
    ASSUME PinTypeOK, NEW k \in Nat
    PROVE  Abstract!Capped(Abstract!Capped(wall + Abstract!BackoffAfter(k)) + Lockout)
              = Horizon(k)
  BY PauseOf DEF Abstract!Capped, Horizon, SatAdd

\* The step of the abstract queue under a request that is judged.
LEMMA JudgedQueue ==
    ASSUME PinIInv, ~ StillLocked, Held \in 0 .. MaxAttempts - 1,
           NEW v \in Verdicts, NEW d \in 0 .. Held, JudgedWith(v, d)
    PROVE  Abstract!Expired(Queue, d) /\ Abstract!Judged(SubSeq(Queue, d + 1, Len(Queue)), v)
<1> DEFINE k == Held - d
           q == SubSeq(Queue, d + 1, Len(Queue))
<1>1. /\ Queue \in Seq(Readings) /\ Len(Queue) = Held
      /\ \A i \in 1 .. Held : Queue[i] = Failure(i) /\ Failure(i) \in Readings
  BY QueueOf DEF QueueHolds, PinIInv, PinInv
<1>2. PinTypeOK' /\ PinTypeOK /\ wall \in Readings
  <2>1. PinIInv'
    BY WrongPinStep, RightPinStep
  <2> QED
    BY <2>1 DEF PinIInv, PinInv, PinTypeOK
<1>3. QueueHolds'
  BY <1>2, QueueOf, PTL
<1>4. /\ Queue' \in Seq(Readings) /\ Len(Queue') = Held'
      /\ \A i \in 1 .. Held' : Queue'[i] = failTimes'[(failHead' + (i - 1)) % MaxAttempts]
  BY <1>3 DEF QueueHolds, Failure, Slot
<1>5. /\ k \in Nat /\ d \in Nat /\ Held \in Nat /\ Held = d + k /\ MaxAttempts \in Nat \ {0}
  BY PinFacts
<1>6. /\ q \in Seq(Readings) /\ Len(q) = k
      /\ \A i \in 1 .. k : q[i] = Failure(d + i)
  <2>1. q \in Seq(Readings) /\ Len(q) = k /\ \A i \in 1 .. k : q[i] = Queue[d + i]
    BY <1>1, <1>5
  <2>2. \A i \in 1 .. k : d + i \in 1 .. Held
    BY <1>5
  <2> QED
    BY <1>1, <2>1, <2>2
<1>7. Abstract!Expired(Queue, d)
  <2>1. ASSUME NEW i \in 1 .. Held
        PROVE  Abstract!TooOld(Queue[i]) <=> Outside(Failure(i))
    BY <1>1, <1>2, TooOldOf
  <2>2. (\A i \in 1 .. d : i \in 1 .. Held) /\ (d < Held => d + 1 \in 1 .. Held)
    BY <1>5
  <2>3. /\ \A i \in 1 .. d : Outside(Failure(i))
        /\ d < Held => ~ Outside(Failure(d + 1))
    BY DEF JudgedWith
  <2> QED
    BY <1>1, <2>1, <2>2, <2>3 DEF Abstract!Expired
<1>8. \A i \in 1 .. k : failTimes'[(failHead' + (i - 1)) % MaxAttempts] = Failure(d + i)
  BY DEF JudgedWith, Failure, Slot
<1> HIDE DEF q, k
<1>9. CASE v # "Wrong"
  <2>1. /\ fails' = k /\ lockedUntil' = 0
        /\ outcome' = [refuse |-> FALSE, backoff |-> 0, locked |-> FALSE]
    BY <1>9 DEF JudgedWith, k
  <2>2. Held' = k
    BY <2>1 DEF Held
  <2>3. \A i \in 1 .. Len(q) : Queue'[i] = q[i]
    BY <1>4, <1>6, <1>8, <2>2
  <2>4. Queue' = q
    BY <1>4, <1>6, <2>2, <2>3, SequencesEqual
  <2> QED
    BY <1>7, <1>9, <2>1, <2>4 DEF Abstract!Judged, q
<1>10. CASE v = "Wrong"
  <2>1. /\ fails' = k + 1 /\ failTimes'[(failHead' + (fails' - 1)) % MaxAttempts] = wall
        /\ lockedUntil' = IF k + 1 = MaxAttempts THEN Horizon(k) ELSE 0
        /\ outcome' = [refuse |-> TRUE, backoff |-> ScheduledBackoff(k),
                       locked |-> k + 1 = MaxAttempts]
    BY <1>10 DEF JudgedWith, Failure, Slot, k
  <2>2. /\ Abstract!BackoffAfter(k) = ScheduledBackoff(k) /\ Horizon(k) # 0
        /\ Abstract!Capped(Abstract!Capped(wall + Abstract!BackoffAfter(k)) + Lockout)
              = Horizon(k)
    BY <1>2, <1>5, PauseOf, HorizonOf, HorizonType
  <2>3. k + 1 = MaxAttempts => Queue' = << >>
    BY <2>1, <2>2 DEF Queue
  <2>4. ASSUME k + 1 # MaxAttempts PROVE Queue' = Append(q, wall)
    <3>1. Held' = k + 1
      BY <2>1, <2>4 DEF Held
    <3>2. /\ Append(q, wall) \in Seq(Readings) /\ Len(Append(q, wall)) = k + 1
          /\ Append(q, wall)[k + 1] = wall
          /\ \A i \in 1 .. k : Append(q, wall)[i] = q[i]
      BY <1>2, <1>5, <1>6
    <3>3. Queue'[k + 1] = wall
      BY <1>4, <1>5, <2>1, <3>1
    <3>4. \A i \in 1 .. k + 1 : i \in 1 .. k \/ i = k + 1
      BY <1>5
    <3>5. \A i \in 1 .. k : i \in 1 .. k + 1
      BY <1>5
    <3>6. \A i \in 1 .. k + 1 : Queue'[i] = Append(q, wall)[i]
      BY <1>4, <1>6, <1>8, <3>1, <3>2, <3>3, <3>4, <3>5
    <3> QED
      BY <1>4, <3>1, <3>2, <3>6, SequencesEqual
  <2>5. Abstract!Judged(q, v)
    BY <1>6, <1>10, <2>1, <2>2, <2>3, <2>4 DEF Abstract!Judged
  <2> QED
    BY <1>7, <2>5 DEF q
<1> QED
  BY <1>9, <1>10

LEMMA LockoutInit == PinInit => Abstract!Init
<1> SUFFICES ASSUME PinInit PROVE Abstract!Init
  OBVIOUS
<1>1. PinTypeOK /\ Held = 0
  BY PinStart DEF PinIInv, PinInv, PinInit, Held
<1>2. Queue \in Seq(Readings) /\ Len(Queue) = 0
  BY <1>1, QueueOf DEF QueueHolds
<1>3. Queue = << >>
  BY <1>2
<1> QED
  BY <1>3 DEF PinInit, Abstract!Init, Abstract!Time, Readings

\* What the ring of a node is when the budget is left alone.
LEMMA SameQueue ==
    ASSUME failTimes' = failTimes, failHead' = failHead, fails' = fails,
           lockedUntil' = lockedUntil
    PROVE  Queue' = Queue
  BY DEF Queue, Slot

LEMMA LockoutStep ==
    PinIInv /\ [PinNext]_pinVars
        => [Abstract!Next]_<<wall, Queue, lockedUntil, outcome>>
<1> SUFFICES ASSUME PinIInv, [PinNext]_pinVars
             PROVE  Abstract!Next \/ UNCHANGED <<wall, Queue, lockedUntil, outcome>>
  OBVIOUS
<1>1. CASE Request
  <2>1. PICK v \in Verdicts : Charge(v)
    BY <1>1 DEF Request, Verdict, Verdicts
  <2>2. PinTypeOK /\ wall' = wall /\ lockedUntil \in Nat /\ wall \in Nat
    BY <2>1, PinFacts DEF PinIInv, PinInv, PinTypeOK, Charge, Readings
  <2>3. CASE StillLocked
    <3>1. /\ lockedUntil' = lockedUntil /\ lockedUntil # 0 /\ wall < lockedUntil
          /\ outcome' = [refuse |-> TRUE, backoff |-> 0, locked |-> TRUE]
      BY <2>1, <2>2, <2>3, ChargeLocked DEF StillLocked
    <3>2. Queue' = Queue
      BY <3>1 DEF Queue
    <3>3. Abstract!Charge(v)
      BY <2>2, <3>1, <3>2 DEF Abstract!Charge, Abstract!Refused
    <3> QED
      BY <3>3 DEF Abstract!Next, Abstract!Verdicts, Verdicts
  <2>4. CASE ~ StillLocked
    <3>1. Held \in 0 .. MaxAttempts - 1 /\ \E d \in 0 .. Held : JudgedWith(v, d)
      BY <2>1, <2>4, ChargeJudged DEF PinIInv, PinInv
    <3>2. PICK d \in 0 .. Held : JudgedWith(v, d)
      BY <3>1
    <3>3. Abstract!Expired(Queue, d) /\ Abstract!Judged(SubSeq(Queue, d + 1, Len(Queue)), v)
      BY <2>4, <3>1, <3>2, JudgedQueue
    <3>4. d \in 0 .. Len(Queue)
      BY <2>2, QueueOf DEF QueueHolds
    <3>5. ~ (lockedUntil # 0 /\ wall < lockedUntil)
      BY <2>4 DEF StillLocked
    <3>6. Abstract!Charge(v)
      BY <2>2, <3>3, <3>4, <3>5 DEF Abstract!Charge
    <3> QED
      BY <3>6 DEF Abstract!Next, Abstract!Verdicts, Verdicts
  <2> QED
    BY <2>3, <2>4
<1>2. CASE MoveWall
  <2>1. /\ wall' \in Readings /\ failTimes' = failTimes /\ failHead' = failHead
        /\ fails' = fails /\ lockedUntil' = lockedUntil /\ outcome' = outcome
    BY <1>2 DEF MoveWall, budgetVars
  <2>2. Queue' = Queue
    BY <2>1, SameQueue
  <2>3. Abstract!SetWall
    BY <2>1, <2>2 DEF Abstract!SetWall, Abstract!Time, Readings
  <2> QED
    BY <2>3 DEF Abstract!Next
<1>3. CASE UNCHANGED pinVars
  <2>1. /\ wall' = wall /\ failTimes' = failTimes /\ failHead' = failHead
        /\ fails' = fails /\ lockedUntil' = lockedUntil /\ outcome' = outcome
    BY <1>3 DEF pinVars, budgetVars
  <2> QED
    BY <2>1, SameQueue
<1> QED
  BY <1>1, <1>2, <1>3 DEF PinNext

\* The ring implements the transition table of ADR-0013 section 7: with the queue
\* read off the ring (empty while locked), every charge is one of the table's
\* charges and every movement of the clock one of its clock's.
THEOREM ImplementsLockoutHolds == PinSpec => ImplementsLockout
<1>1. PinInit => Abstract!Init
  BY LockoutInit
<1>2. PinIInv /\ [PinNext]_pinVars
         => [Abstract!Next]_<<wall, Queue, lockedUntil, outcome>>
  BY LockoutStep
<1> QED
  BY <1>1, <1>2, PinInductive, PTL DEF PinSpec, ImplementsLockout, Abstract!Spec

-----------------------------------------------------------------------------
(* RefreshGate.  A refresh is judged by what two logs and a counter say, so   *)
(* the invariant ties each to what it stands for: the counter to the         *)
(* handlers in preflight, the pending log to the hot spends resident in the  *)
(* store, the refresh log to when a coin was really refreshed, and the       *)
(* replay log to the resident pairs.                                         *)

HandlerState == [at : Phases, commitment : Commitments \cup {"none"}, instance : Nat]

\* A handler that is not idle works on what it was given.
HandlersServe ==
    /\ handler \in [SpendHandlers \cup RefreshHandlers -> HandlerState]
    /\ \A h \in SpendHandlers : ~ At(h, "idle") =>
          <<handler[h].commitment, handler[h].instance>> \in Submissions
    /\ \A h \in RefreshHandlers : ~ At(h, "idle") =>
          handler[h].commitment \in Refreshes /\ handler[h].instance = 1

Busy == {h \in SpendHandlers : ~ At(h, "idle")}

\* Node.spend_preflight counts the /sign handlers past their ingress hold.
SlotsCount == preflights = Cardinality(Busy)

LogTypes ==
    /\ clock \in GateReadings
    /\ accepted \subseteq Submissions \cup (Refreshes \X {1})
    /\ refused \subseteq Commitments
    /\ pending \subseteq HotSpends
    /\ refreshedAt \in [Coins -> 0 .. LastReading]
    /\ resident \in [Commitments -> {0, 1} \cup {s[2] : s \in Submissions}]
    /\ broadcast \subseteq {x \in Commitments : resident[x] # 0}
    /\ settling \subseteq settled /\ settled \subseteq Commitments
    /\ wentBack \in BOOLEAN
    /\ lineage \in [Coins -> 0 .. LastReading]

\* A hot spend in the store that has not settled is in the pending log.
ResidentIsPending ==
    \A x \in HotSpends : resident[x] # 0 /\ x \notin settled => x \in pending

\* The refresh log holds the time of the last refresh of a coin's lineage, or that is
\* an interval ago.
LineageKept ==
    \A c \in Coins : lineage[c] > 0 =>
        /\ lineage[c] <= clock
        /\ refreshedAt[c] = lineage[c] \/ clock - lineage[c] >= RefreshInterval

\* While the clock runs forward, an unexpired resident pair is on record as accepted,
\* and an unexpired settled candidate is still resident.
ResidentIsAccepted ==
    ~ wentBack => \A x \in Commitments : Expiry[x] > clock =>
        /\ resident[x] # 0 => <<x, resident[x]>> \in accepted
        /\ x \in settled => resident[x] # 0

LogsInv ==
    /\ LogTypes /\ ResidentIsPending /\ LineageKept /\ ResidentIsAccepted
    /\ SettledStaysSettled

GateIInv == HandlersServe /\ SlotsCount /\ LogsInv

-----------------------------------------------------------------------------
(* The slots.                                                                *)

LEMMA SlotClaimed ==
    ASSUME HandlersServe, SlotsCount, NEW h \in SpendHandlers, h \notin Busy,
           Busy' = Busy \cup {h}, ClaimSlot
    PROVE  SlotsCount'
<1>1. IsFiniteSet(Busy)
  BY GateAssumption, FS_Subset DEF Busy
<1>2. Cardinality(Busy \cup {h}) = Cardinality(Busy) + 1
  BY <1>1, FS_AddElement
<1> QED
  BY <1>2 DEF SlotsCount, ClaimSlot

LEMMA SlotDropped ==
    ASSUME HandlersServe, SlotsCount, NEW h \in Busy, Busy' = Busy \ {h}, DropSlot
    PROVE  SlotsCount'
<1>1. IsFiniteSet(Busy)
  BY GateAssumption, FS_Subset DEF Busy
<1>2. Cardinality(Busy \ {h}) = Cardinality(Busy) - 1
  BY <1>1, FS_RemoveElement
<1> QED
  BY <1>2 DEF SlotsCount, DropSlot

LEMMA FreeType == Free \in HandlerState
  BY DEF Free, HandlerState, Phases

\* What the three ways to change a handler do.
LEMMA HandlerMoves ==
    ASSUME HandlersServe, NEW h \in SpendHandlers \cup RefreshHandlers
    PROVE  /\ \A p \in Phases : Moves(h, p) =>
                 /\ handler' \in [SpendHandlers \cup RefreshHandlers -> HandlerState]
                 /\ handler'[h].at = p /\ handler'[h].commitment = handler[h].commitment
                 /\ handler'[h].instance = handler[h].instance
           /\ Ends(h) =>
                 /\ handler' \in [SpendHandlers \cup RefreshHandlers -> HandlerState]
                 /\ handler'[h].at = "idle"
           /\ \A p \in Phases, x \in Commitments, i \in Nat : Starts(h, x, i, p) =>
                 /\ handler' \in [SpendHandlers \cup RefreshHandlers -> HandlerState]
                 /\ handler'[h].at = p /\ handler'[h].commitment = x
                 /\ handler'[h].instance = i
<1>1. handler \in [SpendHandlers \cup RefreshHandlers -> HandlerState]
  BY DEF HandlersServe
<1>2. ASSUME NEW p \in Phases, Moves(h, p)
      PROVE  /\ handler' \in [SpendHandlers \cup RefreshHandlers -> HandlerState]
             /\ handler'[h].at = p /\ handler'[h].commitment = handler[h].commitment
             /\ handler'[h].instance = handler[h].instance
  BY <1>1, <1>2 DEF Moves, HandlerState
<1>3. ASSUME Ends(h)
      PROVE  /\ handler' \in [SpendHandlers \cup RefreshHandlers -> HandlerState]
             /\ handler'[h].at = "idle"
  <2>1. Free.at = "idle"
    BY DEF Free
  <2> QED
    BY <1>1, <1>3, <2>1, FreeType DEF Ends
<1>4. ASSUME NEW p \in Phases, NEW x \in Commitments, NEW i \in Nat, Starts(h, x, i, p)
      PROVE  /\ handler' \in [SpendHandlers \cup RefreshHandlers -> HandlerState]
             /\ handler'[h].at = p /\ handler'[h].commitment = x
             /\ handler'[h].instance = i
  BY <1>1, <1>4 DEF Starts, HandlerState
<1> QED
  BY <1>2, <1>3, <1>4

\* A step of the handlers besides what it does to the logs.
LEMMA HandlersStep ==
    ASSUME HandlersServe, SlotsCount, [GateNext]_gateVars
    PROVE  HandlersServe' /\ SlotsCount'
<1>a. \A s \in Submissions : s = <<s[1], s[2]>> /\ s[1] \in Commitments /\ s[2] \in Nat
  BY GateAssumption DEF Commitments
<1>1. ASSUME NEW h \in SpendHandlers, NEW s \in Submissions, SpendIngress(h, s[1], s[2])
      PROVE  HandlersServe' /\ SlotsCount'
  <2>1. /\ handler' \in [SpendHandlers \cup RefreshHandlers -> HandlerState]
        /\ handler'[h].at = "pin" /\ handler'[h].commitment = s[1]
        /\ handler'[h].instance = s[2]
        /\ \A g \in SpendHandlers \cup RefreshHandlers : g # h => handler'[g] = handler[g]
    BY <1>1, <1>a, HandlerMoves DEF SpendIngress, Starts, Phases, HandlersServe
  <2>2. h \notin RefreshHandlers
    BY GateAssumption
  <2>3. HandlersServe'
    BY <1>a, <2>1, <2>2 DEF HandlersServe, At
  <2>4. h \notin Busy /\ Busy' = Busy \cup {h}
    BY <1>1, <2>1 DEF SpendIngress, Busy, At
  <2> QED
    BY <1>1, <2>3, <2>4, SlotClaimed DEF SpendIngress
<1>2. ASSUME NEW h \in SpendHandlers, PinAccepted(h) \/ SpendRegistration(h)
      PROVE  HandlersServe' /\ SlotsCount'
  <2>1. /\ handler' \in [SpendHandlers \cup RefreshHandlers -> HandlerState]
        /\ handler'[h].at # "idle" /\ handler'[h].commitment = handler[h].commitment
        /\ handler'[h].instance = handler[h].instance
        /\ \A g \in SpendHandlers \cup RefreshHandlers : g # h => handler'[g] = handler[g]
    BY <1>2, HandlerMoves
       DEF PinAccepted, SpendRegistration, Moves, Phases, HandlersServe
  <2>2. ~ At(h, "idle") /\ preflights' = preflights /\ h \notin RefreshHandlers
    BY <1>2, GateAssumption DEF PinAccepted, SpendRegistration, At
  <2>3. HandlersServe'
    BY <2>1, <2>2 DEF HandlersServe, At
  <2>4. Busy' = Busy
    BY <2>1, <2>2 DEF Busy, At
  <2> QED
    BY <2>2, <2>3, <2>4 DEF SlotsCount
<1>3. ASSUME NEW h \in SpendHandlers, PinRefused(h) \/ WindowPanics(h) \/ SpendLeaves(h)
      PROVE  HandlersServe' /\ SlotsCount'
  <2>1. /\ handler' \in [SpendHandlers \cup RefreshHandlers -> HandlerState]
        /\ handler'[h].at = "idle"
        /\ \A g \in SpendHandlers \cup RefreshHandlers : g # h => handler'[g] = handler[g]
    BY <1>3, HandlerMoves
       DEF PinRefused, WindowPanics, SpendLeaves, Ends, HandlersServe
  <2>2. ~ At(h, "idle") /\ DropSlot
    BY <1>3 DEF PinRefused, WindowPanics, SpendLeaves, At
  <2>3. HandlersServe'
    BY <2>1 DEF HandlersServe, At
  <2>4. h \in Busy /\ Busy' = Busy \ {h}
    BY <2>1, <2>2 DEF Busy, At
  <2> QED
    BY <2>2, <2>3, <2>4, SlotDropped
<1>4. ASSUME NEW h \in RefreshHandlers, NEW r \in Refreshes, RefreshIngress(h, r)
      PROVE  HandlersServe' /\ SlotsCount'
  <2>1. /\ handler' \in [SpendHandlers \cup RefreshHandlers -> HandlerState]
        /\ handler'[h].at = "chain" /\ handler'[h].commitment = r
        /\ handler'[h].instance = 1
        /\ \A g \in SpendHandlers \cup RefreshHandlers : g # h => handler'[g] = handler[g]
    BY <1>4, HandlerMoves DEF RefreshIngress, Starts, Phases, HandlersServe, Commitments
  <2>2. h \notin SpendHandlers /\ preflights' = preflights
    BY <1>4, GateAssumption DEF RefreshIngress
  <2>3. HandlersServe'
    BY <2>1, <2>2 DEF HandlersServe, At
  <2>4. Busy' = Busy
    BY <2>1, <2>2 DEF Busy, At
  <2> QED
    BY <2>2, <2>3, <2>4 DEF SlotsCount
<1>5. ASSUME NEW h \in RefreshHandlers, RefreshRegistration(h)
      PROVE  HandlersServe' /\ SlotsCount'
  <2>1. /\ handler' \in [SpendHandlers \cup RefreshHandlers -> HandlerState]
        /\ handler'[h].at = "idle"
        /\ \A g \in SpendHandlers \cup RefreshHandlers : g # h => handler'[g] = handler[g]
    BY <1>5, HandlerMoves DEF RefreshRegistration, Ends, HandlersServe
  <2>2. h \notin SpendHandlers /\ preflights' = preflights
    BY <1>5, GateAssumption DEF RefreshRegistration
  <2>3. HandlersServe'
    BY <2>1 DEF HandlersServe, At
  <2>4. Busy' = Busy
    BY <2>1, <2>2 DEF Busy, At
  <2> QED
    BY <2>2, <2>3, <2>4 DEF SlotsCount
<1>6. CASE UNCHANGED <<handler, preflights>>
  BY <1>6 DEF HandlersServe, SlotsCount, Busy, At
<1>7. ASSUME NEW x \in Commitments, MarkBroadcast(x) \/ RemovePending(x)
      PROVE  UNCHANGED <<handler, preflights>>
  BY <1>7 DEF MarkBroadcast, RemovePending
<1>8. CASE FirePrune \/ TickClock \/ StepBack \/ UNCHANGED gateVars
  BY <1>6, <1>8 DEF FirePrune, TickClock, StepBack, gateVars
<1> QED
  BY <1>1, <1>2, <1>3, <1>4, <1>5, <1>6, <1>7, <1>8 DEF GateNext

-----------------------------------------------------------------------------
(* The logs.                                                                 *)

\* What every hold does to the logs besides its own entry: the clock stands still,
\* live acceptances stay, and only what expired or is an interval ago is forgotten.
Prunes ==
    /\ UNCHANGED <<clock, settling, wentBack, settled>>
    /\ \A key \in accepted : LiveVerdict(key[1]) => key \in accepted'
    /\ refused' \subseteq Commitments

StoreLoses(x) == resident'[x] = 0 /\ Expiry[x] < clock

LogLoses(c) == refreshedAt'[c] = 0 /\ ~ Recent(c)

LEMMA ReplayPruned ==
    ASSUME LogTypes, PruneReplay, UNCHANGED <<clock, settling, wentBack, settled>>
    PROVE  Prunes /\ accepted' \subseteq accepted
  BY DEF PruneReplay, Prunes, LogTypes

\* The three prunes of a registration hold.
LEMMA StoresPruned ==
    ASSUME LogTypes
    PROVE  /\ PrunedRefreshes \in [Coins -> 0 .. LastReading]
           /\ PrunedStore \in [Commitments -> {0, 1} \cup {s[2] : s \in Submissions}]
           /\ \A x \in Commitments : \/ PrunedStore[x] = resident[x]
                                     \/ PrunedStore[x] = 0 /\ Expiry[x] < clock
           /\ \A x \in Commitments : PrunedStore[x] # 0 => Expiry[x] >= clock
           /\ \A x \in Commitments : StillResident(x) <=> PrunedStore[x] # 0
           /\ \A c \in Coins : \/ PrunedRefreshes[c] = refreshedAt[c]
                               \/ PrunedRefreshes[c] = 0 /\ ~ Recent(c)
           /\ PrunedPending \subseteq pending
           /\ \A x \in pending : x \notin PrunedPending => PrunedStore[x] = 0
<1>1. clock \in Nat /\ \A x \in Commitments : Expiry[x] \in Nat
  BY GateAssumption DEF LogTypes, GateReadings
<1>2. pending \subseteq Commitments
  BY DEF LogTypes, Commitments, Spends
<1> QED
  BY <1>1, <1>2, GateAssumption
     DEF LogTypes, PrunedRefreshes, PrunedStore, PrunedPending, StillResident, StillPending

\* A hold that registers nothing.
LEMMA NothingRegistered ==
    ASSUME LogsInv, Prunes, accepted' \subseteq accepted, lineage' = lineage,
           holdLogs' = holdLogs \/ PruneOnly
    PROVE  LogsInv'
<1>1. /\ \A x \in Commitments : resident'[x] = resident[x] \/ StoreLoses(x)
      /\ \A c \in Coins : refreshedAt'[c] = refreshedAt[c] \/ LogLoses(c)
      /\ pending' \subseteq pending
      /\ \A x \in pending : x \notin pending' => resident'[x] = 0
      /\ broadcast' \subseteq {x \in Commitments : resident'[x] # 0}
      /\ refreshedAt' \in [Coins -> 0 .. LastReading]
      /\ resident' \in [Commitments -> {0, 1} \cup {s[2] : s \in Submissions}]
  <2>1. CASE holdLogs' = holdLogs
    BY <2>1 DEF holdLogs, LogsInv, LogTypes
  <2>2. CASE PruneOnly
    BY <2>2, StoresPruned DEF PruneOnly, LogsInv, LogTypes, StoreLoses, LogLoses
  <2> QED
    BY <2>1, <2>2
<1>2. clock \in Nat /\ \A x \in Commitments : Expiry[x] \in Nat
  BY GateAssumption DEF LogsInv, LogTypes, GateReadings
<1>3. LogTypes'
  BY <1>1 DEF Prunes, LogsInv, LogTypes
<1>4. ResidentIsPending'
  BY <1>1 DEF Prunes, LogsInv, LogTypes, ResidentIsPending, StoreLoses, Commitments, Spends
<1>5. LineageKept'
  <2>1. \A c \in Coins : lineage[c] \in Nat /\ refreshedAt[c] \in Nat
    BY GateAssumption DEF LogsInv, LogTypes
  <2> QED
    BY <1>1, <1>2, <2>1, GateAssumption
       DEF Prunes, LogsInv, LineageKept, LogLoses, Recent, Elapsed
<1>6. ResidentIsAccepted'
  BY <1>1, <1>2 DEF Prunes, LogsInv, ResidentIsAccepted, StoreLoses, LiveVerdict
<1>7. SettledStaysSettled'
  BY <1>1 DEF Prunes, LogsInv, SettledStaysSettled
<1> QED
  BY <1>3, <1>4, <1>5, <1>6, <1>7 DEF LogsInv

\* A pair that may be registered is not the one of a settled candidate.
LEMMA NotSettled ==
    ASSUME LogsInv, ~ wentBack, NEW h, Unruled(h),
           handler[h].commitment \in Commitments,
           Registrable(handler[h].commitment, handler[h].instance)
    PROVE  handler[h].commitment \notin settled
<1>1. SUFFICES ASSUME handler[h].commitment \in settled PROVE FALSE
  OBVIOUS
<1>2. clock \in Nat /\ \A x \in Commitments : Expiry[x] \in Nat
  BY GateAssumption DEF LogsInv, LogTypes, GateReadings
<1>3. Expiry[handler[h].commitment] > clock
  BY DEF Unruled, InAgeWindow
<1>4. /\ resident[handler[h].commitment] # 0
      /\ <<handler[h].commitment, resident[handler[h].commitment]>> \in accepted
  BY <1>1, <1>3 DEF LogsInv, ResidentIsAccepted
<1>5. resident[handler[h].commitment] = handler[h].instance
  BY <1>2, <1>3, <1>4 DEF Registrable, PrunedStore, StillResident
<1> QED
  BY <1>4, <1>5 DEF Unruled, HasVerdict

LEMMA SpendRegistered ==
    ASSUME LogsInv, HandlersServe, NEW h \in SpendHandlers, ~ At(h, "idle"),
           Registered(h), UNCHANGED <<clock, settling, history>>
    PROVE  LogsInv'
<1> DEFINE x == handler[h].commitment
           i == handler[h].instance
<1>1. /\ <<x, i>> \in Submissions /\ x \in Spends /\ i \in Nat \ {0}
      /\ x \in Commitments /\ x \notin Refreshes
  BY GateAssumption DEF HandlersServe, Commitments
<1>2. i \in {s[2] : s \in Submissions}
  BY <1>1
<1>3. /\ clock \in Nat /\ \A y \in Commitments : Expiry[y] \in Nat
      /\ \A c \in Coins : lineage[c] \in Nat /\ refreshedAt[c] \in Nat
  BY GateAssumption DEF LogsInv, LogTypes, GateReadings
<1>4. /\ Expiry[x] > clock
      /\ ~ wentBack => x \notin settled
  <2>1. Unruled(h) /\ Registrable(x, i)
    BY DEF Registered
  <2>2. Expiry[x] > clock
    BY <2>1 DEF Unruled, InAgeWindow
  <2> QED
    BY <1>1, <2>1, <2>2, NotSettled
<1> HIDE DEF x, i
<1>5. /\ accepted' = {key \in accepted : LiveVerdict(key[1])} \cup {<<x, i>>}
      /\ refused' \subseteq refused
      /\ resident' = [PrunedStore EXCEPT ![x] = i]
      /\ broadcast' = {y \in broadcast : StillResident(y)}
      /\ refreshedAt' = PrunedRefreshes
      /\ pending' = PrunedPending \cup ({x} \cap HotSpends)
      /\ UNCHANGED <<clock, settling, wentBack, settled, lineage>>
  BY DEF Registered, x, i, history
<1>6. /\ resident' \in [Commitments -> {0, 1} \cup {s[2] : s \in Submissions}]
      /\ resident'[x] = i
      /\ \A y \in Commitments : y # x => resident'[y] = resident[y] \/ StoreLoses(y)
      /\ \A y \in Commitments : StillResident(y) => resident'[y] # 0
      /\ \A y \in pending : y # x /\ y \notin pending' => resident'[y] = 0
  <2>1. pending \subseteq Commitments
    BY DEF LogsInv, LogTypes, Commitments, Spends
  <2> QED
    BY <1>1, <1>2, <1>5, <2>1, StoresPruned DEF LogsInv, StoreLoses
<1>7. LogTypes'
  <2>1. pending' \subseteq HotSpends
    BY <1>5, StoresPruned DEF LogsInv, LogTypes
  <2>2. refreshedAt' \in [Coins -> 0 .. LastReading]
    BY <1>5, StoresPruned DEF LogsInv
  <2> QED
    BY <1>1, <1>5, <1>6, <2>1, <2>2 DEF LogsInv, LogTypes
<1>8. ResidentIsPending'
  <2>1. HotSpends \subseteq Commitments
    BY DEF Commitments, Spends
  <2>2. x \in HotSpends => x \in pending'
    BY <1>5
  <2> QED
    BY <1>5, <1>6, <2>1, <2>2 DEF LogsInv, ResidentIsPending, StoreLoses
<1>9. LineageKept'
  <2>1. \A c \in Coins : refreshedAt'[c] = refreshedAt[c] \/ LogLoses(c)
    BY <1>5, StoresPruned DEF LogsInv, LogLoses
  <2> QED
    BY <1>3, <1>5, <2>1, GateAssumption DEF LogsInv, LineageKept, LogLoses, Recent, Elapsed
<1>10. ResidentIsAccepted'
  BY <1>1, <1>3, <1>4, <1>5, <1>6
     DEF LogsInv, ResidentIsAccepted, StoreLoses, LiveVerdict
<1>11. SettledStaysSettled'
  BY <1>4, <1>5, StoresPruned DEF LogsInv, SettledStaysSettled
<1> QED
  BY <1>7, <1>8, <1>9, <1>10, <1>11 DEF LogsInv

LEMMA RefreshAdmitted ==
    ASSUME LogsInv, HandlersServe, NEW h \in RefreshHandlers, ~ At(h, "idle"),
           Admitted(h), UNCHANGED <<clock, settling>>
    PROVE  LogsInv'
<1> DEFINE r == handler[h].commitment
<1>1. r \in Refreshes /\ r \in Commitments /\ r \notin HotSpends /\ handler[h].instance = 1
  BY GateAssumption DEF HandlersServe, Commitments, Spends
<1>2. /\ clock \in Nat /\ clock > 0 /\ clock \in 0 .. LastReading
      /\ \A y \in Commitments : Expiry[y] \in Nat
      /\ \A c \in Coins : lineage[c] \in Nat /\ refreshedAt[c] \in Nat
  BY GateAssumption DEF LogsInv, LogTypes, GateReadings
<1>3. ~ wentBack => r \notin settled
  <2>1. Unruled(h) /\ Registrable(r, handler[h].instance)
    BY <1>1 DEF Admitted
  <2> QED
    BY <1>1, <2>1, NotSettled
<1> HIDE DEF r
<1>4. /\ accepted' = {key \in accepted : LiveVerdict(key[1])} \cup {<<r, 1>>}
      /\ refused' \subseteq refused
      /\ resident' = [PrunedStore EXCEPT ![r] = 1]
      /\ broadcast' = {y \in broadcast : StillResident(y)}
      /\ pending' = PrunedPending
      /\ refreshedAt' = [c \in Coins |-> IF c \in Stamped(r) THEN clock
                                         ELSE PrunedRefreshes[c]]
      /\ lineage' = [c \in Coins |-> IF c \in Inputs[r] \cup Outputs[r] THEN clock
                                     ELSE lineage[c]]
      /\ UNCHANGED <<clock, settling, wentBack, settled>>
  BY DEF Admitted, r
<1>5. /\ resident' \in [Commitments -> {0, 1} \cup {s[2] : s \in Submissions}]
      /\ resident'[r] = 1
      /\ \A y \in Commitments : y # r => resident'[y] = resident[y] \/ StoreLoses(y)
      /\ \A y \in Commitments : StillResident(y) => resident'[y] # 0
      /\ \A y \in pending : y \notin pending' => resident'[y] = 0
  <2>1. pending \subseteq Commitments /\ r \notin pending
    BY <1>1 DEF LogsInv, LogTypes, Commitments, Spends
  <2> QED
    BY <1>1, <1>4, <2>1, StoresPruned DEF LogsInv, StoreLoses
<1>6. LogTypes'
  <2>1. pending' \subseteq HotSpends
    BY <1>4, StoresPruned DEF LogsInv, LogTypes
  <2>2. refreshedAt' \in [Coins -> 0 .. LastReading]
    BY <1>2, <1>4, StoresPruned DEF LogsInv
  <2>3. lineage' \in [Coins -> 0 .. LastReading]
    BY <1>2, <1>4 DEF LogsInv, LogTypes
  <2> QED
    BY <1>1, <1>4, <1>5, <2>1, <2>2, <2>3 DEF LogsInv, LogTypes
<1>7. ResidentIsPending'
  <2>1. HotSpends \subseteq Commitments
    BY DEF Commitments, Spends
  <2> QED
    BY <1>1, <1>4, <1>5, <2>1 DEF LogsInv, ResidentIsPending, StoreLoses
<1>8. LineageKept'
  <2> SUFFICES ASSUME NEW c \in Coins, lineage'[c] > 0
               PROVE  /\ lineage'[c] <= clock'
                      /\ refreshedAt'[c] = lineage'[c]
                         \/ clock' - lineage'[c] >= RefreshInterval
    BY DEF LineageKept
  <2>1. CASE c \in Inputs[r] \cup Outputs[r]
    BY <1>2, <1>4, <2>1 DEF Stamped
  <2>2. CASE c \notin Inputs[r] \cup Outputs[r]
    <3>1. /\ lineage'[c] = lineage[c]
          /\ refreshedAt'[c] = refreshedAt[c] \/ LogLoses(c)
      BY <1>4, <2>2, StoresPruned DEF LogsInv, Stamped, LogLoses
    <3> QED
      BY <1>2, <1>4, <3>1, GateAssumption DEF LogsInv, LineageKept, LogLoses, Recent, Elapsed
  <2> QED
    BY <2>1, <2>2
<1>9. ResidentIsAccepted'
  BY <1>1, <1>2, <1>3, <1>4, <1>5
     DEF LogsInv, ResidentIsAccepted, StoreLoses, LiveVerdict
<1>10. SettledStaysSettled'
  BY <1>4, StoresPruned DEF LogsInv, SettledStaysSettled
<1> QED
  BY <1>6, <1>7, <1>8, <1>9, <1>10 DEF LogsInv

\* Both registration holds, each outcome.
LEMMA RegistrationLogs ==
    ASSUME LogsInv, HandlersServe,
           \/ \E h \in SpendHandlers : SpendRegistration(h)
           \/ \E h \in RefreshHandlers : RefreshRegistration(h)
    PROVE  LogsInv'
<1>1. ASSUME UNCHANGED <<clock, settling, history>>, NEW h,
             ExpiredMeanwhile(h) \/ Replays(h) \/ FetchFailed(h) \/ RefusedNow(h)
      PROVE  LogsInv'
  <2>1. CASE ExpiredMeanwhile(h)
    <3>1. Prunes /\ accepted' \subseteq accepted /\ lineage' = lineage /\ holdLogs' = holdLogs
      BY <1>1, <2>1
         DEF ExpiredMeanwhile, replayLog, holdLogs, history, Prunes, LogsInv, LogTypes
    <3> QED
      BY <3>1, NothingRegistered
  <2>2. CASE Replays(h) \/ FetchFailed(h) \/ RefusedNow(h)
    <3>1. /\ PruneReplay /\ (holdLogs' = holdLogs \/ PruneOnly) /\ lineage' = lineage
          /\ UNCHANGED <<clock, settling, wentBack, settled>>
      BY <1>1, <2>2 DEF Replays, FetchFailed, RefusedNow, history
    <3> QED
      BY <3>1, ReplayPruned, NothingRegistered DEF LogsInv
  <2> QED
    BY <1>1, <2>1, <2>2
<1>2. ASSUME UNCHANGED <<clock, settling, history>>, NEW h, RefusedForGood(h),
             handler[h].commitment \in Commitments
      PROVE  LogsInv'
  <2>1. /\ accepted' = {key \in accepted : LiveVerdict(key[1])} /\ PruneOnly
        /\ refused' \subseteq refused \cup {handler[h].commitment}
        /\ UNCHANGED <<clock, settling, wentBack, settled, lineage>>
    BY <1>2 DEF RefusedForGood, history
  <2>2. Prunes /\ accepted' \subseteq accepted
    BY <1>2, <2>1 DEF Prunes, LogsInv, LogTypes
  <2> QED
    BY <2>1, <2>2, NothingRegistered
<1>3. ASSUME NEW h \in SpendHandlers, SpendRegistration(h) PROVE LogsInv'
  <2>1. ~ At(h, "idle") /\ UNCHANGED <<clock, settling, history>>
    BY <1>3 DEF SpendRegistration, At
  <2>2. handler[h].commitment \in Commitments
    BY <2>1, GateAssumption DEF HandlersServe, Commitments
  <2> QED
    BY <1>1, <1>2, <1>3, <2>1, <2>2, SpendRegistered DEF SpendRegistration
<1>4. ASSUME NEW h \in RefreshHandlers, RefreshRegistration(h) PROVE LogsInv'
  <2>1. ~ At(h, "idle") /\ UNCHANGED <<clock, settling>>
    BY <1>4 DEF RefreshRegistration, At
  <2>2. handler[h].commitment \in Commitments
    BY <2>1 DEF HandlersServe, Commitments
  <2> QED
    BY <1>1, <1>2, <1>4, <2>1, <2>2, RefreshAdmitted DEF RefreshRegistration
<1> QED
  BY <1>3, <1>4

LEMMA LogsStep ==
    ASSUME LogsInv, HandlersServe, [GateNext]_gateVars
    PROVE  LogsInv'
<1>a. /\ clock \in Nat /\ \A y \in Commitments : Expiry[y] \in Nat
      /\ \A c \in Coins : lineage[c] \in Nat /\ refreshedAt[c] \in Nat
  BY GateAssumption DEF LogsInv, LogTypes, GateReadings
<1>1. CASE UNCHANGED <<clock, replayLog, holdLogs, settling, history>>
  BY <1>1 DEF replayLog, holdLogs, history, LogsInv, LogTypes, ResidentIsPending,
              LineageKept, ResidentIsAccepted, SettledStaysSettled
<1>2. ASSUME NEW h \in SpendHandlers,
             \/ \E s \in Submissions : SpendIngress(h, s[1], s[2])
             \/ PinAccepted(h) \/ PinRefused(h) \/ WindowPanics(h) \/ SpendLeaves(h)
      PROVE  LogsInv'
  BY <1>1, <1>2 DEF SpendIngress, PinAccepted, PinRefused, WindowPanics, SpendLeaves
<1>3. ASSUME NEW h \in RefreshHandlers, NEW r \in Refreshes, RefreshIngress(h, r)
      PROVE  LogsInv'
  BY <1>1, <1>3 DEF RefreshIngress
<1>4. CASE \/ \E h \in SpendHandlers : SpendRegistration(h)
           \/ \E h \in RefreshHandlers : RefreshRegistration(h)
  BY <1>4, RegistrationLogs
<1>5. ASSUME NEW x \in Commitments, MarkBroadcast(x) PROVE LogsInv'
  <2>1. LogTypes'
    BY <1>5 DEF MarkBroadcast, replayLog, LogsInv, LogTypes
  <2>2. ResidentIsPending' /\ LineageKept' /\ SettledStaysSettled'
    BY <1>5 DEF MarkBroadcast, LogsInv, ResidentIsPending, LineageKept, SettledStaysSettled
  <2>3. ResidentIsAccepted'
    BY <1>5 DEF MarkBroadcast, replayLog, LogsInv, ResidentIsAccepted
  <2> QED
    BY <2>1, <2>2, <2>3 DEF LogsInv
<1>6. ASSUME NEW x \in Commitments, RemovePending(x) PROVE LogsInv'
  <2>1. LogTypes'
    BY <1>6 DEF RemovePending, replayLog, history, LogsInv, LogTypes
  <2>2. ResidentIsPending' /\ LineageKept' /\ SettledStaysSettled'
    BY <1>6 DEF RemovePending, history, LogsInv, LogTypes, ResidentIsPending, LineageKept,
                SettledStaysSettled
  <2>3. ResidentIsAccepted'
    BY <1>6 DEF RemovePending, replayLog, history, LogsInv, ResidentIsAccepted
  <2> QED
    BY <2>1, <2>2, <2>3 DEF LogsInv
<1>7. CASE FirePrune
  <2>1. /\ resident' \in [Commitments -> {0, 1} \cup {s[2] : s \in Submissions}]
        /\ \A y \in Commitments : resident'[y] = resident[y] \/ StoreLoses(y)
        /\ broadcast' \subseteq {y \in Commitments : resident'[y] # 0}
        /\ UNCHANGED <<clock, accepted, refused, pending, refreshedAt, settling, wentBack,
                       settled, lineage>>
    BY <1>7, StoresPruned DEF FirePrune, replayLog, history, LogsInv, LogTypes, StoreLoses
  <2>2. HotSpends \subseteq Commitments
    BY DEF Commitments, Spends
  <2>3. LogTypes'
    BY <2>1 DEF LogsInv, LogTypes
  <2>4. ResidentIsPending' /\ LineageKept' /\ SettledStaysSettled'
    BY <2>1, <2>2 DEF LogsInv, ResidentIsPending, LineageKept, SettledStaysSettled, StoreLoses
  <2>5. ResidentIsAccepted'
    BY <1>a, <2>1 DEF LogsInv, ResidentIsAccepted, StoreLoses
  <2> QED
    BY <2>3, <2>4, <2>5 DEF LogsInv
<1>8. CASE TickClock
  <2>1. /\ clock < LastReading /\ clock' = clock + 1
        /\ UNCHANGED <<accepted, refused, pending, refreshedAt, resident, broadcast,
                       settling, wentBack, settled, lineage>>
    BY <1>8 DEF TickClock, replayLog, holdLogs, history
  <2>2. LogTypes'
    BY <1>a, <2>1, GateAssumption DEF LogsInv, LogTypes, GateReadings
  <2>3. ResidentIsPending' /\ SettledStaysSettled'
    BY <2>1 DEF LogsInv, ResidentIsPending, SettledStaysSettled
  <2>4. LineageKept'
    BY <1>a, <2>1, GateAssumption DEF LogsInv, LineageKept
  <2>5. ResidentIsAccepted'
    BY <1>a, <2>1 DEF LogsInv, ResidentIsAccepted
  <2> QED
    BY <2>2, <2>3, <2>4, <2>5 DEF LogsInv
<1>9. CASE StepBack
  <2>1. /\ clock' \in GateReadings /\ wentBack' = TRUE
        /\ lineage' = [c \in Coins |-> 0]
        /\ UNCHANGED <<accepted, refused, pending, refreshedAt, resident, broadcast,
                       settling, settled>>
    BY <1>9 DEF StepBack, replayLog, holdLogs
  <2>2. LogTypes'
    BY <2>1, GateAssumption DEF LogsInv, LogTypes
  <2>3. ResidentIsPending'
    BY <2>1 DEF LogsInv, ResidentIsPending
  <2>4. LineageKept'
    BY <2>1 DEF LineageKept
  <2>5. ResidentIsAccepted' /\ SettledStaysSettled'
    BY <2>1 DEF ResidentIsAccepted, SettledStaysSettled
  <2> QED
    BY <2>2, <2>3, <2>4, <2>5 DEF LogsInv
<1>10. CASE UNCHANGED gateVars
  BY <1>1, <1>10 DEF gateVars
<1> QED
  BY <1>2, <1>3, <1>4, <1>5, <1>6, <1>7, <1>8, <1>9, <1>10 DEF GateNext

LEMMA GateStart == GateInit => GateIInv
<1> SUFFICES ASSUME GateInit PROVE GateIInv
  OBVIOUS
<1>1. HandlersServe /\ Busy = {}
  <2>1. Free.at = "idle"
    BY DEF Free
  <2> QED
    BY <2>1, FreeType DEF GateInit, HandlersServe, Busy, At
<1>2. SlotsCount
  BY <1>1, FS_EmptySet DEF GateInit, SlotsCount
<1>3. LogTypes
  <2>1. clock \in GateReadings /\ 0 \in 0 .. LastReading
    BY GateAssumption DEF GateInit, GateReadings
  <2>2. /\ refreshedAt \in [Coins -> 0 .. LastReading]
        /\ lineage \in [Coins -> 0 .. LastReading]
        /\ resident \in [Commitments -> {0, 1} \cup {s[2] : s \in Submissions}]
    BY <2>1 DEF GateInit
  <2> QED
    BY <2>1, <2>2 DEF GateInit, LogTypes
<1>4. ResidentIsPending /\ ResidentIsAccepted /\ SettledStaysSettled /\ LineageKept
  BY DEF GateInit, ResidentIsPending, ResidentIsAccepted, SettledStaysSettled, LineageKept,
         Commitments, Spends
<1> QED
  BY <1>1, <1>2, <1>3, <1>4 DEF GateIInv, LogsInv

-----------------------------------------------------------------------------
(* The theorems.                                                             *)

\* The inductive invariant holds: enter_spend_preflight and the guard's drop, the logs of
\* replay.rs and the store agree with each other after every hold of sign_state.
THEOREM GateInductive == GateSpec => []GateIInv
<1>1. GateIInv /\ [GateNext]_gateVars => GateIInv'
  BY HandlersStep, LogsStep DEF GateIInv
<1> QED
  BY <1>1, GateStart, PTL DEF GateSpec

\* What the handlers share is sound for any number of them: the slot counter stays within
\* the handlers and returns to zero whichever way handle_sign ends, and a settled spend
\* does not become pending again while the clock runs forward.
THEOREM GateInvHolds == GateSpec => []GateInv
<1>1. GateIInv => GateInv
  <2> SUFFICES ASSUME GateIInv PROVE GateInv
    OBVIOUS
  <2>1. IsFiniteSet(SpendHandlers) /\ Busy \subseteq SpendHandlers
    BY GateAssumption DEF Busy
  <2>2. Cardinality(Busy) \in Nat /\ Cardinality(SpendHandlers) \in Nat
        /\ Cardinality(Busy) <= Cardinality(SpendHandlers)
    BY <2>1, FS_Subset, FS_CardinalityType
  <2>3. preflights \in 0 .. Cardinality(SpendHandlers)
    BY <2>2 DEF GateIInv, SlotsCount
  <2>4. \A h \in DOMAIN handler :
           handler[h].at \in Phases /\ (At(h, "idle") \/ handler[h].commitment \in Commitments)
    <3>1. \A h \in SpendHandlers : ~ At(h, "idle") => handler[h].commitment \in Spends
      BY GateAssumption DEF GateIInv, HandlersServe
    <3>2. \A h \in RefreshHandlers : ~ At(h, "idle") => handler[h].commitment \in Refreshes
      BY DEF GateIInv, HandlersServe
    <3>3. handler \in [SpendHandlers \cup RefreshHandlers -> HandlerState]
      BY DEF GateIInv, HandlersServe
    <3>4. \A h \in DOMAIN handler : handler[h].at \in Phases
      BY <3>3 DEF HandlerState
    <3> QED
      BY <3>1, <3>2, <3>3, <3>4 DEF Commitments
  <2>5. GateTypeOK
    BY <2>3, <2>4 DEF GateIInv, LogsInv, LogTypes, GateTypeOK
  <2>6. SlotsReturn
    <3>1. SUFFICES ASSUME \A h \in SpendHandlers : At(h, "idle") PROVE preflights = 0
      BY DEF SlotsReturn
    <3>2. Busy = {}
      BY <3>1 DEF Busy
    <3> QED
      BY <3>2, FS_EmptySet DEF GateIInv, SlotsCount
  <2> QED
    BY <2>5, <2>6 DEF GateIInv, LogsInv, GateInv
<1> QED
  BY <1>1, GateInductive, PTL

\* A refresh enters the replay log as accepted only where handle_refresh admits it.
LEMMA OnlyAdmitted ==
    ASSUME HandlersServe, LogTypes, [GateNext]_gateVars, NEW r \in Refreshes,
           <<r, 1>> \in accepted', <<r, 1>> \notin accepted
    PROVE  \E h \in RefreshHandlers : Admitted(h) /\ handler[h].commitment = r
<1>1. ASSUME NEW h \in SpendHandlers, SpendRegistration(h) PROVE FALSE
  <2>1. handler[h].commitment \notin Refreshes
    <3>1. ~ At(h, "idle")
      BY <1>1 DEF SpendRegistration, At
    <3> QED
      BY <3>1, GateAssumption DEF HandlersServe
  <2>2. accepted' \subseteq accepted \cup {<<handler[h].commitment, handler[h].instance>>}
    BY <1>1 DEF SpendRegistration, ExpiredMeanwhile, Replays, FetchFailed, RefusedForGood,
                RefusedNow, Registered, PruneReplay, replayLog
  <2> QED
    BY <2>1, <2>2
<1>2. ASSUME NEW h \in RefreshHandlers, RefreshRegistration(h)
      PROVE  Admitted(h) /\ handler[h].commitment = r
  <2>1. Admitted(h)
    BY <1>2 DEF RefreshRegistration, ExpiredMeanwhile, Replays, RefusedForGood, RefusedNow,
                PruneReplay, replayLog
  <2>2. accepted' \subseteq accepted \cup {<<handler[h].commitment, 1>>}
    BY <2>1 DEF Admitted
  <2> QED
    BY <2>1, <2>2
<1>3. accepted' # accepted
  OBVIOUS
<1>4. \/ \E h \in SpendHandlers : SpendRegistration(h)
      \/ \E h \in RefreshHandlers : RefreshRegistration(h)
  BY <1>3 DEF GateNext, gateVars, replayLog, SpendIngress, PinAccepted, PinRefused,
              WindowPanics, SpendLeaves, RefreshIngress, MarkBroadcast, RemovePending,
              FirePrune, TickClock, StepBack
<1> QED
  BY <1>1, <1>2, <1>4

\* A refresh never overtakes a spend, for any spends, handlers and clock: where
\* handle_refresh admits one no hot spend waits out its Hold and no /sign handler is
\* between its ingress hold and its registration.
THEOREM NoRefreshOvertakesHolds == GateSpec => NoRefreshOvertakes
<1>1. ASSUME GateIInv, [GateNext]_gateVars
      PROVE  [\A r \in Refreshes :
                 (<<r, 1>> \in accepted' /\ <<r, 1>> \notin accepted) =>
                     /\ \A x \in HotSpends : ~ WaitingOut(x)
                     /\ \A h \in SpendHandlers : handler[h].at \notin {"pin", "chain"}]_gateVars
  <2> SUFFICES ASSUME NEW r \in Refreshes, <<r, 1>> \in accepted', <<r, 1>> \notin accepted
               PROVE  /\ \A x \in HotSpends : ~ WaitingOut(x)
                      /\ \A h \in SpendHandlers : handler[h].at \notin {"pin", "chain"}
    OBVIOUS
  <2>1. PICK g \in RefreshHandlers : Admitted(g)
    BY <1>1, OnlyAdmitted DEF GateIInv, LogsInv
  <2>2. PrunedPending = {} /\ ~ preflights > 0
    BY <2>1 DEF Admitted, Subordinated
  <2>3. \A x \in HotSpends : ~ WaitingOut(x)
    BY <1>1, <2>2 DEF GateIInv, LogsInv, ResidentIsPending, WaitingOut, StillResident,
                      PrunedPending, StillPending
  <2>4. Busy = {}
    <3>1. IsFiniteSet(Busy)
      BY GateAssumption, FS_Subset DEF Busy
    <3>2. Cardinality(Busy) = 0
      BY <1>1, <2>2, <3>1, FS_CardinalityType DEF GateIInv, SlotsCount
    <3> QED
      BY <3>1, <3>2, FS_EmptySet
  <2> QED
    BY <2>3, <2>4 DEF Busy, At
<1> QED
  BY <1>1, GateInductive, PTL DEF GateSpec, NoRefreshOvertakes

\* A chain of refreshes is paced for any interval: RefreshLog::prune forgets a coin only
\* when its interval is over, so that handle_refresh meets every refresh of its lineage
\* that is younger.
THEOREM RefreshesArePacedHolds == GateSpec => RefreshesArePaced
<1>1. ASSUME GateIInv, [GateNext]_gateVars
      PROVE  [\A r \in Refreshes :
                 (<<r, 1>> \in accepted' /\ <<r, 1>> \notin accepted) =>
                     \A c \in Inputs[r] :
                         lineage[c] > 0 => clock - lineage[c] >= RefreshInterval]_gateVars
  <2> SUFFICES ASSUME NEW r \in Refreshes, <<r, 1>> \in accepted', <<r, 1>> \notin accepted,
                      NEW c \in Inputs[r], lineage[c] > 0
               PROVE  clock - lineage[c] >= RefreshInterval
    OBVIOUS
  <2>1. PICK g \in RefreshHandlers : Admitted(g) /\ handler[g].commitment = r
    BY <1>1, OnlyAdmitted DEF GateIInv, LogsInv
  <2>2. ~ Recent(c)
    BY <2>1 DEF Admitted, TooSoon
  <2>3. c \in Coins
    BY GateAssumption
  <2>4. lineage[c] \in Nat /\ refreshedAt[c] \in Nat /\ clock \in Nat
    BY <1>1, <2>3, GateAssumption DEF GateIInv, LogsInv, LogTypes, GateReadings
  <2>5. refreshedAt[c] = lineage[c] \/ clock - lineage[c] >= RefreshInterval
    BY <1>1, <2>3 DEF GateIInv, LogsInv, LineageKept
  <2>6. lineage[c] <= clock
    BY <1>1, <2>3 DEF GateIInv, LogsInv, LineageKept
  <2> QED
    BY <2>2, <2>4, <2>5, <2>6, GateAssumption DEF Recent, Elapsed
<1> QED
  BY <1>1, GateInductive, PTL DEF GateSpec, RefreshesArePaced

-----------------------------------------------------------------------------
(* PolicyCore.  What a node approves rests on sums: the two saturating scans  *)
(* of hot_outflow and classify agree with the true sum as long as they stay   *)
(* under the cap, and what leaves and what stays add up to what is paid.      *)

\* Naturals: a set with 0 and every successor up to N has all of 0 .. N.
LEMMA UpTo ==
    ASSUME NEW N \in Nat, NEW T, 0 \in T, \A n \in T \cap (0 .. N - 1) : n + 1 \in T
    PROVE  0 .. N \subseteq T
<1> DEFINE R == OpToRel(<, Nat)
           U == (0 .. N) \ T
<1>1. IsWellFoundedOn(R, Nat)
      BY NatLessThanWellFounded
<1>2. \A x, y \in Nat : y < x => <<y, x>> \in R
      BY DEF OpToRel
<1> HIDE DEF R
<1> SUFFICES ASSUME U # {} PROVE FALSE
    OBVIOUS
<1>3. U \subseteq Nat
      OBVIOUS
<1>4. PICK m \in U : \A y \in U : ~ (<<y, m>> \in R)
      BY <1>1, <1>3, WFMin
<1>5. /\ m \in 1 .. N /\ m \in Nat /\ m - 1 \in Nat
      /\ m - 1 \in 0 .. N - 1 /\ m - 1 \in 0 .. N /\ m - 1 < m /\ (m - 1) + 1 = m
      BY <1>4
<1>6. m - 1 \in T
      BY <1>2, <1>4, <1>5
<1> QED BY <1>4, <1>5, <1>6

\* A sum that starts at 0 and whose step n makes F[<<n, s>>] of the sum s before it exists.
LEMMA SumExists ==
    ASSUME NEW N \in Nat, NEW F \in [(1 .. N) \X Nat -> Nat]
    PROVE  \E g \in [0 .. N -> Nat] :
               \A n \in 0 .. N : g[n] = IF n = 0 THEN 0 ELSE F[<<n, g[n - 1]>>]
<1> DEFINE Good(g, k) == \A n \in 0 .. k : g[n] = IF n = 0 THEN 0 ELSE F[<<n, g[n - 1]>>]
           T == {k \in 0 .. N : \E g \in [0 .. N -> Nat] : Good(g, k)}
<1>1. 0 \in T
  <2> DEFINE z == [n \in 0 .. N |-> 0]
  <2>1. z \in [0 .. N -> Nat] /\ 0 \in 0 .. N
        OBVIOUS
  <2>2. z[0] = 0 /\ \A n \in 0 .. 0 : n = 0
        BY <2>1
  <2> HIDE DEF z
  <2>3. Good(z, 0)
        BY <2>2
  <2> QED BY <2>1, <2>3
<1>2. ASSUME NEW k \in T \cap (0 .. N - 1) PROVE k + 1 \in T
  <2>1. PICK g \in [0 .. N -> Nat] : Good(g, k)
        BY <1>2
  <2>2. k \in 0 .. N - 1 /\ k + 1 \in 1 .. N /\ g[k] \in Nat
        BY <2>1
  <2>3. F[<<k + 1, g[k]>>] \in Nat
        BY <2>2
  <2> DEFINE h == [n \in 0 .. N |-> IF n = k + 1 THEN F[<<k + 1, g[k]>>] ELSE g[n]]
  <2>4. h \in [0 .. N -> Nat]
        BY <2>1, <2>3
  <2>5. h[k + 1] = F[<<k + 1, g[k]>>] /\ (\A n \in 0 .. k : h[n] = g[n])
        BY <2>2
  <2> HIDE DEF h
  <2>6. ASSUME NEW n \in 0 .. k + 1 PROVE h[n] = IF n = 0 THEN 0 ELSE F[<<n, h[n - 1]>>]
    <3>1. CASE n = k + 1
      <4>1. n # 0 /\ n - 1 = k /\ k \in 0 .. k
            BY <2>2, <3>1
      <4> QED BY <2>5, <3>1, <4>1
    <3>2. CASE n \in 0 .. k
      <4>1. n = 0 \/ n - 1 \in 0 .. k
            BY <2>2, <3>2
      <4> QED BY <2>1, <2>5, <3>2, <4>1
    <3> QED BY <2>2, <3>1, <3>2
  <2>7. k + 1 \in 0 .. N
        BY <2>2
  <2> QED BY <2>4, <2>6, <2>7
<1>3. 0 .. N \subseteq T
  <2> HIDE DEF T
  <2> QED BY <1>1, <1>2, UpTo
<1>4. N \in T
      BY <1>3
<1> QED BY <1>4

\* Total: its steps.
LEMMA TotalSteps ==
    ASSUME NEW a \in Seq(Nat)
    PROVE  \E g \in [0 .. Len(a) -> Nat] :
               /\ Total(a) = g[Len(a)]
               /\ g[0] = 0
               /\ \A n \in 1 .. Len(a) : g[n] = g[n - 1] + a[n]
<1> DEFINE N == Len(a)
           F == [x \in (1 .. N) \X Nat |-> x[2] + a[x[1]]]
           sum == CHOOSE g : g = [n \in 0 .. N |-> IF n = 0 THEN 0 ELSE g[n - 1] + a[n]]
<1>1. N \in Nat /\ \A n \in 1 .. N : a[n] \in Nat
      OBVIOUS
<1>2. F \in [(1 .. N) \X Nat -> Nat]
      BY <1>1
<1>3. \A n \in 1 .. N, v \in Nat : F[<<n, v>>] = v + a[n]
      OBVIOUS
<1>4. Total(a) = sum[N]
      BY DEF Total
<1> HIDE DEF F
<1>5. PICK g \in [0 .. N -> Nat] :
          \A n \in 0 .. N : g[n] = IF n = 0 THEN 0 ELSE F[<<n, g[n - 1]>>]
      BY <1>1, <1>2, SumExists
<1>6. \A n \in 1 .. N : n \in 0 .. N /\ n # 0 /\ n - 1 \in 0 .. N /\ g[n - 1] \in Nat
  <2>1. \A n \in 1 .. N : n \in 0 .. N /\ n # 0 /\ n - 1 \in 0 .. N
        BY <1>1
  <2>2. \A n \in 0 .. N : g[n] \in Nat
        BY <1>5
  <2> QED BY <2>1, <2>2
<1>7. g[0] = 0 /\ \A n \in 1 .. N : g[n] = g[n - 1] + a[n]
  <2>1. 0 \in 0 .. N
        BY <1>1
  <2> QED BY <1>3, <1>5, <1>6, <2>1
<1>8. g = [n \in 0 .. N |-> IF n = 0 THEN 0 ELSE g[n - 1] + a[n]]
  <2>1. \A n \in 0 .. N : g[n] = IF n = 0 THEN 0 ELSE g[n - 1] + a[n]
    <3>1. \A n \in 0 .. N : n = 0 \/ n \in 1 .. N
          BY <1>1
    <3> QED BY <1>7, <3>1
  <2> QED BY <1>5, <2>1
<1>9. sum = [n \in 0 .. N |-> IF n = 0 THEN 0 ELSE sum[n - 1] + a[n]]
      BY <1>8
<1> HIDE DEF sum
<1>10. \A n \in 0 .. N : sum[n] = g[n]
  <2> DEFINE T == {n \in 0 .. N : sum[n] = g[n]}
  <2>1. 0 \in T
        BY <1>1, <1>7, <1>9
  <2>2. ASSUME NEW n \in T \cap (0 .. N - 1) PROVE n + 1 \in T
    <3>1. n + 1 \in 1 .. N /\ n + 1 \in 0 .. N /\ n + 1 # 0 /\ (n + 1) - 1 = n
          BY <1>1
    <3>2. sum[n + 1] = sum[n] + a[n + 1]
          BY <1>9, <3>1
    <3> QED BY <1>7, <3>1, <3>2
  <2>3. 0 .. N \subseteq T
    <3> HIDE DEF T
    <3> QED BY <1>1, <2>1, <2>2, UpTo
  <2> QED BY <2>3
<1>11. N \in 0 .. N
      BY <1>1
<1> QED BY <1>4, <1>5, <1>7, <1>10, <1>11


\* SaturatingTotal: its steps.
LEMMA SaturatingSteps ==
    ASSUME NEW a \in Seq(Nat), NEW S
    PROVE  \E g \in [0 .. Len(a) -> Nat] :
               /\ SaturatingTotal(a, S) = g[Len(a)]
               /\ g[0] = 0
               /\ \A n \in 1 .. Len(a) :
                     g[n] = IF n \in S THEN SaturatingSum(g[n - 1], a[n]) ELSE g[n - 1]
<1> DEFINE N == Len(a)
           Next1(n, v) == IF n \in S THEN SaturatingSum(v, a[n]) ELSE v
           F == [x \in (1 .. N) \X Nat |-> Next1(x[1], x[2])]
           sum == CHOOSE g : g = [n \in 0 .. N |-> IF n = 0 THEN 0 ELSE Next1(n, g[n - 1])]
<1>1. N \in Nat /\ \A n \in 1 .. N : a[n] \in Nat
      OBVIOUS
<1>2. \A n \in 1 .. N, v \in Nat : Next1(n, v) \in Nat
      BY <1>1, PolicyAssumption DEF SaturatingSum
<1>3. SaturatingTotal(a, S) = sum[N]
      BY DEF SaturatingTotal
<1> HIDE DEF Next1
<1>4. F \in [(1 .. N) \X Nat -> Nat]
      BY <1>2
<1>5. \A n \in 1 .. N, v \in Nat : F[<<n, v>>] = Next1(n, v)
      OBVIOUS
<1> HIDE DEF F
<1>6. PICK g \in [0 .. N -> Nat] :
          \A n \in 0 .. N : g[n] = IF n = 0 THEN 0 ELSE F[<<n, g[n - 1]>>]
      BY <1>1, <1>4, SumExists
<1>7. \A n \in 1 .. N : n \in 0 .. N /\ n # 0 /\ n - 1 \in 0 .. N /\ g[n - 1] \in Nat
  <2>1. \A n \in 1 .. N : n \in 0 .. N /\ n # 0 /\ n - 1 \in 0 .. N
        BY <1>1
  <2>2. \A n \in 0 .. N : g[n] \in Nat
        BY <1>6
  <2> QED BY <2>1, <2>2
<1>8. g[0] = 0 /\ \A n \in 1 .. N : g[n] = Next1(n, g[n - 1])
  <2>1. 0 \in 0 .. N
        BY <1>1
  <2> QED BY <1>5, <1>6, <1>7, <2>1
<1>9. g = [n \in 0 .. N |-> IF n = 0 THEN 0 ELSE Next1(n, g[n - 1])]
  <2>1. \A n \in 0 .. N : g[n] = IF n = 0 THEN 0 ELSE Next1(n, g[n - 1])
    <3>1. \A n \in 0 .. N : n = 0 \/ n \in 1 .. N
          BY <1>1
    <3> QED BY <1>8, <3>1
  <2> QED BY <1>6, <2>1
<1>10. sum = [n \in 0 .. N |-> IF n = 0 THEN 0 ELSE Next1(n, sum[n - 1])]
       BY <1>9
<1> HIDE DEF sum
<1>11. \A n \in 0 .. N : sum[n] = g[n]
  <2> DEFINE T == {n \in 0 .. N : sum[n] = g[n]}
  <2>1. 0 \in T
        BY <1>1, <1>8, <1>10
  <2>2. ASSUME NEW n \in T \cap (0 .. N - 1) PROVE n + 1 \in T
    <3>1. n + 1 \in 1 .. N /\ n + 1 \in 0 .. N /\ n + 1 # 0 /\ (n + 1) - 1 = n
          BY <1>1
    <3>2. sum[n + 1] = Next1(n + 1, sum[n])
          BY <1>10, <3>1
    <3> QED BY <1>8, <3>1, <3>2
  <2>3. 0 .. N \subseteq T
    <3> HIDE DEF T
    <3> QED BY <1>1, <2>1, <2>2, UpTo
  <2> QED BY <2>3
<1>12. N \in 0 .. N
       BY <1>1
<1>13. \A n \in 1 .. N :
          g[n] = IF n \in S THEN SaturatingSum(g[n - 1], a[n]) ELSE g[n - 1]
       BY <1>8 DEF Next1
<1> QED BY <1>3, <1>6, <1>8, <1>11, <1>12, <1>13

LEMMA OnlyAtType ==
    ASSUME NEW a \in Seq(Nat), NEW S
    PROVE  /\ OnlyAt(S, a) \in Seq(Nat) /\ Len(OnlyAt(S, a)) = Len(a)
           /\ \A n \in 1 .. Len(a) : /\ a[n] \in Nat
                                     /\ OnlyAt(S, a)[n] = IF n \in S THEN a[n] ELSE 0
<1>1. DOMAIN a = 1 .. Len(a) /\ Len(a) \in Nat /\ \A n \in 1 .. Len(a) : a[n] \in Nat
      OBVIOUS
<1> DEFINE b == [n \in 1 .. Len(a) |-> IF n \in S THEN a[n] ELSE 0]
<1>2. b = OnlyAt(S, a)
      BY <1>1 DEF OnlyAt
<1>3. \A n \in 1 .. Len(a) : b[n] \in Nat
      BY <1>1
<1>4. b \in Seq(Nat) /\ Len(b) = Len(a)
      BY <1>1, <1>3
<1> QED BY <1>1, <1>2, <1>4

LEMMA TotalType == ASSUME NEW a \in Seq(Nat) PROVE Total(a) \in Nat
<1>1. PICK g \in [0 .. Len(a) -> Nat] : Total(a) = g[Len(a)]
      BY TotalSteps
<1>2. Len(a) \in 0 .. Len(a)
      OBVIOUS
<1> QED BY <1>1, <1>2

\* A saturating sum is the true sum, cut off at the machine's largest integer.
LEMMA SaturatingIsTotal ==
    ASSUME NEW a \in Seq(Nat), NEW S
    PROVE  SaturatingTotal(a, S) = IF Total(OnlyAt(S, a)) > AmountMax THEN AmountMax
                                   ELSE Total(OnlyAt(S, a))
<1> DEFINE N == Len(a)
           b == OnlyAt(S, a)
           Cut(v) == IF v > AmountMax THEN AmountMax ELSE v
<1>1. N \in Nat /\ b \in Seq(Nat) /\ Len(b) = N
      BY OnlyAtType
<1>2. \A n \in 1 .. N : a[n] \in Nat /\ b[n] = IF n \in S THEN a[n] ELSE 0
      BY OnlyAtType
<1> HIDE DEF b
<1>3. PICK g \in [0 .. N -> Nat] :
          /\ SaturatingTotal(a, S) = g[N]
          /\ g[0] = 0
          /\ \A n \in 1 .. N :
                g[n] = IF n \in S THEN SaturatingSum(g[n - 1], a[n]) ELSE g[n - 1]
      BY SaturatingSteps
<1>4. PICK h \in [0 .. N -> Nat] :
          /\ Total(b) = h[N]
          /\ h[0] = 0
          /\ \A n \in 1 .. N : h[n] = h[n - 1] + b[n]
  <2>1. \E h \in [0 .. Len(b) -> Nat] :
          /\ Total(b) = h[Len(b)]
          /\ h[0] = 0
          /\ \A n \in 1 .. Len(b) : h[n] = h[n - 1] + b[n]
        BY <1>1, TotalSteps
  <2> QED BY <1>1, <2>1
<1> DEFINE T == {n \in 0 .. N : g[n] = Cut(h[n])}
<1>5. 0 \in T
      BY <1>1, <1>3, <1>4, PolicyAssumption
<1>6. ASSUME NEW n \in T \cap (0 .. N - 1) PROVE n + 1 \in T
  <2>1. n + 1 \in 1 .. N /\ n + 1 \in 0 .. N /\ (n + 1) - 1 = n /\ n \in 0 .. N
        BY <1>1
  <2>2. g[n] \in Nat /\ h[n] \in Nat /\ a[n + 1] \in Nat /\ g[n] = Cut(h[n])
        BY <1>2, <1>3, <1>4, <1>6, <2>1
  <2>3. g[n + 1] = IF n + 1 \in S THEN SaturatingSum(g[n], a[n + 1]) ELSE g[n]
        BY <1>3, <2>1
  <2>4. h[n + 1] = IF n + 1 \in S THEN h[n] + a[n + 1] ELSE h[n]
        BY <1>2, <1>4, <2>1, <2>2
  <2>5. g[n + 1] = Cut(h[n + 1])
        BY <2>2, <2>3, <2>4, PolicyAssumption DEF SaturatingSum
  <2> QED BY <2>1, <2>5
<1>7. 0 .. N \subseteq T
  <2> HIDE DEF T
  <2> QED BY <1>1, <1>5, <1>6, UpTo
<1>8. N \in T
      BY <1>1, <1>7
<1>9. g[N] = Cut(h[N])
      BY <1>8
<1>10. SaturatingTotal(a, S) = Cut(Total(b))
      BY <1>3, <1>4, <1>9
<1> QED BY <1>10 DEF b

\* What is summed over two complementary sets of indices adds up.
LEMMA TotalSplits ==
    ASSUME NEW a \in Seq(Nat), NEW S
    PROVE  Total(a) = Total(OnlyAt(S, a)) + Total(OnlyAt(DOMAIN a \ S, a))
<1> DEFINE N == Len(a)
           b == OnlyAt(S, a)
           c == OnlyAt(DOMAIN a \ S, a)
<1>1. N \in Nat /\ b \in Seq(Nat) /\ Len(b) = N /\ c \in Seq(Nat) /\ Len(c) = N
      BY OnlyAtType
<1>2. \A n \in 1 .. N : a[n] \in Nat /\ b[n] \in Nat /\ c[n] \in Nat /\ a[n] = b[n] + c[n]
  <2>1. \A n \in 1 .. N : a[n] \in Nat /\ n \in DOMAIN a
        OBVIOUS
  <2>2. \A n \in 1 .. N : b[n] = IF n \in S THEN a[n] ELSE 0
        BY OnlyAtType
  <2>3. \A n \in 1 .. N : c[n] = IF n \in DOMAIN a \ S THEN a[n] ELSE 0
        BY OnlyAtType
  <2> HIDE DEF b, c
  <2> QED BY <2>1, <2>2, <2>3
<1> HIDE DEF b, c
<1>3. PICK f \in [0 .. N -> Nat] :
          /\ Total(a) = f[N] /\ f[0] = 0 /\ \A n \in 1 .. N : f[n] = f[n - 1] + a[n]
      BY TotalSteps
<1>4. PICK g \in [0 .. N -> Nat] :
          /\ Total(b) = g[N] /\ g[0] = 0 /\ \A n \in 1 .. N : g[n] = g[n - 1] + b[n]
  <2>1. \E g \in [0 .. Len(b) -> Nat] :
          /\ Total(b) = g[Len(b)] /\ g[0] = 0
          /\ \A n \in 1 .. Len(b) : g[n] = g[n - 1] + b[n]
        BY <1>1, TotalSteps
  <2> QED BY <1>1, <2>1
<1>5. PICK h \in [0 .. N -> Nat] :
          /\ Total(c) = h[N] /\ h[0] = 0 /\ \A n \in 1 .. N : h[n] = h[n - 1] + c[n]
  <2>1. \E h \in [0 .. Len(c) -> Nat] :
          /\ Total(c) = h[Len(c)] /\ h[0] = 0
          /\ \A n \in 1 .. Len(c) : h[n] = h[n - 1] + c[n]
        BY <1>1, TotalSteps
  <2> QED BY <1>1, <2>1
<1> DEFINE T == {n \in 0 .. N : f[n] = g[n] + h[n]}
<1>6. 0 \in T
      BY <1>1, <1>3, <1>4, <1>5
<1>7. ASSUME NEW n \in T \cap (0 .. N - 1) PROVE n + 1 \in T
  <2>1. n + 1 \in 1 .. N /\ n + 1 \in 0 .. N /\ (n + 1) - 1 = n /\ n \in 0 .. N
        BY <1>1
  <2>2. f[n] \in Nat /\ g[n] \in Nat /\ h[n] \in Nat
        BY <1>3, <1>4, <1>5, <2>1
  <2>3. /\ f[n + 1] = f[n] + a[n + 1] /\ g[n + 1] = g[n] + b[n + 1]
        /\ h[n + 1] = h[n] + c[n + 1]
        BY <1>3, <1>4, <1>5, <2>1
  <2>4. f[n] = g[n] + h[n] /\ a[n + 1] = b[n + 1] + c[n + 1]
        /\ b[n + 1] \in Nat /\ c[n + 1] \in Nat
        BY <1>2, <1>7, <2>1
  <2>5. f[n + 1] = g[n + 1] + h[n + 1]
        BY <2>2, <2>3, <2>4
  <2> QED BY <2>1, <2>5
<1>8. 0 .. N \subseteq T
  <2> HIDE DEF T
  <2> QED BY <1>1, <1>6, <1>7, UpTo
<1>9. N \in T
      BY <1>1, <1>8
<1>10. Total(a) = Total(b) + Total(c)
      BY <1>3, <1>4, <1>5, <1>9
<1> QED BY <1>10 DEF b, c


LEMMA MinIsIn == ASSUME NEW T, T \subseteq Nat, T # {} PROVE Min(T) \in T
<1> DEFINE R == OpToRel(<, Nat)
<1>1. IsWellFoundedOn(R, Nat)
      BY NatLessThanWellFounded
<1>2. \A x, y \in Nat : y < x => <<y, x>> \in R
      BY DEF OpToRel
<1> HIDE DEF R
<1>3. PICK m \in T : \A y \in T : ~ (<<y, m>> \in R)
      BY <1>1, WFMin
<1>4. \A y \in T : m <= y
  <2> SUFFICES ASSUME NEW y \in T, ~ (m <= y) PROVE FALSE
      OBVIOUS
  <2>1. m \in Nat /\ y \in Nat /\ y < m
        OBVIOUS
  <2> QED BY <1>2, <1>3, <2>1
<1>5. \E x \in T : \A y \in T : x <= y
      BY <1>3, <1>4
<1> QED BY <1>5 DEF Min

\* A transaction as the node decodes it.
IsDraft(d) == d.ins \in Seq(Input) /\ d.outs \in Seq(Output)

LEMMA Amounts ==
    ASSUME NEW d, IsDraft(d)
    PROVE  /\ ValuesOf(d.outs) \in Seq(Nat) /\ DOMAIN ValuesOf(d.outs) = DOMAIN d.outs
           /\ Declared(d.ins) \in Seq(Nat) /\ Real(d.ins) \in Seq(Nat)
           /\ Leaving(d.outs) \subseteq DOMAIN d.outs
<1> DEFINE ins == d.ins
           outs == d.outs
<1>1. ins \in Seq(Input) /\ outs \in Seq(Output)
      BY DEF IsDraft
<1> HIDE DEF ins, outs
<1>2. /\ DOMAIN ins = 1 .. Len(ins) /\ Len(ins) \in Nat
      /\ DOMAIN outs = 1 .. Len(outs) /\ Len(outs) \in Nat
      BY <1>1
<1>3. \A i \in 1 .. Len(ins) : ins[i].utxo.value \in Nat /\ ins[i].truth.value \in Nat
  <2>1. \A i \in 1 .. Len(ins) : ins[i] \in Input
        BY <1>1
  <2> QED BY <2>1 DEF Input, TxOut
<1>4. \A i \in 1 .. Len(outs) : outs[i].value \in Nat
  <2>1. \A i \in 1 .. Len(outs) : outs[i] \in Output
        BY <1>1
  <2> QED BY <2>1 DEF Output
<1>5. ValuesOf(outs) \in Seq(Nat) /\ DOMAIN ValuesOf(outs) = DOMAIN outs
  <2>1. ValuesOf(outs) = [i \in 1 .. Len(outs) |-> outs[i].value]
        BY <1>2 DEF ValuesOf
  <2> QED BY <1>2, <1>4, <2>1
<1>6. Declared(ins) \in Seq(Nat)
  <2>1. Declared(ins) = [i \in 1 .. Len(ins) |-> ins[i].utxo.value]
        BY <1>2 DEF Declared
  <2> QED BY <1>2, <1>3, <2>1
<1>7. Real(ins) \in Seq(Nat)
  <2>1. Real(ins) = [i \in 1 .. Len(ins) |-> ins[i].truth.value]
        BY <1>2 DEF Real
  <2> QED BY <1>2, <1>3, <2>1
<1>8. Leaving(outs) \subseteq DOMAIN outs
      BY DEF Leaving
<1> QED BY <1>5, <1>6, <1>7, <1>8 DEF ins, outs

\* The checks' answers, and what evaluate makes of them.
LEMMA ChecksCodes ==
    ASSUME NEW d
    PROVE  /\ CheckPsbtConsistency(d) \in Codes \cup {"ok"}
           /\ CheckInputs(d) \in Codes \cup {"ok"}
           /\ CheckDestinations(d) \in Codes \cup {"ok"}
           /\ CheckHotBudget(d) \in Codes \cup {"ok"}
           /\ CheckFee(d) \in Codes \cup {"ok"}
<1>1. CheckPsbtConsistency(d) \in Codes \cup {"ok"} /\ CheckInputs(d) \in Codes \cup {"ok"}
      BY DEF CheckPsbtConsistency, CheckInputs, Codes
<1>2. CheckDestinations(d) \in Codes \cup {"ok"}
      BY DEF CheckDestinations, Codes
<1>3. CheckHotBudget(d) \in Codes \cup {"ok"} /\ CheckFee(d) \in Codes \cup {"ok"}
      BY DEF CheckHotBudget, CheckFee, Codes
<1> QED BY <1>1, <1>2, <1>3

LEMMA EvaluateFacts ==
    ASSUME NEW d
    PROVE  /\ Evaluate(d) \in Codes \cup {"ok"}
           /\ Evaluate(d) = "ok" =>
                 /\ CheckPsbtConsistency(d) = "ok" /\ CheckHotBudget(d) = "ok"
                 /\ CheckFee(d) = "ok"
<1> DEFINE c1 == CheckPsbtConsistency(d)
           c2 == CheckInputs(d)
           c3 == CheckDestinations(d)
           c4 == CheckHotBudget(d)
           c5 == CheckFee(d)
           checks == <<c1, c2, c3, c4, c5>>
           refusals == {i \in DOMAIN checks : checks[i] # "ok"}
<1>1. {c1, c2, c3, c4, c5} \subseteq Codes \cup {"ok"}
      BY ChecksCodes
<1>2. Evaluate(d) = IF refusals = {} THEN "ok" ELSE checks[Min(refusals)]
      BY DEF Evaluate
<1> HIDE DEF c1, c2, c3, c4, c5
<1>3. /\ DOMAIN checks = 1 .. 5 /\ checks[1] = c1 /\ checks[2] = c2 /\ checks[3] = c3
      /\ checks[4] = c4 /\ checks[5] = c5
      OBVIOUS
<1>4. \A i \in 1 .. 5 : i = 1 \/ i = 2 \/ i = 3 \/ i = 4 \/ i = 5
      OBVIOUS
<1>5. \A i \in 1 .. 5 : checks[i] \in Codes \cup {"ok"}
      BY <1>1, <1>3, <1>4
<1> HIDE DEF checks
<1>6. CASE refusals = {}
  <2>1. Evaluate(d) = "ok" /\ \A i \in 1 .. 5 : checks[i] = "ok"
        BY <1>2, <1>3, <1>6
  <2>2. 1 \in 1 .. 5 /\ 4 \in 1 .. 5 /\ 5 \in 1 .. 5
        OBVIOUS
  <2>3. c1 = "ok" /\ c4 = "ok" /\ c5 = "ok"
        BY <1>3, <2>1, <2>2
  <2> QED BY <2>1, <2>3 DEF c1, c4, c5
<1>7. CASE refusals # {}
  <2>1. refusals \subseteq 1 .. 5 /\ refusals \subseteq Nat
        BY <1>3
  <2> HIDE DEF refusals
  <2>2. Min(refusals) \in refusals
        BY <1>7, <2>1, MinIsIn
  <2>3. Min(refusals) \in 1 .. 5
        BY <2>1, <2>2
  <2>4. checks[Min(refusals)] # "ok"
        BY <2>2 DEF refusals
  <2> QED BY <1>2, <1>5, <1>7, <2>3, <2>4
<1> QED BY <1>6, <1>7

\* What evaluate bounds: the outflow, and the fee on the declared values.
LEMMA EvaluateBounds ==
    ASSUME NEW d, IsDraft(d), Evaluate(d) = "ok"
    PROVE  /\ Outflow(d.outs) \in 0 .. HotMaxPerTx
           /\ HotOutflow(d) = Outflow(d.outs)
           /\ Kept(d.outs) \in Nat
           /\ Total(Declared(d.ins)) \in Nat
           /\ 100 * (Total(Declared(d.ins)) - Kept(d.outs)) <=
                 100 * HotMaxPerTx + MaxFeePercent * Total(Declared(d.ins))
<1> DEFINE v == ValuesOf(d.outs)
           S == Leaving(d.outs)
           in == Total(Declared(d.ins))
           paid == Total(v)
           out == Outflow(d.outs)
           kept == Kept(d.outs)
<1>1. v \in Seq(Nat) /\ DOMAIN v = DOMAIN d.outs /\ Declared(d.ins) \in Seq(Nat)
      BY Amounts
<1>2. CheckHotBudget(d) = "ok" /\ CheckFee(d) = "ok"
      BY EvaluateFacts
<1>3. in \in Nat /\ paid \in Nat
      BY <1>1, TotalType
<1>4. out = Total(OnlyAt(S, v)) /\ kept = Total(OnlyAt(DOMAIN v \ S, v))
      BY <1>1 DEF Outflow, Kept
<1>5. OnlyAt(S, v) \in Seq(Nat) /\ OnlyAt(DOMAIN v \ S, v) \in Seq(Nat)
      BY <1>1, OnlyAtType
<1>6. out \in Nat /\ kept \in Nat
      BY <1>4, <1>5, TotalType
<1>7. paid = out + kept
      BY <1>1, <1>4, TotalSplits
<1>8. HotOutflow(d) = IF out > AmountMax THEN AmountMax ELSE out
  <2>1. HotOutflow(d) = SaturatingTotal(v, S)
        BY DEF HotOutflow
  <2> QED BY <1>1, <1>4, <2>1, SaturatingIsTotal
<1>9. ~ (HotOutflow(d) > HotMaxPerTx)
      BY <1>2 DEF CheckHotBudget
<1>10. ~ (paid > in) /\ ~ ((in - paid) * 100 > MaxFeePercent * in)
  <2>1. CheckFee(d) = IF paid > in THEN "PsbtInconsistent"
                      ELSE IF (in - paid) * 100 > MaxFeePercent * in THEN "FeeExceedsCap"
                      ELSE "ok"
        BY DEF CheckFee
  <2> HIDE DEF paid, in
  <2> QED BY <1>2, <2>1
<1> HIDE DEF v, S, in, paid, out, kept
<1>11. AmountMax \in Nat /\ HotMaxPerTx \in 1 .. AmountMax - 1
       BY PolicyAssumption
<1>12. out \in 0 .. HotMaxPerTx /\ HotOutflow(d) = out
       BY <1>6, <1>8, <1>9, <1>11
<1>13. 100 * (in - kept) <= 100 * HotMaxPerTx + MaxFeePercent * in
  <2> DEFINE fee == MaxFeePercent * in
  <2>1. fee \in Nat
        BY <1>3, PolicyAssumption
  <2>2. (in - paid) * 100 <= fee
        BY <1>3, <1>10, <2>1
  <2> HIDE DEF fee
  <2>3. 100 * (in - kept) <= 100 * HotMaxPerTx + fee
        BY <1>3, <1>6, <1>7, <1>11, <1>12, <2>1, <2>2
  <2> QED BY <2>3 DEF fee
<1> QED BY <1>3, <1>6, <1>12, <1>13 DEF v, S, in, paid, out, kept


\* classify's outflow is all that leaves, whatever the class.
LEMMA ClassifiedIsOutflow ==
    ASSUME NEW d, IsDraft(d), Evaluate(d) = "ok",
           Classify(d) \in {"Hot", "Escape", "Refresh"}
    PROVE  (IF Classify(d) = "Hot" THEN ClassifiedOutflow(d) ELSE 0) = Outflow(d.outs)
<1>1. Unrecognized(d) = {}
      BY DEF Classify
<1>2. HotOutputs(d) = Leaving(d.outs)
      BY <1>1 DEF HotOutputs, Unrecognized
<1>3. CASE Classify(d) = "Hot"
  <2>1. ClassifiedOutflow(d) = HotOutflow(d)
        BY <1>2 DEF ClassifiedOutflow, HotOutflow
  <2> QED BY <1>3, <2>1, EvaluateBounds
<1>4. CASE Classify(d) # "Hot"
  <2> DEFINE v == ValuesOf(d.outs)
  <2>1. Leaving(d.outs) = {}
    <3>1. HotOutputs(d) = {}
          BY <1>1, <1>4 DEF Classify
    <3> QED BY <1>2, <3>1
  <2>2. v \in Seq(Nat)
        BY Amounts
  <2>3. OnlyAt({}, v) \in Seq(Nat) /\ Len(OnlyAt({}, v)) = Len(v)
        /\ \A n \in 1 .. Len(v) : OnlyAt({}, v)[n] = 0
        BY <2>2, OnlyAtType
  <2>4. Outflow(d.outs) = Total(OnlyAt({}, v))
        BY <2>1 DEF Outflow
  <2> HIDE DEF v
  <2> DEFINE b == OnlyAt({}, v)
             N == Len(b)
  <2>5. N \in Nat /\ \A n \in 1 .. N : b[n] = 0
        BY <2>2, <2>3
  <2>6. PICK g \in [0 .. N -> Nat] :
            /\ Total(b) = g[N] /\ g[0] = 0 /\ \A n \in 1 .. N : g[n] = g[n - 1] + b[n]
        BY <2>3, TotalSteps
  <2> HIDE DEF b, N
  <2> DEFINE T == {n \in 0 .. N : g[n] = 0}
  <2>7. 0 \in T
        BY <2>5, <2>6
  <2>8. ASSUME NEW n \in T \cap (0 .. N - 1) PROVE n + 1 \in T
    <3>1. n + 1 \in 1 .. N /\ n + 1 \in 0 .. N /\ (n + 1) - 1 = n
          BY <2>5
    <3>2. g[n + 1] = 0 + 0
          BY <2>5, <2>6, <2>8, <3>1
    <3> QED BY <3>1, <3>2
  <2>9. 0 .. N \subseteq T
    <3> HIDE DEF T
    <3> QED BY <2>5, <2>7, <2>8, UpTo
  <2>10. g[N] = 0
    <3>1. N \in T
          BY <2>5, <2>9
    <3> QED BY <3>1
  <2>11. Total(b) = 0
         BY <2>6, <2>10
  <2> QED BY <1>4, <2>4, <2>11 DEF b
<1> QED BY <1>3, <1>4

\* The inductive invariant: the transaction is one the node decodes, and nothing is
\* decided of it before it is approved.
DraftOK(d) ==
    \/ d = NoDraft
    \/ /\ d.purpose \in {"spend", "escape", "refresh"}
       /\ d.ins \in InputLists /\ d.outs \in OutputLists

PolicyIInv ==
    /\ DraftOK(draft) /\ PolicyInv
    /\ ~ Approved => verdict = [at |-> verdict.at, class |-> "none", metered |-> 0]
    /\ verdict.at \in {"none", "preflight"} => seen = {}

LEMMA DraftIsDraft == ASSUME NEW d, DraftOK(d) PROVE IsDraft(d)
<1>1. CASE d = NoDraft
  <2>1. d.ins = <<>> /\ d.outs = <<>>
        BY <1>1 DEF NoDraft
  <2> QED BY <2>1 DEF IsDraft
<1>2. CASE d # NoDraft
      BY <1>2, PolicyAssumption DEF DraftOK, IsDraft
<1> QED BY <1>1, <1>2

LEMMA ClassOfApproved ==
    ASSUME NEW d, NEW p \in {"spend", "escape", "refresh"}, ClassFits(p, Classify(d))
    PROVE  Classify(d) \in {"Hot", "Escape", "Refresh"}
BY DEF ClassFits

LEMMA PolicyStart == PolicyInit => PolicyIInv
<1> SUFFICES ASSUME PolicyInit PROVE PolicyIInv
    OBVIOUS
<1>1. /\ draft = NoDraft /\ seen = {} /\ verdict.at = "none" /\ verdict.class = "none"
      /\ verdict.metered = 0 /\ verdict = [at |-> "none", class |-> "none", metered |-> 0]
      BY DEF PolicyInit, NoVerdict
<1>2. PolicyTypeOK
      BY <1>1, PolicyAssumption DEF PolicyTypeOK
<1>3. LossBounded /\ MeterIsOutflow /\ ~ Approved
      BY <1>1 DEF LossBounded, MeterIsOutflow, Approved
<1> QED BY <1>1, <1>2, <1>3 DEF PolicyIInv, PolicyInv, DraftOK


\* A step after which nothing is decided.
LEMMA PolicyUndecided ==
    ASSUME DraftOK(draft'), seen' \subseteq DOMAIN draft'.ins,
           NEW a \in Codes \cup {"none", "preflight", "verify"},
           verdict' = [at |-> a, class |-> "none", metered |-> 0],
           a \in {"none", "preflight"} => seen' = {}
    PROVE  PolicyIInv'
<1>1. verdict'.at = a /\ verdict'.class = "none" /\ verdict'.metered = 0
      OBVIOUS
<1>2. a # "approved"
      BY DEF Codes
<1>3. draft' # NoDraft => draft'.ins \in InputLists /\ draft'.outs \in OutputLists
      BY DEF DraftOK
<1>4. PolicyTypeOK'
      BY <1>1, <1>3, PolicyAssumption DEF PolicyTypeOK
<1>5. (LossBounded /\ MeterIsOutflow /\ ~ Approved)'
      BY <1>1, <1>2 DEF LossBounded, MeterIsOutflow, Approved
<1>6. DraftOK(draft)' /\ (verdict = [at |-> verdict.at, class |-> "none", metered |-> 0])'
      BY <1>1 DEF DraftOK
<1> QED BY <1>1, <1>4, <1>5, <1>6 DEF PolicyIInv, PolicyInv

LEMMA PolicyRefused ==
    ASSUME PolicyIInv, UNCHANGED <<draft, seen>>, NEW c \in Codes, Refuse(c)
    PROVE  PolicyIInv'
<1>1. verdict' = [at |-> c, class |-> "none", metered |-> 0]
      BY DEF Refuse, NoVerdict
<1>2. seen' \subseteq DOMAIN draft'.ins /\ DraftOK(draft')
      BY DEF PolicyIInv, PolicyInv, PolicyTypeOK
<1>3. c \notin {"none", "preflight"} /\ c \in Codes \cup {"none", "preflight", "verify"}
      BY DEF Codes
<1> QED BY <1>1, <1>2, <1>3, PolicyUndecided

\* verify_spend, verify_escape and verify_refresh approve only what is within bounds.
LEMMA PolicyApproved ==
    ASSUME PolicyIInv, UNCHANGED <<draft, seen>>,
           ~ MissingUtxo(draft), PrevoutsAgree(draft), Evaluate(draft) = "ok",
           ClassFits(draft.purpose, Classify(draft)),
           verdict' = [at |-> "approved", class |-> Classify(draft),
                       metered |-> IF Classify(draft) = "Hot"
                                   THEN ClassifiedOutflow(draft) ELSE 0]
    PROVE  PolicyIInv'
<1> DEFINE m == IF Classify(draft) = "Hot" THEN ClassifiedOutflow(draft) ELSE 0
           k == Classify(draft)
<1>1. /\ verdict'.at = "approved" /\ verdict'.class = k /\ verdict'.metered = m
      OBVIOUS
<1>2. IsDraft(draft) /\ draft # NoDraft
  <2>1. IsDraft(draft)
        BY DraftIsDraft DEF PolicyIInv
  <2>2. CheckPsbtConsistency(draft) = "ok"
        BY EvaluateFacts
  <2>3. draft.ins # <<>>
        BY <2>2 DEF CheckPsbtConsistency
  <2> QED BY <2>1, <2>3 DEF NoDraft
<1>3. draft.purpose \in {"spend", "escape", "refresh"}
      BY <1>2 DEF PolicyIInv, DraftOK
<1>4. k \in {"Hot", "Escape", "Refresh"}
      BY <1>3, ClassOfApproved
<1>5. m = Outflow(draft.outs)
      BY <1>2, <1>4, ClassifiedIsOutflow
<1>6. /\ Outflow(draft.outs) \in 0 .. HotMaxPerTx
      /\ 100 * (Total(Declared(draft.ins)) - Kept(draft.outs)) <=
             100 * HotMaxPerTx + MaxFeePercent * Total(Declared(draft.ins))
      BY <1>2, EvaluateBounds
<1> HIDE DEF m, k
<1>7. PolicyTypeOK'
  <2>1. /\ draft # NoDraft => draft.ins \in InputLists /\ draft.outs \in OutputLists
        /\ seen \subseteq DOMAIN draft.ins
        BY DEF PolicyIInv, PolicyInv, PolicyTypeOK
  <2> QED BY <1>1, <1>4, <1>5, <1>6, <2>1 DEF PolicyTypeOK
<1>8. MeterIsOutflow'
      BY <1>1, <1>5 DEF MeterIsOutflow
<1>9. seen = DOMAIN draft.ins => Real(draft.ins) = Declared(draft.ins)
  <2> SUFFICES ASSUME seen = DOMAIN draft.ins PROVE Real(draft.ins) = Declared(draft.ins)
      OBVIOUS
  <2>1. \A i \in DOMAIN draft.ins : draft.ins[i].utxo = draft.ins[i].truth
        BY DEF MissingUtxo, PrevoutsAgree, SamePrevout
  <2>2. \A i \in DOMAIN draft.ins : draft.ins[i].utxo.value = draft.ins[i].truth.value
        BY <2>1
  <2> QED BY <2>2 DEF Real, Declared
<1>10. LossBounded'
  <2> SUFFICES ASSUME seen = DOMAIN draft.ins
               PROVE  100 * Loss(draft) <=
                          100 * HotMaxPerTx + MaxFeePercent * Total(Real(draft.ins))
      BY DEF LossBounded
  <2>1. Loss(draft) = Total(Declared(draft.ins)) - Kept(draft.outs)
        BY <1>9 DEF Loss
  <2> QED BY <1>6, <1>9, <2>1
<1>11. Approved' /\ DraftOK(draft)' /\ verdict'.at \notin {"none", "preflight"}
       BY <1>1 DEF Approved, PolicyIInv, DraftOK
<1> QED BY <1>7, <1>8, <1>10, <1>11 DEF PolicyIInv, PolicyInv

LEMMA PolicyStep == PolicyIInv /\ [PolicyNext]_policyVars => PolicyIInv'
<1> SUFFICES ASSUME PolicyIInv, [PolicyNext]_policyVars PROVE PolicyIInv'
    OBVIOUS
<1>1. CASE UNCHANGED policyVars
      BY <1>1 DEF policyVars, PolicyIInv, DraftOK, PolicyInv, PolicyTypeOK, LossBounded,
                  MeterIsOutflow, Approved
<1>2. ASSUME NEW purpose \in {"spend", "escape", "refresh"}, NEW ins \in InputLists,
             NEW outs \in OutputLists, Submit(purpose, ins, outs)
      PROVE  PolicyIInv'
  <2>1. draft' = [purpose |-> purpose, ins |-> ins, outs |-> outs] /\ seen' = seen
        BY <1>2 DEF Submit
  <2>2. draft'.purpose = purpose /\ draft'.ins = ins /\ draft'.outs = outs
        BY <2>1
  <2>3. DraftOK(draft')
        BY <2>2 DEF DraftOK
  <2>4. /\ verdict = [at |-> "none", class |-> "none", metered |-> 0] /\ seen = {}
        /\ verdict' = [verdict EXCEPT !.at = "preflight"]
        BY <1>2 DEF Submit, PolicyIInv, Approved
  <2>5. verdict' = [at |-> "preflight", class |-> "none", metered |-> 0]
        BY <2>4
  <2> QED BY <2>1, <2>3, <2>4, <2>5, PolicyUndecided
<1>3. CASE Prefetch
  <2>1. draft' = draft /\ DraftOK(draft')
        BY <1>3 DEF Prefetch, PolicyIInv
  <2>2. CASE Refuse("PsbtInconsistent") /\ UNCHANGED seen
        BY <2>1, <2>2, PolicyRefused DEF Codes
  <2>3. CASE seen' \in SUBSET DOMAIN draft.ins /\ verdict' = [verdict EXCEPT !.at = "verify"]
    <3>1. verdict = [at |-> "preflight", class |-> "none", metered |-> 0]
          BY <1>3 DEF Prefetch, PolicyIInv, Approved
    <3>2. verdict' = [at |-> "verify", class |-> "none", metered |-> 0]
          BY <2>3, <3>1
    <3> QED BY <2>1, <2>3, <3>2, PolicyUndecided
  <2> QED BY <1>3, <2>2, <2>3 DEF Prefetch
<1>4. CASE RefuseSignatures
  <2>1. PICK c \in {"PsbtInconsistent", "UserSigInvalid"} : Refuse(c)
        BY <1>4 DEF RefuseSignatures
  <2> QED BY <1>4, <2>1, PolicyRefused DEF RefuseSignatures, Codes
<1>5. CASE Adjudicate
  <2>1. CASE Refuse("PsbtInconsistent")
        BY <1>5, <2>1, PolicyRefused DEF Adjudicate, Codes
  <2>2. CASE Evaluate(draft) # "ok" /\ Refuse(Evaluate(draft))
    <3>1. Evaluate(draft) \in Codes
          BY <2>2, EvaluateFacts
    <3> QED BY <1>5, <2>2, <3>1, PolicyRefused DEF Adjudicate
  <2>3. CASE /\ PrevoutsAgree(draft) /\ Evaluate(draft) = "ok"
             /\ ClassFits(draft.purpose, Classify(draft))
             /\ verdict' = [at |-> "approved", class |-> Classify(draft),
                            metered |-> IF Classify(draft) = "Hot"
                                        THEN ClassifiedOutflow(draft) ELSE 0]
        BY <1>5, <2>3, PolicyApproved DEF Adjudicate
  <2> QED BY <1>5, <2>1, <2>2, <2>3 DEF Adjudicate
<1>6. CASE Answer
  <2>1. draft' = NoDraft /\ seen' = {} /\ verdict' = NoVerdict
        BY <1>6 DEF Answer
  <2>2. DraftOK(draft') /\ verdict' = [at |-> "none", class |-> "none", metered |-> 0]
        BY <2>1 DEF DraftOK, NoVerdict
  <2> QED BY <2>1, <2>2, PolicyUndecided
<1> QED BY <1>1, <1>2, <1>3, <1>4, <1>5, <1>6 DEF PolicyNext

\* The inductive invariant of the adjudication of one transaction at a time.
THEOREM PolicyInductive == PolicySpec => []PolicyIInv
  BY PolicyStart, PolicyStep, PTL DEF PolicySpec

\* What evaluate and classify promise together (check_hot_budget, check_fee,
\* compare_prevouts_against_chain, classify), for every list of inputs and outputs and
\* every width of the amounts: a transaction whose prevouts the node has seen takes at
\* most the cap and the fee percentage from the vault, and what the velocity ledger is
\* charged is all that leaves, although both scans saturate.
THEOREM PolicyInvHolds == PolicySpec => []PolicyInv
<1>1. PolicyIInv => PolicyInv
      BY DEF PolicyIInv
<1> QED BY <1>1, PolicyInductive, PTL

=============================================================================
