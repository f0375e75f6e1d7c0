----------------------------- MODULE Watchtower -----------------------------
(***************************************************************************)
(* The watchtower of one vault node (watchtower.rs) over its own chain     *)
(* backend (chain.rs): a pass reconciles the scan cursor with the active   *)
(* chain, scans the new blocks, and queues an alert for every vault spend  *)
(* that took the recovery branch or that this node never accepted.  Every  *)
(* RPC is a step of its own, so the chain may reorganize between any two.  *)
(*                                                                         *)
(* A block is the sequence of labels from genesis to it, because its hash  *)
(* commits to its ancestry: the block of chain b at height h is b's prefix *)
(* of length h + 1.  A label that is a vault spend is a block holding it.  *)
(* The bounded queue that alerts go to is reduced to the set raised.       *)
(***************************************************************************)
EXTENDS Integers, Sequences

CONSTANTS
    Genesis,
    Empty,             \* labels of blocks without a vault spend
    Spends,            \* vault spends
    Recovery,          \* those through the recovery branch
    MaxReorgDepth,     \* MAX_REORG_DEPTH
    MaxHeight,         \* bound on the chain
    MaxFaults          \* bound on reorgs, RPC errors and panics

ASSUME WatchtowerAssumption ==
    /\ Recovery \subseteq Spends /\ Spends \cap (Empty \cup {Genesis}) = {}
    /\ MaxReorgDepth \in Nat /\ MaxHeight \in Nat /\ MaxFaults \in Nat

VARIABLES
    active,            \* tip of the active chain
    authorized,        \* Node.authorized
    anchors, nextFrom, \* ScanCursor
    pass,              \* the pass under way: what it has read so far
    raised,            \* spends an alert was queued for
    faults

cursor == <<anchors, nextFrom>>
vars == <<active, authorized, cursor, pass, raised, faults>>

HeightOf(b) == Len(b) - 1
Newest(a) == a[Len(a)]
Parent(b) == SubSeq(b, 1, Len(b) - 1)

\* A transaction is in a chain at most once.
Chains == {<<Genesis>> \o s :
    s \in {q \in UNION {[1 .. n -> Empty \cup Spends] : n \in 0 .. MaxHeight} :
             \A i, j \in DOMAIN q : q[i] = q[j] /\ q[i] \in Spends => i = j}}

\* block_hash_at: the active block at a height, if there is one
HasBlock(h) == h < Len(active)
BlockAt(h) == SubSeq(active, 1, h + 1)
Matches(b) == HasBlock(HeightOf(b)) /\ BlockAt(HeightOf(b)) = b

NoPass == [pc |-> "idle", i |-> 0, from |-> 0, tip |-> 0, tipHash |-> <<>>,
           known |-> {}, blocks |-> <<>>]

-----------------------------------------------------------------------------
(* reconcile_cursor                                                          *)

\* The newest anchor is read; a mismatch starts the walk for the fork point.
StartPass ==
    /\ pass.pc = "idle"
    /\ pass' = IF anchors = <<>> \/ Matches(Newest(anchors))
               THEN [NoPass EXCEPT !.pc = "tip", !.from = nextFrom]
               ELSE [NoPass EXCEPT !.pc = "walk", !.i = Len(anchors)]
    /\ UNCHANGED <<active, authorized, cursor, raised, faults>>

\* Mutant: a reorg deeper than the window only drops the anchors.
KeepPosition == nextFrom

\* Where a pass goes on when no anchor matches: genesis.
DeepReorgFrom == 0

\* One anchor of the walk, newest first.
Walk ==
    /\ pass.pc = "walk"
    /\ \/ /\ pass.i > 0 /\ ~ Matches(anchors[pass.i])
          /\ pass' = [pass EXCEPT !.i = @ - 1]
          /\ UNCHANGED cursor
       \/ /\ pass.i > 0 /\ Matches(anchors[pass.i])
          /\ anchors' = SubSeq(anchors, 1, pass.i)
          /\ nextFrom' = HeightOf(anchors[pass.i]) + 1
          /\ pass' = [pass EXCEPT !.pc = "tip", !.from = nextFrom']
       \/ /\ pass.i = 0
          /\ anchors' = <<>>
          /\ nextFrom' = DeepReorgFrom
          /\ pass' = [pass EXCEPT !.pc = "tip", !.from = nextFrom']
    /\ UNCHANGED <<active, authorized, raised, faults>>

-----------------------------------------------------------------------------
(* scan_pass                                                                 *)

\* Mutant: a chain shorter than the cursor is not looked for.
NeverShrunk(tip) == FALSE

\* The chain shrank since the anchor was read.
Shrunk(tip) == anchors # <<>> /\ tip < HeightOf(Newest(anchors))

ReadTip ==
    /\ pass.pc = "tip"
    /\ pass' = IF Shrunk(HeightOf(active)) THEN NoPass
               ELSE [pass EXCEPT !.pc = "hash", !.tip = HeightOf(active)]
    /\ UNCHANGED <<active, authorized, cursor, raised, faults>>

\* The hash of the tip, and a copy of the authorized set.
ReadTipHash ==
    /\ pass.pc = "hash"
    /\ pass' = IF ~ HasBlock(pass.tip) THEN NoPass
               ELSE [pass EXCEPT !.pc = "scan", !.tipHash = BlockAt(pass.tip),
                                 !.known = authorized]
    /\ UNCHANGED <<active, authorized, cursor, raised, faults>>

\* spends_of: a block chains onto the one just scanned, the first one onto the
\* newest anchor (checks 0 and 1).
ChainsOnto(b) ==
    IF pass.blocks # <<>> THEN Parent(b) = Newest(pass.blocks)
    ELSE anchors # <<>> => Parent(b) = Newest(anchors)

ScanHeight == pass.from + Len(pass.blocks)

ScanBlock ==
    /\ pass.pc = "scan" /\ ScanHeight <= pass.tip
    /\ LET b == BlockAt(ScanHeight) IN
       pass' = IF HasBlock(ScanHeight) /\ ChainsOnto(b)
               THEN [pass EXCEPT !.blocks = Append(@, b)]
               ELSE NoPass
    /\ UNCHANGED <<active, authorized, cursor, raised, faults>>

\* Check 2: the last block scanned is still active.
TerminalActive(b) == Matches(b)

EndScan ==
    /\ pass.pc = "scan" /\ ScanHeight > pass.tip
    /\ pass' = IF pass.blocks = <<>> \/ TerminalActive(Newest(pass.blocks))
               THEN [pass EXCEPT !.pc = "commit"] ELSE NoPass
    /\ UNCHANGED <<active, authorized, cursor, raised, faults>>

Most(a, b) == IF a > b THEN a ELSE b
Last(a, n) == IF Len(a) > n THEN SubSeq(a, Len(a) - n + 1, Len(a)) ELSE a

\* The scanned blocks from a height on; the heights rise by one from pass.from.
Newer(lo) == SubSeq(pass.blocks, Most(lo - pass.from, 0) + 1, Len(pass.blocks))

\* The anchors kept: a window of MAX_REORG_DEPTH + 1 blocks.
Trimmed(a) == Last(a, MaxReorgDepth + 1)

\* extend_anchors: the anchors that stay, and the blocks that join them
Lowest == Most(pass.from, pass.tip - MaxReorgDepth)
Kept == IF anchors # <<>> /\ Lowest > HeightOf(Newest(anchors)) + 1
        THEN <<>> ELSE anchors
Joining == Newer(IF Kept = <<>> THEN Lowest
                 ELSE Most(HeightOf(Newest(Kept)) + 1, Lowest))

Extended == IF pass.tip < pass.from THEN anchors ELSE Trimmed(Kept \o Joining)

\* A block that joins is not the next one after the anchors.
Gapped ==
    /\ pass.tip >= pass.from
    /\ Kept # <<>> /\ Joining # <<>>
    /\ HeightOf(Joining[1]) # HeightOf(Newest(Kept)) + 1

\* classify
Alarming(s) == s \in Recovery \/ s \notin pass.known

SpendsIn(bs) == {b[Len(b)] : b \in {bs[i] : i \in DOMAIN bs}} \cap Spends

\* The tip is read once more; then the alerts are queued and the cursor moves.
Commit ==
    /\ pass.pc = "commit"
    /\ \/ /\ Gapped \/ ~ Matches(pass.tipHash)
          /\ UNCHANGED <<cursor, raised>>
       \/ /\ ~ Gapped /\ Matches(pass.tipHash)
          /\ raised' = raised \cup {s \in SpendsIn(pass.blocks) : Alarming(s)}
          /\ anchors' = Extended
          /\ nextFrom' = pass.tip + 1
    /\ pass' = NoPass
    /\ UNCHANGED <<active, authorized, faults>>

\* An RPC fails: the pass ends where the cursor is.
PassFails ==
    /\ pass.pc # "idle" /\ faults < MaxFaults
    /\ faults' = faults + 1
    /\ pass' = NoPass
    /\ UNCHANGED <<active, authorized, cursor, raised>>

\* The blocking task panics: the driver starts over from genesis.
PassPanics ==
    /\ pass.pc # "idle" /\ faults < MaxFaults
    /\ faults' = faults + 1
    /\ pass' = NoPass
    /\ anchors' = <<>> /\ nextFrom' = 0
    /\ UNCHANGED <<active, authorized, raised>>

-----------------------------------------------------------------------------
(* The rest of the node, and the chain.                                      *)

\* A /sign handler accepts a spend.
Accept(s) ==
    /\ s \notin authorized
    /\ authorized' = authorized \cup {s}
    /\ UNCHANGED <<active, cursor, pass, raised, faults>>

\* A block is found on the active chain.
Extend ==
    /\ \E b \in Chains : Len(b) = Len(active) + 1 /\ Parent(b) = active /\ active' = b
    /\ UNCHANGED <<authorized, cursor, pass, raised, faults>>

\* The active chain is replaced from any depth, also by one of fewer blocks.
Reorg ==
    /\ faults < MaxFaults
    /\ faults' = faults + 1
    /\ \E b \in Chains \ {active} : Parent(b) # active /\ active' = b
    /\ UNCHANGED <<authorized, cursor, pass, raised>>

Init ==
    /\ active = <<Genesis>>
    /\ authorized = {} /\ raised = {}
    /\ anchors = <<>> /\ nextFrom = 0
    /\ pass = NoPass
    /\ faults = 0

PassStep ==
    \/ StartPass \/ Walk \/ ReadTip \/ ReadTipHash \/ ScanBlock \/ EndScan \/ Commit

Next ==
    \/ PassStep
    \/ PassFails \/ PassPanics
    \/ \E s \in Spends : Accept(s)
    \/ Extend \/ Reorg

Spec == Init /\ [][Next]_vars

\* spawn_driver runs one pass after another, for ever.
FairSpec == Spec /\ WF_vars(PassStep)

-----------------------------------------------------------------------------

\* Every variable has its type.
TypeOK ==
    /\ active \in Chains
    /\ authorized \subseteq Spends /\ raised \subseteq Spends
    /\ nextFrom \in 0 .. MaxHeight + 1
    /\ Len(anchors) <= MaxReorgDepth + 1
    /\ \A i \in DOMAIN anchors : anchors[i] \in Chains
    /\ pass.pc \in {"idle", "walk", "tip", "hash", "scan", "commit"}
    /\ faults \in 0 .. MaxFaults

\* The cursor's shape: the next height is one past the newest anchor, and the
\* anchors are consecutive blocks of one chain (the debug_assert of scan_pass,
\* and what reconcile_cursor relies on).
CursorIsChain ==
    /\ nextFrom = IF anchors = <<>> THEN 0 ELSE HeightOf(Newest(anchors)) + 1
    /\ \A i \in 1 .. Len(anchors) - 1 : anchors[i] = Parent(anchors[i + 1])

\* No spend is skipped: an alert was raised for every vault spend in the chain
\* the cursor stands on, down to genesis, that is a recovery spend or is still
\* not accepted, whatever reorgs, errors and panics the scans met.
ScannedIsAlerted ==
    anchors # <<>> =>
        \A i \in DOMAIN Newest(anchors) :
            LET s == Newest(anchors)[i] IN
            s \in Recovery \/ s \in Spends \ authorized => s \in raised

\* The watchtower only moves on from what it has scanned: a pass that advances
\* the cursor leaves it on a block that descends from the anchor it started from.
AdvanceDescends ==
    [][anchors # <<>> /\ nextFrom' > nextFrom =>
         /\ anchors' # <<>>
         /\ Len(Newest(anchors)) <= Len(Newest(anchors'))
         /\ SubSeq(Newest(anchors'), 1, Len(Newest(anchors))) = Newest(anchors)]_vars

\* What the comment on spends_of promises: a pass that advances binds its
\* anchors, and so its alerts, to blocks of the chain that is active then.
AdvancesOnActive ==
    [][nextFrom' > nextFrom /\ anchors' # <<>> => Matches(Newest(anchors'))]_vars

\* The cursor never wedges: once the chain and the backend have settled, the
\* cursor comes to stand on the tip and stays there.
CatchesUp == <>[](anchors # <<>> /\ Newest(anchors) = active)

\* The invariant of scan_pass: types, the cursor is one chain, and every spend of what
\* was scanned has been raised.
WatchInv == TypeOK /\ CursorIsChain /\ ScannedIsAlerted

\* The cursor moves forward along one chain only, and reaches the active tip.
CursorFollows == AdvanceDescends /\ CatchesUp
=============================================================================
