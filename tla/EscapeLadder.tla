---------------------------- MODULE EscapeLadder ----------------------------
(***************************************************************************)
(* The armed escape's fee-bump ladder across the federation: how each node *)
(* chooses and latches a rung (select_escape_rung, latch_escape_rung),     *)
(* which shares it lets go (release_partials), which rung it combines      *)
(* (try_finalize) and what it sends (combine_and_broadcast), while nodes   *)
(* read chains that may be a block apart, a deposit changes what a sweep   *)
(* must cover, RPCs fail, blocks are reorganized and the mempool forgets.  *)
(*                                                                         *)
(* Every live node is armed on the same escape and its window stays open;  *)
(* arming, the window and Lockdown are in CandidateStore and NodeProcess.  *)
(* A share for a rung is one message per peer here: a peer has it or it is *)
(* still being retried (retry_loop).  All inputs of a rung travel alike.   *)
(***************************************************************************)
EXTENDS Integers, FiniteSets, FiniteSetsExt

CONSTANTS
    Nodes,
    Threshold,      \* t
    Top,            \* the highest rung: MAX_ESCAPE_BUMPS or fewer
    Feerate,        \* [Rungs -> Nat]: sat/vB a rung pays, rising
    Delivered,      \* [Rungs -> Nat]: what reaches the escape wallet, falling
    FeeFloor,       \* escape_feerate_floor
    CoveragePct,    \* escape_coverage_pct
    Medians,        \* <<m1, m2>>: median feerate of two successive anchor blocks
    Step,           \* FEE_TARGET_STEP_SAT_VB
    Balance,        \* protected vault value when the escape was armed
    Deposit,        \* a deposit that may confirm later
    ReleaseQuota,   \* [Nodes -> Nat]: rungs a release may carry (quota / inputs)
    MaxFaults       \* bound: RPC errors, evictions and reorgs, together

Rungs == 0 .. Top
None == -1

ASSUME LadderAssumption ==
    /\ Threshold \in 1 .. Cardinality(Nodes)
    /\ Top \in Nat
    /\ Feerate \in [Rungs -> Nat]
    /\ Delivered \in [Rungs -> Nat]
    /\ \A r, q \in Rungs :         \* ensure_escape_ladder
          r <= q => Feerate[r] <= Feerate[q] /\ Delivered[q] <= Delivered[r]
    /\ FeeFloor \in Nat /\ CoveragePct \in 0 .. 100
    /\ Step \in Nat \ {0}
    /\ Balance \in Nat /\ Deposit \in Nat
    /\ ReleaseQuota \in [Nodes -> Nat \ {0}]

VARIABLES
    live,      \* the nodes that are up and armed: a bare quorum, never changed
    anchor,    \* which of the two anchor blocks is under the tip
    deposited, \* the deposit has confirmed
    mempool,   \* rung in the mempool, or None
    confirmed, \* rung in a block, or None
    faults,    \* how many faults there were
    latch,     \* Candidate.rung
    floor,     \* Candidate.release_floor
    through,   \* Candidate.released_through, None before the first release
    shares,    \* shares[n][r]: whose signatures node n holds on rung r
    sent,      \* history: the rungs whose share left the node
    pass       \* where the node's fire pass stands, and its sweep context

chainVars == <<anchor, deposited, mempool, confirmed, faults>>
nodeVars == <<latch, floor, through, shares, sent, pass>>
ladderVars == <<live, chainVars, nodeVars>>

NoContext == [at |-> "idle", ok |-> FALSE, resident |-> None, protected |-> 0]

-----------------------------------------------------------------------------
(* Choosing a rung.                                                          *)

Reaches(r, required) == Feerate[r] >= required

\* sweep_rung_admissible: the panic floor, and coverage of what this node sees
\* as protected.
Admissible(protected) ==
    {r \in Rungs : /\ Reaches(r, FeeFloor)
                   /\ Delivered[r] * 100 >= protected * CoveragePct}

\* escape_bump_target_feerate: the anchor's median, quantized down.
Quantized(median) == (median \div Step) * Step

\* A node may still be one anchor behind; without a reading the target is 0.
Targets == {0} \cup {Quantized(Medians[a]) : a \in 1 .. anchor}

\* A node may see a deposit late.
ProtectedSeen == {Balance} \cup (IF deposited THEN {Balance + Deposit} ELSE {})

Needed(target) ==
    LET enough == {r \in Rungs : Reaches(r, Max({target, FeeFloor}))}
    IN  IF enough = {} THEN Top ELSE Min(enough)

\* Mutant: the needed rung is taken although coverage forbids it.
Unclamped(target, admissible) == Needed(target)

\* The cheapest admissible rung that is enough, else the dearest admissible.
Choice(target, admissible) ==
    LET enough == {r \in admissible : r >= Needed(target)}
    IN  IF enough = {} THEN Max(admissible) ELSE Min(enough)

Selected(n, target, admissible) == Max({Choice(target, admissible), latch[n]})

\* latch_escape_rung: it only rises.
Latched(n, rung) == [latch EXCEPT ![n] = Max({@, rung})]

\* The escape's inputs are known: unspent, or spent by a rung in the mempool.
Spendable == confirmed = None

\* escape_sweep_pre_release_admissible succeeds with these readings, in the
\* context ctx, and latches its rung and the lowest admissible one.
Preflight(n, target, protected) ==
    LET admissible == Admissible(protected)
        rung == Selected(n, target, admissible)
    IN  /\ Spendable
        /\ admissible # {}
        /\ rung \in admissible
        /\ latch' = Latched(n, rung)
        /\ floor' = [floor EXCEPT ![n] = Min(admissible \cup {rung})]

\* It fails when no rung may fire or the latched one no longer may.
PreflightFails(n, target, protected) ==
    LET admissible == Admissible(protected)
    IN  \/ ~ Spendable
        \/ admissible = {}
        \/ Selected(n, target, admissible) \notin admissible

Context(n, ok, protected) ==
    pass' = [pass EXCEPT ![n] = [at |-> "combine", ok |-> ok,
                                 resident |-> mempool, protected |-> protected]]

-----------------------------------------------------------------------------
(* Releasing shares.                                                         *)

Authorized(n) == Min({latch'[n], floor'[n] + ReleaseQuota[n] - 1})

\* Mutant: only the selected rung's share leaves.
SelectedOnly(n) == {Authorized(n)}

\* release_partials: from the release floor through the authorized rung, each
\* rung once.
Released(n) == Max({through[n] + 1, floor'[n]}) .. Authorized(n)

Release(n) ==
    LET rungs == Released(n)
    IN  /\ through' = IF rungs = {} THEN through
                      ELSE [through EXCEPT ![n] = Authorized(n)]
        /\ sent' = [sent EXCEPT ![n] = @ \cup rungs]

-----------------------------------------------------------------------------
(* A fire pass: preflight and release, then combine.                         *)

\* The preflight admits a rung, and the release hold that follows it lets the
\* newly authorized shares go.
FirePass(n) ==
    /\ pass[n].at = "idle"
    /\ \E target \in Targets, protected \in ProtectedSeen :
          /\ Preflight(n, target, protected)
          /\ Release(n)
          /\ Context(n, TRUE, protected)
    /\ UNCHANGED <<live, chainVars, shares>>

\* The preflight finds nothing admissible: nothing is released.
FirePassInadmissible(n) ==
    /\ pass[n].at = "idle"
    /\ \E target \in Targets, protected \in ProtectedSeen :
          PreflightFails(n, target, protected)
    /\ Context(n, FALSE, 0)
    /\ UNCHANGED <<live, chainVars, latch, floor, through, shares, sent>>

\* An RPC of the preflight fails or its task panics.
FirePassFails(n) ==
    /\ pass[n].at = "idle"
    /\ faults < MaxFaults
    /\ faults' = faults + 1
    /\ Context(n, FALSE, 0)
    /\ UNCHANGED <<live, anchor, deposited, mempool, confirmed, latch, floor,
                   through, shares, sent>>

\* Mutant: any rung in the mempool ends the bumping.
AnyResident(n) == pass[n].ok /\ pass[n].resident # None

\* armed_escape_network_state: the resident rung this pass saw is good enough.
Resident(n) == pass[n].ok /\ pass[n].resident >= latch[n]

PassEnds(n) == pass' = [pass EXCEPT ![n] = NoContext]

\* Settled for now: the candidate stays, so that a reorg is survived.
CombineSettled(n) ==
    /\ pass[n].at = "combine"
    /\ confirmed # None \/ Resident(n)
    /\ PassEnds(n)
    /\ UNCHANGED <<live, chainVars, latch, floor, through, shares, sent>>

\* Without a context, combine makes a preflight of its own: it may latch a rung
\* whose share only the next pass releases.
LatePreflight(n) ==
    /\ pass[n].at = "combine"
    /\ ~ pass[n].ok
    /\ confirmed = None
    /\ \/ \E target \in Targets, protected \in ProtectedSeen :
             /\ Preflight(n, target, protected)
             /\ Context(n, TRUE, protected)
       \/ /\ \E target \in Targets, protected \in ProtectedSeen :
                PreflightFails(n, target, protected)
          /\ PassEnds(n)
          /\ UNCHANGED <<latch, floor>>
    /\ UNCHANGED <<live, chainVars, through, shares, sent>>

Complete(n) == {r \in 0 .. latch[n] : Cardinality(shares[n][r]) >= Threshold}

\* External: Bitcoin Core's package acceptance replaces a rung only by a dearer
\* one, and takes none whose inputs a block has spent.
Accepts(r) == confirmed = None /\ r > mempool

\* try_finalize: the highest complete rung up to the latch, once more admissible
\* under the pass's context, accepted by the mempool and sent.
CombineSends(n) ==
    /\ pass[n].at = "combine"
    /\ pass[n].ok
    /\ confirmed = None
    /\ ~ Resident(n)
    /\ Complete(n) # {}
    /\ LET r == Max(Complete(n))
       IN  /\ r \in Admissible(pass[n].protected)
           /\ Accepts(r)
           /\ mempool' = r
    /\ PassEnds(n)
    /\ UNCHANGED <<live, anchor, deposited, confirmed, faults, latch, floor,
                   through, shares, sent>>

\* No quorum yet, not admissible after all, already there, or refused.
CombineWaits(n) ==
    /\ pass[n].at = "combine"
    /\ pass[n].ok
    /\ confirmed = None
    /\ ~ Resident(n)
    /\ Complete(n) # {} =>
          LET r == Max(Complete(n))
          IN  r \notin Admissible(pass[n].protected) \/ ~ Accepts(r)
    /\ PassEnds(n)
    /\ UNCHANGED <<live, chainVars, latch, floor, through, shares, sent>>

\* An RPC of the combine fails.
CombineFails(n) ==
    /\ pass[n].at = "combine"
    /\ faults < MaxFaults
    /\ faults' = faults + 1
    /\ PassEnds(n)
    /\ UNCHANGED <<live, anchor, deposited, mempool, confirmed, latch, floor,
                   through, shares, sent>>

\* accept_partial at a peer: the share is filed under the rung its txid names.
Deliver(from, to, r) ==
    /\ {from, to} \subseteq live /\ from # to
    /\ r \in sent[from]
    /\ from \notin shares[to][r]
    /\ shares' = [shares EXCEPT ![to][r] = @ \cup {from}]
    /\ UNCHANGED <<live, chainVars, latch, floor, through, sent, pass>>

-----------------------------------------------------------------------------
(* The chain.                                                                *)

NewAnchor ==
    /\ anchor = 1
    /\ anchor' = 2
    /\ UNCHANGED <<live, deposited, mempool, confirmed, faults, nodeVars>>

DepositConfirms ==
    /\ ~ deposited
    /\ deposited' = TRUE
    /\ UNCHANGED <<live, anchor, mempool, confirmed, faults, nodeVars>>

Mine ==
    /\ mempool # None
    /\ confirmed' = mempool
    /\ mempool' = None
    /\ UNCHANGED <<live, anchor, deposited, faults, nodeVars>>

\* A reorg un-confirms the sweep; the mempool may or may not take it back.
Reorg ==
    /\ confirmed # None
    /\ faults < MaxFaults
    /\ faults' = faults + 1
    /\ confirmed' = None
    /\ mempool' \in {None, confirmed}
    /\ UNCHANGED <<live, anchor, deposited, nodeVars>>

Evict ==
    /\ mempool # None
    /\ faults < MaxFaults
    /\ faults' = faults + 1
    /\ mempool' = None
    /\ UNCHANGED <<live, anchor, deposited, confirmed, nodeVars>>

-----------------------------------------------------------------------------

\* Nothing has been fired yet.
Unfired ==
    /\ anchor = 1
    /\ mempool = None
    /\ confirmed = None
    /\ faults = 0
    /\ latch = [n \in Nodes |-> 0]
    /\ floor = [n \in Nodes |-> 0]
    /\ through = [n \in Nodes |-> None]
    /\ shares = [n \in Nodes |-> [r \in Rungs |-> {n}]]
    /\ sent = [n \in Nodes |-> {}]
    /\ pass = [n \in Nodes |-> NoContext]

LadderInit ==
    /\ live \in {Q \in SUBSET Nodes : Cardinality(Q) = Threshold}
    /\ deposited = FALSE
    /\ Unfired

PassStep(n) ==
    \/ FirePass(n) \/ FirePassInadmissible(n)
    \/ CombineSettled(n) \/ LatePreflight(n)
    \/ CombineSends(n) \/ CombineWaits(n)

Delivery == \E from, to \in live, r \in Rungs : Deliver(from, to, r)

LadderNext ==
    \/ \E n \in live : PassStep(n) \/ FirePassFails(n) \/ CombineFails(n)
    \/ Delivery
    \/ NewAnchor
    \/ DepositConfirms
    \/ Mine
    \/ Reorg
    \/ Evict

\* The fire driver's loop takes a pass every tick, and a share is retried until
\* it is delivered (there are finitely many shares, and a delivered one stays, so
\* one condition serves for all); nothing is assumed of miners or of the chain.
LadderFairness ==
    /\ \A n \in Nodes, step \in {"idle", "combine"} :
           []<>(n \notin live \/ pass[n].at = step)
    /\ WF_ladderVars(Delivery)

LadderSpec == LadderInit /\ [][LadderNext]_ladderVars /\ LadderFairness

-----------------------------------------------------------------------------

\* Every variable has its type; in particular a latch is the base rung or one
\* the fire-time predicate admitted.
LadderTypeOK ==
    /\ mempool \in Rungs \cup {None}
    /\ confirmed \in Rungs \cup {None}
    /\ latch \in [Nodes -> {0} \cup Admissible(Balance)]
    /\ floor \in [Nodes -> Rungs]
    /\ through \in [Nodes -> Rungs \cup {None}]
    /\ shares \in [Nodes -> [Rungs -> SUBSET Nodes]]
    /\ sent \in [Nodes -> SUBSET Rungs]

\* Nodes that latched different rungs still share one: any Threshold nodes that
\* released anything have released a common rung (release_partials lets the
\* prefix go, never only the node's own selection), whatever anchor, deposit and
\* quota each of them saw.
CommonRung ==
    \A Q \in SUBSET {n \in Nodes : sent[n] # {}} :
        Cardinality(Q) = Threshold =>
            \E r \in Rungs : \A n \in Q : r \in sent[n]

\* What t - 1 strangers could complete with one node's share is a sweep that
\* node would fire: no share leaves for a rung under the panic floor, before or
\* after the latch rises.
NoShareUnderFloor ==
    \A n \in Nodes : \A r \in sent[n] : Reaches(r, FeeFloor)

Landed == mempool # None \/ confirmed # None

\* The sweep reaches the network, and again after every eviction and reorg, with
\* any Threshold nodes up, however their readings and quotas differ; only a
\* deposit that makes a latched rung inadmissible may stop it (the documented
\* fall-back to recovery).
SweepLands == []<>Landed \/ <>deposited

\* The nodes that can and did authorize rung r.
Backers(r) == {n \in live : latch[n] >= r /\ Min(Admissible(Balance)) + ReleaseQuota[n] > r}

\* A bump is never stuck behind its own cheaper rung: once Threshold nodes have
\* latched rung r and may release it, r or a dearer rung enters the mempool,
\* unless a cheaper one is mined first.
BumpLands ==
    \A r \in Rungs :
        (Cardinality(Backers(r)) >= Threshold) ~>
            (mempool >= r \/ confirmed # None \/ deposited)

\* The invariant of latch and release: types, a rung that every quorum shares, and no
\* share under the floor.
LadderInv == LadderTypeOK /\ CommonRung /\ NoShareUnderFloor
=============================================================================
