------------------------------ MODULE Ceremony ------------------------------
(***************************************************************************)
(* The setup ceremony (vault-cli setup): key generation on the node hosts, *)
(* assemble and finalize on the coordinator, endorsements by the nodes,    *)
(* and the start of a node from the sealed set.  Every command can be      *)
(* interrupted between two of its writes and run again; node keys can be   *)
(* generated anew, bundles and endorsements copied late, the state file    *)
(* edited and a secret of another round put back.                          *)
(*                                                                         *)
(* A key, a secret or a hash is known by where it comes from: a node key   *)
(* by the number of the keygen that made it, a coordinator key and the     *)
(* manifest hash by the round of assemble, which draws a fresh key.  The   *)
(* parts of the manifest are compared field by field, which is what its    *)
(* hash does.  assemble and finalize are not run at the same time.         *)
(***************************************************************************)
EXTENDS Naturals, FiniteSets

CONSTANTS
    Nodes,         \* the node hosts
    Threshold,     \* t of the ceremony's input
    Finalizers,    \* runs of finalize
    Ports,         \* loopback ports of the endpoints
    MaxKeygen,     \* bound: keygens of a host
    Regenerates,   \* hosts that run keygen more than once
    MaxRounds,     \* bound: rounds of assemble
    MaxEdits       \* bound: edits of the ceremony's files

ASSUME CeremonyAssumption ==
    /\ Nodes # {} /\ IsFiniteSet(Nodes) /\ Regenerates \subseteq Nodes
    /\ Threshold \in Nat /\ MaxKeygen \in Nat /\ MaxRounds \in Nat /\ MaxEdits \in Nat

VARIABLES
    device,     \* a node host: its bundle, the preimages written down, a keygen half way
    copy,       \* the bundles as the coordinator has them
    made,       \* rounds of assemble so far
    dir,        \* the ceremony directory
    asm,        \* the assemble that runs: its round and its next write
    fin,        \* each run of finalize
    sealed,     \* the sealed/ directory
    edits

vars == <<device, copy, made, dir, asm, fin, sealed, edits>>

Rounds == 1 .. MaxRounds
NoBundle == [key |-> 0, port |-> 0]
Bundle == [key : 0 .. MaxKeygen, port : Ports \cup {0}]

\* What a state file says.  hash is the round whose manifest hash it carries; bound
\* and free are its manifest-bound and its other values: those of the round, or
\* edited.
NoState == [round |-> 0, nodes |-> [n \in Nodes |-> NoBundle], bound |-> "own",
            free |-> "own"]

NoEndorsement == [key |-> 0, round |-> 0, port |-> 0]

Idle == [pc |-> "idle", state |-> NoState, report |-> 0, secret |-> 0, staged |-> 0]

NoSet == [state |-> NoState, secret |-> 0, report |-> 0, whole |-> FALSE]

Init ==
    /\ device = [n \in Nodes |-> [bundle |-> NoBundle, noted |-> {}, busy |-> FALSE]]
    /\ copy = [n \in Nodes |-> NoBundle]
    /\ made = 0
    /\ dir = [secret |-> 0, report |-> 0, state |-> NoState, printed |-> {},
              endorsed |-> [n \in Nodes |-> NoEndorsement]]
    /\ asm = [round |-> 0, next |-> "none", state |-> NoState]
    /\ fin = [f \in Finalizers |-> Idle]
    /\ sealed = NoSet /\ edits = 0

-----------------------------------------------------------------------------
(* On a node host.                                                          *)

\* node_keygen: a fresh preimage; the bundle is written before it is shown.
NodeKeygen(n, port) ==
    LET k == device[n].bundle.key + 1 IN
    /\ ~ device[n].busy /\ k <= MaxKeygen
    /\ k > 1 => n \in Regenerates
    /\ device' = [device EXCEPT ![n].bundle = [key |-> k, port |-> port], ![n].busy = TRUE]
    /\ UNCHANGED <<copy, made, dir, asm, fin, sealed, edits>>

\* It shows the preimage, the only copy, or is interrupted before that.
ShowPreimage(n, shown) ==
    /\ device[n].busy
    /\ device' = [device EXCEPT ![n].busy = FALSE,
          ![n].noted = IF shown THEN @ \cup {device[n].bundle.key} ELSE @]
    /\ UNCHANGED <<copy, made, dir, asm, fin, sealed, edits>>

\* The operator carries a bundle to the coordinator.
CopyBundle(n) ==
    /\ device[n].bundle # NoBundle /\ copy[n] # device[n].bundle
    /\ copy' = [copy EXCEPT ![n] = device[n].bundle]
    /\ UNCHANGED <<device, made, dir, asm, fin, sealed, edits>>

\* node_endorse: the preimage must derive the key of the device's bundle; then it
\* signs the manifest hash that some assemble printed.  The operator puts the
\* endorsement into the ceremony directory.
NodeEndorse(n, r) ==
    LET b == device[n].bundle
        e == [key |-> b.key, round |-> r, port |-> b.port]
    IN
    /\ r \in dir.printed /\ b # NoBundle
    /\ b.key \in device[n].noted
    /\ dir.endorsed[n] # e
    /\ dir' = [dir EXCEPT !.endorsed[n] = e]
    /\ UNCHANGED <<device, copy, made, asm, fin, sealed, edits>>

-----------------------------------------------------------------------------
(* assemble.                                                                *)

NoFinalize == \A f \in Finalizers : fin[f].pc \in {"idle", "done", "refused", "stopped"}

\* The frozen shape, n = 2t - 1 with t at least 2.
Shape == Threshold >= 2 /\ Cardinality(Nodes) = 2 * Threshold - 1

\* loopback_port of every node, nonzero, and no two the same.
PortsBindable(b) ==
    /\ \A n \in Nodes : b[n].port # 0
    /\ \A m, n \in Nodes : m # n => b[m].port # b[n].port

\* assemble: the checks, a fresh coordinator key, and the hash.
Assemble ==
    /\ asm.next = "none" /\ NoFinalize
    /\ made < MaxRounds /\ made' = made + 1
    /\ \A n \in Nodes : copy[n] # NoBundle
    /\ Shape /\ PortsBindable(copy)
    /\ asm' = [round |-> made', next |-> "secret",
               state |-> [NoState EXCEPT !.round = made', !.nodes = copy]]
    /\ UNCHANGED <<device, copy, dir, fin, sealed, edits>>

\* Mutant: the state file is written before the report.
WriteOrderReportLast(w) == CASE w = "secret" -> "state" [] w = "state" -> "tear"
                             [] w = "tear" -> "report" [] OTHER -> "none"

\* assemble_cmd writes the secret, then the report, then the state.  (The public
\* text files before them are read by no later command.)
WriteOrder(w) == CASE w = "secret" -> "tear" [] w = "tear" -> "report"
                   [] w = "report" -> "state" [] OTHER -> "none"

\* One write.  A secret file is renamed into place; the report is cut short first.
AssembleWrite ==
    LET r == asm.round IN
    /\ asm.next # "none"
    /\ asm' = [asm EXCEPT !.next = WriteOrder(@)]
    /\ dir' = CASE asm.next = "secret" -> [dir EXCEPT !.secret = r,
                                                      !.printed = @ \cup {r}]
                [] asm.next = "tear"   -> [dir EXCEPT !.report = 0]
                [] asm.next = "report" -> [dir EXCEPT !.report = r]
                [] asm.next = "state"  -> [dir EXCEPT !.state = asm.state]
    /\ UNCHANGED <<device, copy, made, fin, sealed, edits>>

\* It is interrupted, before any of its writes or after them.
AssembleStops ==
    /\ asm.next # "none"
    /\ asm' = [asm EXCEPT !.next = "none"]
    /\ UNCHANGED <<device, copy, made, dir, fin, sealed, edits>>

-----------------------------------------------------------------------------
(* The operator's hand on the ceremony directory, also while finalize runs.  *)

Edit(d) ==
    /\ asm.next = "none" /\ edits < MaxEdits /\ edits' = edits + 1
    /\ dir' = d
    /\ UNCHANGED <<device, copy, made, asm, fin, sealed>>

\* A manifest-bound value (a key, the policy, the velocity window) or another one is edited.
EditState ==
    /\ dir.state.round # 0
    /\ \/ Edit([dir EXCEPT !.state.bound = "edited"])
       \/ Edit([dir EXCEPT !.state.free = "edited"])

\* A secret of another round is put back.
RestoreSecret == \E r \in 1 .. made : r # dir.secret /\ Edit([dir EXCEPT !.secret = r])

-----------------------------------------------------------------------------
(* finalize.                                                                *)

Refuse(f) == fin' = [fin EXCEPT ![f] = [Idle EXCEPT !.pc = "refused"]]

\* finalize_cmd reads the state.
Finalize(f) ==
    /\ fin[f].pc = "idle" /\ asm.next = "none"
    /\ dir.state.round # 0
    /\ fin' = [fin EXCEPT ![f] = [Idle EXCEPT !.pc = "secret", !.state = dir.state]]
    /\ UNCHANGED <<device, copy, made, dir, asm, sealed, edits>>

\* The secret must derive the pinned key.
SecretMatches(f) == dir.secret = fin[f].state.round

CheckSecret(f) ==
    /\ fin[f].pc = "secret"
    /\ IF SecretMatches(f)
       THEN fin' = [fin EXCEPT ![f].pc = "manifest", ![f].secret = dir.secret]
       ELSE Refuse(f)
    /\ UNCHANGED <<device, copy, made, dir, asm, sealed, edits>>

\* The hash recomputed from the state's own fields is the one it carries.
HashMatches(s) == s.bound = "own"

\* Mutant: an endorsement only has to be there.
EndorsementPresent(s, n) == dir.endorsed[n] # NoEndorsement

\* verify_endorsement: the node's key signed this manifest hash and its endpoints.
EndorsementVerifies(s, n) ==
    dir.endorsed[n] = [key |-> s.nodes[n].key, round |-> s.round, port |-> s.nodes[n].port]

CheckManifest(f) ==
    LET s == fin[f].state IN
    /\ fin[f].pc = "manifest"
    /\ IF HashMatches(s) /\ \A n \in Nodes : EndorsementVerifies(s, n)
       THEN fin' = [fin EXCEPT ![f].pc = "report"]
       ELSE Refuse(f)
    /\ UNCHANGED <<device, copy, made, dir, asm, sealed, edits>>

\* The report is read again for the backup, and sealed/ must not exist.
ReadReport(f) ==
    /\ fin[f].pc = "report"
    /\ IF sealed = NoSet
       THEN fin' = [fin EXCEPT ![f].pc = "stage", ![f].report = dir.report]
       ELSE Refuse(f)
    /\ UNCHANGED <<device, copy, made, dir, asm, sealed, edits>>

\* The artifacts: the manifest, a config per node, the backup.
Artifacts == Cardinality(Nodes) + 2

Stage(f) ==
    /\ fin[f].pc = "stage" /\ fin[f].staged < Artifacts
    /\ fin' = [fin EXCEPT ![f].staged = @ + 1]
    /\ UNCHANGED <<device, copy, made, dir, asm, sealed, edits>>

SealedSet(f) == [state |-> fin[f].state, secret |-> fin[f].secret,
                 report |-> fin[f].report, whole |-> fin[f].staged = Artifacts]

\* Mutant: the set in place is replaced.
PublishOver(f) ==
    /\ fin[f].pc = "stage" /\ fin[f].staged = Artifacts
    /\ sealed' = SealedSet(f) /\ fin' = [fin EXCEPT ![f] = [Idle EXCEPT !.pc = "done"]]
    /\ UNCHANGED <<device, copy, made, dir, asm, edits>>

\* One rename, which fails on a directory that another run made meanwhile.
Publish(f) ==
    /\ fin[f].pc = "stage" /\ fin[f].staged = Artifacts
    /\ IF sealed = NoSet
       THEN sealed' = SealedSet(f) /\ fin' = [fin EXCEPT ![f] = [Idle EXCEPT !.pc = "done"]]
       ELSE Refuse(f) /\ UNCHANGED sealed
    /\ UNCHANGED <<device, copy, made, dir, asm, edits>>

\* It is interrupted: its staging directory is its own, and nobody reads it.
FinalizeStops(f) ==
    /\ fin[f].pc \in {"secret", "manifest", "report", "stage"}
    /\ fin' = [fin EXCEPT ![f] = [Idle EXCEPT !.pc = "stopped"]]
    /\ UNCHANGED <<device, copy, made, dir, asm, sealed, edits>>

Next ==
    \/ \E n \in Nodes : \/ \E p \in Ports : NodeKeygen(n, p)
                        \/ \E b \in BOOLEAN : ShowPreimage(n, b)
                        \/ CopyBundle(n)
                        \/ \E r \in Rounds : NodeEndorse(n, r)
    \/ Assemble
    \/ AssembleWrite \/ AssembleStops
    \/ EditState \/ RestoreSecret
    \/ \E f \in Finalizers : \/ Finalize(f) \/ CheckSecret(f) \/ CheckManifest(f)
                             \/ ReadReport(f) \/ Stage(f) \/ Publish(f)
                             \/ FinalizeStops(f)

Spec == Init /\ [][Next]_vars

-----------------------------------------------------------------------------
(* The start of a sealed node.                                              *)

\* The checks of Node::from_toml_str and ChannelState::build on manifest-bound
\* material, for node n with a preimage of key k: it derives the self entry's key,
\* the manifest hashes to the sealed value, every endorsement verifies, and the port
\* is nobody else's.  (The timing bounds are not checked before the start and are not
\* modelled.)
Loads(n, k) ==
    LET s == sealed.state IN
    /\ s.nodes[n].key = k
    /\ s.bound = "own"
    /\ Shape /\ PortsBindable(s.nodes)

-----------------------------------------------------------------------------
(* What must hold.                                                          *)

TypeOK ==
    /\ device \in [Nodes -> [bundle : Bundle, noted : SUBSET (1 .. MaxKeygen),
                             busy : BOOLEAN]]
    /\ copy \in [Nodes -> Bundle]
    /\ made \in 0 .. MaxRounds /\ edits \in 0 .. MaxEdits
    /\ dir.secret \in 0 .. made /\ dir.report \in 0 .. made
    /\ dir.state.round \in 0 .. made /\ dir.printed \subseteq 1 .. made
    /\ asm.round \in 0 .. made /\ asm.next \in {"none", "secret", "tear", "report", "state"}
    /\ \A f \in Finalizers :
       /\ fin[f].pc \in {"idle", "secret", "manifest", "report", "stage", "done",
                     "refused", "stopped"}
       /\ fin[f].staged \in 0 .. Artifacts

\* publish_artifact_set: sealed/ is all or nothing, wherever finalize stops.
SealedIsWhole == sealed = NoSet \/ sealed.whole

\* The write order of assemble_cmd with the checks of finalize_cmd: the secret, the
\* independence report and the state of a sealed set come from one assemble, also
\* when another one was interrupted in between.  (The report alone may be another
\* one's, or cut short, when a secret was put back by hand after that.)
SealedSetIsOneRound ==
    sealed # NoSet => /\ sealed.secret = sealed.state.round
                      /\ edits = 0 => sealed.report = sealed.state.round

\* "finalize never accepts, merges, or overwrites a sealed artifact set", also when
\* two of them race past the check.
SealedIsFinal == [][sealed # NoSet => sealed' = sealed]_vars

\* A sealed federation can start: for every node the operator was shown a preimage
\* with which all checks on what the manifest freezes pass, whatever was generated
\* anew, copied late or edited on the way.
SealedFederationStarts ==
    sealed # NoSet => \A n \in Nodes : \E k \in device[n].noted : Loads(n, k)

\* The invariant of assemble and finalize: types, and a sealed set that is whole and
\* of one round.
SealedInv == TypeOK /\ SealedIsWhole /\ SealedSetIsOneRound
=============================================================================
