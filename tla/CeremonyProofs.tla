--------------------------- MODULE CeremonyProofs ---------------------------
(***************************************************************************)
(* Proofs about Ceremony, for any number of nodes, ports, rounds, keygens  *)
(* and edits, and any number of runs of finalize.                          *)
(*                                                                         *)
(* What a sealed set promises is decided by reads that finalize makes one  *)
(* after the other, so the invariant follows each of them: what the files  *)
(* of the directory say of one another between two writes of assemble, and *)
(* what a run of finalize has established when it has come to each of its  *)
(* checks.                                                                 *)
(***************************************************************************)
EXTENDS Ceremony, FiniteSetTheorems, TLAPS

StateFile == [round : Nat, nodes : [Nodes -> Bundle], bound : {"own", "edited"},
              free : {"own", "edited"}]
Endorsement == [key : Nat, round : Nat, port : Ports \cup {0}]
Host == [bundle : Bundle, noted : SUBSET (1 .. MaxKeygen), busy : BOOLEAN]
Directory == [secret : Nat, report : Nat, state : StateFile, printed : SUBSET Nat,
              endorsed : [Nodes -> Endorsement]]
Assembling == [round : Nat, next : {"none", "secret", "tear", "report", "state"},
               state : StateFile]
Finalizing == [pc : {"idle", "secret", "manifest", "report", "stage", "done",
                     "refused", "stopped"},
               state : StateFile, report : Nat, secret : Nat, staged : 0 .. Artifacts]

Records ==
    /\ device \in [Nodes -> Host] /\ copy \in [Nodes -> Bundle]
    /\ made \in 0 .. MaxRounds /\ edits \in 0 .. MaxEdits
    /\ dir \in Directory /\ asm \in Assembling /\ fin \in [Finalizers -> Finalizing]

\* No file is of a round that was not made yet, and a keygen half way has a key.
RoundsMade ==
    /\ dir.secret <= made /\ dir.report <= made /\ dir.state.round <= made
    /\ dir.printed \subseteq 1 .. made /\ asm.round <= made
    /\ \A n \in Nodes : device[n].busy => device[n].bundle.key # 0

Running(f) == fin[f].pc \in {"secret", "manifest", "report", "stage"}

\* assemble on its way: the round is the newest, the state in place an older one, and
\* what is before the next write in its order has been written.
AssembleInOrder ==
    asm.next # "none" =>
        /\ asm.round = made /\ asm.state.round = made /\ dir.state.round < made
        /\ Shape /\ PortsBindable(asm.state.nodes)
        /\ asm.next # "secret" => dir.secret = made
        /\ asm.next = "state" => dir.report = made

\* The files in place: the secret of the state's round comes with its report unless
\* someone edited, the state passed the checks of assemble, and an endorsement was
\* made with a preimage that the node's operator has.
FilesAgree ==
    /\ edits = 0 /\ dir.secret = dir.state.round => dir.report = dir.state.round
    /\ dir.state.round # 0 => Shape /\ PortsBindable(dir.state.nodes)
    /\ \A n \in Nodes : dir.endorsed[n].round # 0 => dir.endorsed[n].key \in device[n].noted

\* What run f of finalize has established at each of its steps.
Established(f) ==
    LET s == fin[f].state IN
    /\ Running(f) => asm.next = "none" /\ s.round # 0 /\ Shape /\ PortsBindable(s.nodes)
    /\ Running(f) /\ fin[f].pc # "stage" /\ edits = 0 => s.round = dir.state.round
    /\ fin[f].pc \in {"manifest", "report", "stage"} => fin[f].secret = s.round
    /\ fin[f].pc \in {"manifest", "report"} /\ edits = 0 => dir.secret = s.round
    /\ fin[f].pc \in {"report", "stage"} =>
          s.bound = "own" /\ \A n \in Nodes : s.nodes[n].key \in device[n].noted
    /\ fin[f].pc = "stage" /\ edits = 0 => fin[f].report = s.round

CeremonyInv ==
    /\ Records /\ RoundsMade /\ AssembleInOrder /\ FilesAgree
    /\ \A f \in Finalizers : Established(f)
    /\ SealedIsWhole /\ SealedSetIsOneRound /\ SealedFederationStarts

-----------------------------------------------------------------------------
(* Types.                                                                    *)

LEMMA ArtifactsType == Artifacts \in Nat /\ Artifacts # 0
  BY CeremonyAssumption, FS_CardinalityType DEF Artifacts

LEMMA NoStateType == NoState \in StateFile
  BY CeremonyAssumption DEF NoState, StateFile, NoBundle, Bundle

LEMMA StateFileUpdate ==
    ASSUME NEW s \in StateFile, NEW r \in Nat, NEW b \in [Nodes -> Bundle]
    PROVE  [s EXCEPT !.round = r, !.nodes = b] \in StateFile
  BY DEF StateFile

\* The updates of a run of finalize.
LEMMA FinalizingUpdates ==
    ASSUME NEW s \in Finalizing, NEW r \in Nat, NEW t \in StateFile,
           NEW a \in {"secret", "report", "done", "refused", "stopped"}
    PROVE  /\ [s EXCEPT !.pc = a] \in Finalizing
           /\ [s EXCEPT !.pc = a, !.state = t] \in Finalizing
           /\ [s EXCEPT !.pc = "manifest", !.secret = r] \in Finalizing
           /\ [s EXCEPT !.pc = "stage", !.report = r] \in Finalizing
           /\ s.staged < Artifacts => [s EXCEPT !.staged = s.staged + 1] \in Finalizing
<1>1. [s EXCEPT !.pc = a] \in Finalizing
  BY DEF Finalizing
<1>2. [s EXCEPT !.pc = a, !.state = t] \in Finalizing
  BY DEF Finalizing
<1>3. [s EXCEPT !.pc = "manifest", !.secret = r] \in Finalizing
  BY DEF Finalizing
<1>4. [s EXCEPT !.pc = "stage", !.report = r] \in Finalizing
  BY DEF Finalizing
<1>5. ASSUME s.staged < Artifacts PROVE [s EXCEPT !.staged = s.staged + 1] \in Finalizing
  <2>1. s.staged + 1 \in 0 .. Artifacts
    BY <1>5, ArtifactsType DEF Finalizing
  <2> QED
    BY <2>1 DEF Finalizing
<1> QED
  BY <1>1, <1>2, <1>3, <1>4, <1>5

LEMMA IdleType ==
    /\ Idle \in Finalizing
    /\ \A a \in {"done", "refused", "stopped"} : [Idle EXCEPT !.pc = a] \in Finalizing
    /\ \A s \in StateFile : [Idle EXCEPT !.pc = "secret", !.state = s] \in Finalizing
<1>1. Idle \in Finalizing
  BY NoStateType, ArtifactsType DEF Idle, Finalizing
<1> QED
  BY <1>1, NoStateType, FinalizingUpdates

LEMMA RecordsInit == Init => Records
<1> SUFFICES ASSUME Init PROVE Records
  OBVIOUS
<1>1. NoBundle \in Bundle /\ NoEndorsement \in Endorsement
  BY CeremonyAssumption DEF NoBundle, Bundle, NoEndorsement, Endorsement
<1>2. device \in [Nodes -> Host]
  BY <1>1 DEF Init, Host
<1>3. dir \in Directory /\ asm \in Assembling
  BY <1>1, NoStateType DEF Init, Directory, Assembling
<1>4. fin \in [Finalizers -> Finalizing]
  BY IdleType DEF Init
<1>5. copy \in [Nodes -> Bundle] /\ made \in 0 .. MaxRounds /\ edits \in 0 .. MaxEdits
  BY <1>1, CeremonyAssumption DEF Init
<1> QED
  BY <1>2, <1>3, <1>4, <1>5 DEF Records

LEMMA RecordsStep == Records /\ RoundsMade /\ [Next]_vars => Records'
<1> SUFFICES ASSUME Records, RoundsMade, [Next]_vars PROVE Records'
  OBVIOUS
<1>a. /\ device \in [Nodes -> Host] /\ copy \in [Nodes -> Bundle]
      /\ made \in Nat /\ edits \in Nat
      /\ dir \in Directory /\ asm \in Assembling /\ fin \in [Finalizers -> Finalizing]
  BY CeremonyAssumption DEF Records
<1>1. ASSUME NEW n \in Nodes, NEW p \in Ports, NodeKeygen(n, p) PROVE Records'
  <2>1. [key |-> device[n].bundle.key + 1, port |-> p] \in Bundle
    BY <1>1, <1>a, CeremonyAssumption DEF NodeKeygen, Host, Bundle
  <2>2. device' \in [Nodes -> Host]
    BY <1>1, <1>a, <2>1 DEF NodeKeygen, Host
  <2> QED
    BY <1>1, <2>2 DEF NodeKeygen, Records
<1>2. ASSUME NEW n \in Nodes, NEW b \in BOOLEAN, ShowPreimage(n, b) PROVE Records'
  <2>1. device[n].bundle.key \in 1 .. MaxKeygen
    BY <1>2, <1>a, CeremonyAssumption DEF ShowPreimage, Host, Bundle, RoundsMade
  <2>2. device' \in [Nodes -> Host]
    BY <1>2, <1>a, <2>1 DEF ShowPreimage, Host
  <2> QED
    BY <1>2, <2>2 DEF ShowPreimage, Records
<1>3. ASSUME NEW n \in Nodes, CopyBundle(n) PROVE Records'
  <2>1. device[n].bundle \in Bundle
    BY <1>a DEF Host
  <2> QED
    BY <1>3, <1>a, <2>1 DEF CopyBundle, Records
<1>4. ASSUME NEW n \in Nodes, NEW r \in Rounds, NodeEndorse(n, r) PROVE Records'
  <2>1. [key |-> device[n].bundle.key, round |-> r, port |-> device[n].bundle.port]
           \in Endorsement
    BY <1>a, CeremonyAssumption DEF Host, Bundle, Endorsement, Rounds
  <2>2. dir' \in Directory
    BY <1>4, <1>a, <2>1 DEF NodeEndorse, Directory
  <2> QED
    BY <1>4, <2>2 DEF NodeEndorse, Records
<1>5. CASE Assemble
  <2>1. [NoState EXCEPT !.round = made', !.nodes = copy] \in StateFile
    <3>1. made' \in Nat
      BY <1>5, <1>a DEF Assemble
    <3> QED
      BY <1>a, <3>1, NoStateType, StateFileUpdate
  <2>2. asm' \in Assembling
    BY <1>5, <1>a, <2>1 DEF Assemble, Assembling
  <2> QED
    BY <1>5, <1>a, <2>2, CeremonyAssumption DEF Assemble, Records
<1>6. CASE AssembleWrite
  <2>1. asm' \in Assembling
    BY <1>6, <1>a DEF AssembleWrite, WriteOrder, Assembling
  <2>2. dir' \in Directory
    <3>1. asm.round \in Nat /\ asm.state \in StateFile
          /\ asm.next \in {"secret", "tear", "report", "state"}
      BY <1>6, <1>a DEF AssembleWrite, Assembling
    <3> QED
      BY <1>6, <1>a, <3>1 DEF AssembleWrite, Directory
  <2> QED
    BY <1>6, <2>1, <2>2 DEF AssembleWrite, Records
<1>7. CASE AssembleStops
  <2>1. asm' \in Assembling
    BY <1>7, <1>a DEF AssembleStops, Assembling
  <2> QED
    BY <1>7, <2>1 DEF AssembleStops, Records
<1>8. CASE EditState
  <2>1. /\ [dir.state EXCEPT !.bound = "edited"] \in StateFile
        /\ [dir.state EXCEPT !.free = "edited"] \in StateFile
    BY <1>a DEF Directory, StateFile
  <2>2. dir' \in Directory
    BY <1>8, <1>a, <2>1 DEF EditState, Edit, Directory
  <2> QED
    BY <1>8, <1>a, <2>2, CeremonyAssumption DEF EditState, Edit, Records
<1>9. CASE RestoreSecret
  <2>1. dir' \in Directory
    BY <1>9, <1>a DEF RestoreSecret, Edit, Directory
  <2> QED
    BY <1>9, <1>a, <2>1, CeremonyAssumption DEF RestoreSecret, Edit, Records
<1>10. ASSUME NEW f \in Finalizers, Finalize(f) PROVE Records'
  <2>1. dir.state \in StateFile
    BY <1>a DEF Directory
  <2>2. fin' \in [Finalizers -> Finalizing]
    BY <1>10, <1>a, <2>1, IdleType DEF Finalize
  <2> QED
    BY <1>10, <2>2 DEF Finalize, Records
<1>b. [Idle EXCEPT !.pc = "refused"] \in Finalizing
  BY IdleType
<1>11. ASSUME NEW f \in Finalizers, CheckSecret(f) PROVE Records'
  <2>1. [fin[f] EXCEPT !.pc = "manifest", !.secret = dir.secret] \in Finalizing
    BY <1>a, NoStateType, FinalizingUpdates DEF Directory
  <2>2. fin' \in [Finalizers -> Finalizing]
    BY <1>11, <1>a, <1>b, <2>1 DEF CheckSecret, Refuse
  <2> QED
    BY <1>11, <2>2 DEF CheckSecret, Records
<1>12. ASSUME NEW f \in Finalizers, CheckManifest(f) PROVE Records'
  <2>1. [fin[f] EXCEPT !.pc = "report"] \in Finalizing
    BY <1>a, NoStateType, FinalizingUpdates
  <2>2. fin' \in [Finalizers -> Finalizing]
    BY <1>12, <1>a, <1>b, <2>1 DEF CheckManifest, Refuse
  <2> QED
    BY <1>12, <2>2 DEF CheckManifest, Records
<1>13. ASSUME NEW f \in Finalizers, ReadReport(f) PROVE Records'
  <2>1. [fin[f] EXCEPT !.pc = "stage", !.report = dir.report] \in Finalizing
    BY <1>a, NoStateType, FinalizingUpdates DEF Directory
  <2>2. fin' \in [Finalizers -> Finalizing]
    BY <1>13, <1>a, <1>b, <2>1 DEF ReadReport, Refuse
  <2> QED
    BY <1>13, <2>2 DEF ReadReport, Records
<1>14. ASSUME NEW f \in Finalizers, Stage(f) PROVE Records'
  <2>1. [fin[f] EXCEPT !.staged = fin[f].staged + 1] \in Finalizing
    BY <1>14, <1>a, NoStateType, FinalizingUpdates DEF Stage
  <2>2. fin' \in [Finalizers -> Finalizing]
    BY <1>14, <1>a, <2>1 DEF Stage
  <2> QED
    BY <1>14, <2>2 DEF Stage, Records
<1>15. ASSUME NEW f \in Finalizers, Publish(f) PROVE Records'
  <2>1. fin' \in [Finalizers -> Finalizing]
    BY <1>15, <1>a, <1>b, IdleType DEF Publish, Refuse
  <2> QED
    BY <1>15, <2>1 DEF Publish, Records
<1>16. ASSUME NEW f \in Finalizers, FinalizeStops(f) PROVE Records'
  <2>1. fin' \in [Finalizers -> Finalizing]
    BY <1>16, <1>a, IdleType DEF FinalizeStops
  <2> QED
    BY <1>16, <2>1 DEF FinalizeStops, Records
<1>17. CASE UNCHANGED vars
  BY <1>17 DEF vars, Records
<1> QED
  BY <1>1, <1>2, <1>3, <1>4, <1>5, <1>6, <1>7, <1>8, <1>9, <1>10, <1>11, <1>12,
     <1>13, <1>14, <1>15, <1>16, <1>17 DEF Next

-----------------------------------------------------------------------------
(* The inductive step.                                                       *)

\* What a step of anyone else leaves a run of finalize, and the sealed set.
Grows ==
    /\ \A n \in Nodes : device[n].noted \subseteq device'[n].noted
    /\ edits' = 0 => edits = 0

LEMMA EstablishedKeeps ==
    ASSUME NEW f \in Finalizers, Established(f), Grows, fin'[f] = fin[f],
           Running(f) => asm'.next = "none",
           Running(f) /\ edits' = 0 =>
              dir'.state.round = dir.state.round /\ dir'.secret = dir.secret
    PROVE  Established(f)'
  BY DEF Established, Running, Grows, Shape, PortsBindable

LEMMA SealedKeeps ==
    ASSUME SealedIsWhole, SealedSetIsOneRound, SealedFederationStarts,
           Grows, sealed' = sealed
    PROVE  (SealedIsWhole /\ SealedSetIsOneRound /\ SealedFederationStarts)'
<1>1. SealedIsWhole'
  BY DEF SealedIsWhole, NoSet, NoState, NoBundle
<1>2. SealedSetIsOneRound'
  BY DEF SealedSetIsOneRound, NoSet, NoState, NoBundle, Grows
<1>3. SealedFederationStarts'
  BY DEF SealedFederationStarts, Loads, NoSet, NoState, NoBundle, Grows, Shape, PortsBindable
<1> QED
  BY <1>1, <1>2, <1>3

\* The parts of the invariant besides the types and the sealed set.
Flow ==
    /\ RoundsMade /\ AssembleInOrder /\ FilesAgree
    /\ \A f \in Finalizers : Established(f)

Files == <<device, copy, made, dir, asm, edits>>

\* A step of run f of finalize.
LEMMA FinalizeFlow ==
    ASSUME Flow, NEW f \in Finalizers, UNCHANGED Files,
           \A g \in Finalizers : g # f => fin'[g] = fin[g],
           Established(f)'
    PROVE  Flow' /\ Grows
<1>1. Grows
  BY DEF Files, Grows
<1>2. ASSUME NEW g \in Finalizers, g # f PROVE Established(g)'
  <2>1. /\ Established(g) /\ fin'[g] = fin[g]
        /\ Running(g) => asm'.next = "none"
        /\ dir'.state.round = dir.state.round /\ dir'.secret = dir.secret
    BY <1>2 DEF Flow, Files, Established
  <2> QED
    BY <1>1, <2>1, EstablishedKeeps
<1>3. RoundsMade' /\ FilesAgree'
  BY DEF Flow, Files, RoundsMade, FilesAgree, Shape, PortsBindable
<1>4. AssembleInOrder'
  BY DEF Flow, Files, AssembleInOrder, Shape, PortsBindable
<1> QED
  BY <1>1, <1>2, <1>3, <1>4 DEF Flow

\* A run of finalize that has ended has nothing left to establish.
LEMMA EndedEstablished ==
    ASSUME NEW f \in Finalizers, fin'[f].pc \in {"done", "refused", "stopped"}
    PROVE  Established(f)'
  BY DEF Established, Running

LEMMA RefuseEnds ==
    ASSUME Records, NEW f \in Finalizers, NEW a \in {"done", "refused", "stopped"},
           fin' = [fin EXCEPT ![f] = [Idle EXCEPT !.pc = a]]
    PROVE  /\ fin'[f].pc \in {"done", "refused", "stopped"}
           /\ \A g \in Finalizers : g # f => fin'[g] = fin[g]
<1>1. fin \in [Finalizers -> Finalizing] /\ Idle \in Finalizing
  BY IdleType DEF Records
<1>2. [Idle EXCEPT !.pc = a].pc = a
  BY <1>1 DEF Finalizing
<1> QED
  BY <1>1, <1>2

\* The steps of finalize.
FinalizeStep ==
    \E f \in Finalizers : \/ Finalize(f) \/ CheckSecret(f) \/ CheckManifest(f)
                          \/ ReadReport(f) \/ Stage(f) \/ Publish(f) \/ FinalizeStops(f)

LEMMA FinalizeStepFlow ==
    ASSUME Records, Flow, FinalizeStep
    PROVE  Flow' /\ Grows
<1>a. fin \in [Finalizers -> Finalizing] /\ dir \in Directory /\ edits \in Nat
  BY CeremonyAssumption DEF Records
<1>1. ASSUME NEW f \in Finalizers, Finalize(f) PROVE Flow' /\ Grows
  <2>1. /\ fin'[f].pc = "secret" /\ fin'[f].state = dir.state
        /\ \A g \in Finalizers : g # f => fin'[g] = fin[g]
    <3>1. Idle \in Finalizing /\ dir.state \in StateFile
      BY <1>a, IdleType DEF Directory
    <3> QED
      BY <1>1, <1>a, <3>1 DEF Finalize, Finalizing
  <2>2. UNCHANGED Files /\ dir.state.round # 0 /\ asm.next = "none"
    BY <1>1 DEF Finalize, Files
  <2>3. Established(f)'
    BY <2>1, <2>2 DEF Flow, FilesAgree, Files, Established, Running, Shape, PortsBindable
  <2> QED
    BY <2>1, <2>2, <2>3, FinalizeFlow
<1>2. ASSUME NEW f \in Finalizers, CheckSecret(f) PROVE Flow' /\ Grows
  <2>1. UNCHANGED Files
    BY <1>2 DEF CheckSecret, Files
  <2>2. CASE SecretMatches(f)
    <3>1. /\ fin[f].pc = "secret" /\ fin'[f].pc = "manifest"
          /\ fin'[f].state = fin[f].state /\ fin'[f].secret = dir.secret
          /\ \A g \in Finalizers : g # f => fin'[g] = fin[g]
      BY <1>2, <1>a, <2>2 DEF CheckSecret, Finalizing
    <3>2. Established(f)'
      BY <2>1, <2>2, <3>1
         DEF Flow, Files, Established, Running, SecretMatches, Shape, PortsBindable
    <3> QED
      BY <2>1, <3>1, <3>2, FinalizeFlow
  <2>3. CASE ~ SecretMatches(f)
    BY <1>2, <2>1, <2>3, RefuseEnds, EndedEstablished, FinalizeFlow
       DEF CheckSecret, Refuse
  <2> QED
    BY <2>2, <2>3
<1>3. ASSUME NEW f \in Finalizers, CheckManifest(f) PROVE Flow' /\ Grows
  <2> DEFINE passes == /\ HashMatches(fin[f].state)
                       /\ \A n \in Nodes : EndorsementVerifies(fin[f].state, n)
  <2>1. UNCHANGED Files
    BY <1>3 DEF CheckManifest, Files
  <2>2. CASE passes
    <3>1. /\ fin[f].pc = "manifest" /\ fin'[f].pc = "report"
          /\ fin'[f].state = fin[f].state /\ fin'[f].secret = fin[f].secret
          /\ \A g \in Finalizers : g # f => fin'[g] = fin[g]
      BY <1>3, <1>a, <2>2 DEF CheckManifest, Finalizing
    <3>2. ASSUME NEW n \in Nodes
          PROVE  /\ dir.endorsed[n].round = fin[f].state.round
                 /\ dir.endorsed[n].key = fin[f].state.nodes[n].key
      <4>1. dir.endorsed[n] = [key |-> fin[f].state.nodes[n].key,
                               round |-> fin[f].state.round,
                               port |-> fin[f].state.nodes[n].port]
        BY <2>2 DEF EndorsementVerifies
      <4> HIDE DEF passes
      <4> QED
        BY <4>1
    <3>3. Established(f) /\ fin[f].state.round # 0
      BY <3>1 DEF Flow, Established, Running
    <3>4. \A n \in Nodes : fin[f].state.nodes[n].key \in device[n].noted
      BY <3>2, <3>3 DEF Flow, FilesAgree
    <3>5. fin[f].state.bound = "own"
      BY <2>2 DEF HashMatches
    <3>6. Established(f)'
      BY <2>1, <3>1, <3>3, <3>4, <3>5 DEF Files, Established, Running, Shape, PortsBindable
    <3> QED
      BY <2>1, <3>1, <3>6, FinalizeFlow
  <2>3. CASE ~ passes
    BY <1>3, <2>1, <2>3, RefuseEnds, EndedEstablished, FinalizeFlow
       DEF CheckManifest, Refuse
  <2> QED
    BY <2>2, <2>3
<1>4. ASSUME NEW f \in Finalizers, ReadReport(f) PROVE Flow' /\ Grows
  <2>1. UNCHANGED Files
    BY <1>4 DEF ReadReport, Files
  <2>2. CASE sealed = NoSet
    <3>1. /\ fin[f].pc = "report" /\ fin'[f].pc = "stage"
          /\ fin'[f].state = fin[f].state /\ fin'[f].secret = fin[f].secret
          /\ fin'[f].report = dir.report
          /\ \A g \in Finalizers : g # f => fin'[g] = fin[g]
      BY <1>4, <1>a, <2>2 DEF ReadReport, Finalizing
    <3>2. edits = 0 => dir.report = fin[f].state.round
      BY <3>1 DEF Flow, FilesAgree, Established, Running
    <3>3. Established(f)'
      BY <2>1, <3>1, <3>2 DEF Flow, Files, Established, Running, Shape, PortsBindable
    <3> QED
      BY <2>1, <3>1, <3>3, FinalizeFlow
  <2>3. CASE sealed # NoSet
    BY <1>4, <2>1, <2>3, RefuseEnds, EndedEstablished, FinalizeFlow
       DEF ReadReport, Refuse
  <2> QED
    BY <2>2, <2>3
<1>5. ASSUME NEW f \in Finalizers, Stage(f) PROVE Flow' /\ Grows
  <2>1. UNCHANGED Files
    BY <1>5 DEF Stage, Files
  <2>2. /\ fin[f].pc = "stage" /\ fin'[f].pc = "stage" /\ fin'[f].report = fin[f].report
        /\ fin'[f].state = fin[f].state /\ fin'[f].secret = fin[f].secret
        /\ \A g \in Finalizers : g # f => fin'[g] = fin[g]
    BY <1>5, <1>a DEF Stage, Finalizing
  <2>3. Established(f)'
    BY <2>1, <2>2 DEF Flow, Files, Established, Running, Shape, PortsBindable
  <2> QED
    BY <2>1, <2>2, <2>3, FinalizeFlow
<1>6. ASSUME NEW f \in Finalizers, Publish(f) PROVE Flow' /\ Grows
  <2>1. UNCHANGED Files
    BY <1>6 DEF Publish, Files
  <2> QED
    BY <1>6, <2>1, RefuseEnds, EndedEstablished, FinalizeFlow DEF Publish, Refuse
<1>7. ASSUME NEW f \in Finalizers, FinalizeStops(f) PROVE Flow' /\ Grows
  <2>1. UNCHANGED Files
    BY <1>7 DEF FinalizeStops, Files
  <2> QED
    BY <1>7, <2>1, RefuseEnds, EndedEstablished, FinalizeFlow DEF FinalizeStops
<1> QED
  BY <1>1, <1>2, <1>3, <1>4, <1>5, <1>6, <1>7 DEF FinalizeStep

\* The steps of the hosts, of assemble and of the operator's hand.
LEMMA OtherStepFlow ==
    ASSUME Records, Flow, Next, ~ FinalizeStep
    PROVE  Flow' /\ Grows /\ sealed' = sealed
<1>a. /\ device \in [Nodes -> Host] /\ dir \in Directory /\ asm \in Assembling
      /\ made \in Nat /\ edits \in Nat /\ dir.secret \in Nat /\ dir.report \in Nat
      /\ dir.state.round \in Nat /\ asm.round \in Nat
  BY CeremonyAssumption DEF Records, Directory, Assembling, StateFile
<1>b. ASSUME Grows, fin' = fin, asm'.next = "none" \/ asm' = asm,
             edits' = 0 => dir'.state.round = dir.state.round /\ dir'.secret = dir.secret
      PROVE  \A f \in Finalizers : Established(f)'
  BY <1>b, EstablishedKeeps DEF Flow, Established
<1>1. ASSUME NEW n \in Nodes, NEW p \in Ports, NodeKeygen(n, p)
      PROVE  Flow' /\ Grows /\ sealed' = sealed
  <2>1. /\ \A m \in Nodes : device'[m].noted = device[m].noted
        /\ \A m \in Nodes : m # n => device'[m] = device[m]
        /\ device'[n].bundle.key = device[n].bundle.key + 1
    BY <1>1, <1>a DEF NodeKeygen, Host
  <2>2. device[n].bundle.key \in Nat
    BY <1>a, CeremonyAssumption DEF Host, Bundle
  <2>3. UNCHANGED <<copy, made, dir, asm, fin, sealed, edits>>
    BY <1>1 DEF NodeKeygen
  <2>4. Grows
    BY <2>1, <2>3 DEF Grows
  <2>5. RoundsMade' /\ AssembleInOrder' /\ FilesAgree'
    BY <2>1, <2>2, <2>3
       DEF Flow, RoundsMade, AssembleInOrder, FilesAgree, Shape, PortsBindable
  <2> QED
    BY <1>b, <2>3, <2>4, <2>5 DEF Flow
<1>2. ASSUME NEW n \in Nodes, NEW b \in BOOLEAN, ShowPreimage(n, b)
      PROVE  Flow' /\ Grows /\ sealed' = sealed
  <2>1. /\ \A m \in Nodes : device[m].noted \subseteq device'[m].noted
        /\ \A m \in Nodes : m # n => device'[m] = device[m]
        /\ ~ device'[n].busy
    BY <1>2, <1>a DEF ShowPreimage, Host
  <2>2. UNCHANGED <<copy, made, dir, asm, fin, sealed, edits>>
    BY <1>2 DEF ShowPreimage
  <2>3. Grows
    BY <2>1, <2>2 DEF Grows
  <2>4. RoundsMade' /\ AssembleInOrder' /\ FilesAgree'
    BY <2>1, <2>2 DEF Flow, RoundsMade, AssembleInOrder, FilesAgree, Shape, PortsBindable
  <2> QED
    BY <1>b, <2>2, <2>3, <2>4 DEF Flow
<1>3. ASSUME NEW n \in Nodes, CopyBundle(n)
      PROVE  Flow' /\ Grows /\ sealed' = sealed
  <2>1. UNCHANGED <<device, made, dir, asm, fin, sealed, edits>>
    BY <1>3 DEF CopyBundle
  <2>2. Grows
    BY <2>1 DEF Grows
  <2>3. RoundsMade' /\ AssembleInOrder' /\ FilesAgree'
    BY <2>1 DEF Flow, RoundsMade, AssembleInOrder, FilesAgree, Shape, PortsBindable
  <2> QED
    BY <1>b, <2>1, <2>2, <2>3 DEF Flow
<1>4. ASSUME NEW n \in Nodes, NEW r \in Rounds, NodeEndorse(n, r)
      PROVE  Flow' /\ Grows /\ sealed' = sealed
  <2>1. /\ dir'.secret = dir.secret /\ dir'.report = dir.report /\ dir'.state = dir.state
        /\ dir'.printed = dir.printed
        /\ \A m \in Nodes : m # n => dir'.endorsed[m] = dir.endorsed[m]
        /\ dir'.endorsed[n].key \in device[n].noted
    BY <1>4, <1>a DEF NodeEndorse, Directory
  <2>2. UNCHANGED <<device, copy, made, asm, fin, sealed, edits>>
    BY <1>4 DEF NodeEndorse
  <2>3. Grows
    BY <2>2 DEF Grows
  <2>4. RoundsMade' /\ AssembleInOrder' /\ FilesAgree'
    BY <2>1, <2>2 DEF Flow, RoundsMade, AssembleInOrder, FilesAgree, Shape, PortsBindable
  <2> QED
    BY <1>b, <2>1, <2>2, <2>3, <2>4 DEF Flow
<1>5. CASE Assemble
  <2>1. /\ made' = made + 1 /\ asm'.round = made' /\ asm'.next = "secret"
        /\ Shape /\ PortsBindable(copy)
        /\ UNCHANGED <<device, copy, dir, fin, sealed, edits>>
        /\ \A f \in Finalizers : ~ Running(f)
    BY <1>5 DEF Assemble, NoFinalize, Running
  <2>2. asm'.state.round = made' /\ asm'.state.nodes = copy
    BY <1>5, NoStateType DEF Assemble, StateFile
  <2>3. Grows
    BY <2>1 DEF Grows
  <2>4. RoundsMade' /\ FilesAgree'
    BY <1>a, <2>1 DEF Flow, RoundsMade, FilesAgree, Shape, PortsBindable
  <2>5. AssembleInOrder'
    BY <1>a, <2>1, <2>2 DEF Flow, RoundsMade, AssembleInOrder, Shape, PortsBindable
  <2>6. \A f \in Finalizers : Established(f)'
    BY <2>1, <2>3, EstablishedKeeps DEF Flow
  <2> QED
    BY <2>1, <2>3, <2>4, <2>5, <2>6 DEF Flow
<1>6. CASE AssembleWrite
  <2>1. /\ UNCHANGED <<device, copy, made, fin, sealed, edits>>
        /\ \A f \in Finalizers : ~ Running(f)
        /\ AssembleInOrder /\ asm.next \in {"secret", "tear", "report", "state"}
        /\ asm.round = made /\ asm.state.round = made
        /\ Shape /\ PortsBindable(asm.state.nodes)
    BY <1>6, <1>a DEF AssembleWrite, Flow, Established, Running, AssembleInOrder, Assembling
  <2>2. /\ asm'.round = asm.round /\ asm'.state = asm.state
        /\ asm'.next = WriteOrder(asm.next)
    BY <1>6, <1>a DEF AssembleWrite, Assembling
  <2>3. /\ asm.next = "secret" => /\ dir'.secret = made /\ dir'.report = dir.report
                                  /\ dir'.state = dir.state
                                  /\ dir'.printed = dir.printed \cup {made}
        /\ asm.next = "tear" => /\ dir'.secret = dir.secret /\ dir'.report = 0
                                /\ dir'.state = dir.state /\ dir'.printed = dir.printed
        /\ asm.next = "report" => /\ dir'.secret = dir.secret /\ dir'.report = made
                                  /\ dir'.state = dir.state /\ dir'.printed = dir.printed
        /\ asm.next = "state" => /\ dir'.secret = dir.secret /\ dir'.report = dir.report
                                 /\ dir'.state = asm.state /\ dir'.printed = dir.printed
        /\ dir'.endorsed = dir.endorsed
    BY <1>6, <1>a, <2>1 DEF AssembleWrite, Directory
  <2>4. Grows
    BY <2>1 DEF Grows
  <2>5. dir.state.round < made
    BY <2>1 DEF AssembleInOrder
  <2>6. RoundsMade'
    BY <1>a, <2>1, <2>2, <2>3, <2>5 DEF Flow, RoundsMade
  <2>7. FilesAgree'
    BY <1>a, <2>1, <2>3, <2>5 DEF Flow, FilesAgree, AssembleInOrder, Shape, PortsBindable
  <2>8. AssembleInOrder'
    BY <1>a, <2>1, <2>2, <2>3, <2>5 DEF AssembleInOrder, WriteOrder, Shape, PortsBindable
  <2>9. \A f \in Finalizers : Established(f)'
    BY <2>1, <2>4, EstablishedKeeps DEF Flow
  <2> QED
    BY <2>1, <2>4, <2>6, <2>7, <2>8, <2>9 DEF Flow
<1>7. CASE AssembleStops
  <2>1. /\ UNCHANGED <<device, copy, made, dir, fin, sealed, edits>>
        /\ asm'.round = asm.round /\ asm'.next = "none"
    BY <1>7, <1>a DEF AssembleStops, Assembling
  <2>2. Grows
    BY <2>1 DEF Grows
  <2>3. RoundsMade' /\ AssembleInOrder' /\ FilesAgree'
    BY <2>1 DEF Flow, RoundsMade, AssembleInOrder, FilesAgree, Shape, PortsBindable
  <2> QED
    BY <1>b, <2>1, <2>2, <2>3 DEF Flow
<1>8. CASE EditState \/ RestoreSecret
  <2>1. /\ UNCHANGED <<device, copy, made, asm, fin, sealed>>
        /\ asm.next = "none" /\ edits' = edits + 1
    BY <1>8 DEF EditState, RestoreSecret, Edit
  <2>2. /\ dir'.secret = dir.secret \/ dir'.secret \in 1 .. made
        /\ dir'.report = dir.report /\ dir'.printed = dir.printed
        /\ dir'.state.round = dir.state.round /\ dir'.state.nodes = dir.state.nodes
        /\ dir'.endorsed = dir.endorsed
    BY <1>8, <1>a DEF EditState, RestoreSecret, Edit, Directory, StateFile
  <2>3. Grows /\ edits' # 0
    BY <1>a, <2>1 DEF Grows
  <2>4. RoundsMade' /\ AssembleInOrder' /\ FilesAgree'
    BY <1>a, <2>1, <2>2, <2>3
       DEF Flow, RoundsMade, AssembleInOrder, FilesAgree, Shape, PortsBindable
  <2> QED
    BY <1>b, <2>1, <2>3, <2>4 DEF Flow
<1> QED
  BY <1>1, <1>2, <1>3, <1>4, <1>5, <1>6, <1>7, <1>8 DEF Next, FinalizeStep

\* The one step that makes a sealed set.
LEMMA PublishSeals ==
    ASSUME Records, Flow, SealedIsWhole, SealedSetIsOneRound, SealedFederationStarts,
           NEW f \in Finalizers, Publish(f), Grows
    PROVE  (SealedIsWhole /\ SealedSetIsOneRound /\ SealedFederationStarts)'
<1>1. CASE sealed # NoSet
  BY <1>1, SealedKeeps DEF Publish
<1>2. CASE sealed = NoSet
  <2>1. /\ sealed'.state = fin[f].state /\ sealed'.secret = fin[f].secret
        /\ sealed'.report = fin[f].report /\ sealed'.whole
        /\ fin[f].pc = "stage" /\ UNCHANGED <<device, edits>>
    <3>1. /\ sealed' = SealedSet(f) /\ fin[f].staged = Artifacts
          /\ fin[f].pc = "stage" /\ UNCHANGED <<device, edits>>
      BY <1>2 DEF Publish
    <3>2. SealedSet(f).whole
      BY <3>1 DEF SealedSet
    <3>3. /\ SealedSet(f).state = fin[f].state /\ SealedSet(f).secret = fin[f].secret
          /\ SealedSet(f).report = fin[f].report
      BY DEF SealedSet
    <3> QED
      BY <3>1, <3>2, <3>3
  <2>2. /\ fin[f].secret = fin[f].state.round
        /\ edits = 0 => fin[f].report = fin[f].state.round
        /\ fin[f].state.bound = "own" /\ Shape /\ PortsBindable(fin[f].state.nodes)
        /\ \A n \in Nodes : fin[f].state.nodes[n].key \in device[n].noted
    BY <2>1 DEF Flow, Established, Running
  <2>3. SealedIsWhole'
    BY <2>1 DEF SealedIsWhole
  <2>4. SealedSetIsOneRound'
    BY <2>1, <2>2 DEF SealedSetIsOneRound
  <2>5. SealedFederationStarts'
    BY <2>1, <2>2 DEF SealedFederationStarts, Loads, Shape, PortsBindable
  <2> QED
    BY <2>3, <2>4, <2>5
<1> QED
  BY <1>1, <1>2

LEMMA CeremonyStep == CeremonyInv /\ [Next]_vars => CeremonyInv'
<1> SUFFICES ASSUME CeremonyInv, [Next]_vars PROVE CeremonyInv'
  OBVIOUS
<1>1. Records'
  BY RecordsStep DEF CeremonyInv
<1>2. Records /\ Flow /\ SealedIsWhole /\ SealedSetIsOneRound /\ SealedFederationStarts
  BY DEF CeremonyInv, Flow
<1>3. CASE FinalizeStep
  <2>1. Flow' /\ Grows
    BY <1>2, <1>3, FinalizeStepFlow
  <2>2. sealed' = sealed \/ \E f \in Finalizers : Publish(f)
    BY <1>3 DEF FinalizeStep, Finalize, CheckSecret, CheckManifest, ReadReport, Stage,
                FinalizeStops
  <2>3. (SealedIsWhole /\ SealedSetIsOneRound /\ SealedFederationStarts)'
    BY <1>2, <2>1, <2>2, SealedKeeps, PublishSeals
  <2> QED
    BY <1>1, <2>1, <2>3 DEF CeremonyInv, Flow
<1>4. CASE Next /\ ~ FinalizeStep
  <2>1. Flow' /\ Grows /\ sealed' = sealed
    BY <1>2, <1>4, OtherStepFlow
  <2> QED
    BY <1>1, <1>2, <2>1, SealedKeeps DEF CeremonyInv, Flow
<1>5. CASE UNCHANGED vars
  <2>1. Grows /\ sealed' = sealed
    BY <1>5 DEF vars, Grows
  <2>2. \A f \in Finalizers : Established(f)'
    BY <1>2, <1>5, <2>1, EstablishedKeeps DEF vars, Flow, Established
  <2>3. RoundsMade' /\ AssembleInOrder' /\ FilesAgree'
    BY <1>2, <1>5
       DEF vars, Flow, RoundsMade, AssembleInOrder, FilesAgree, Shape, PortsBindable
  <2> QED
    BY <1>1, <1>2, <2>1, <2>2, <2>3, SealedKeeps DEF CeremonyInv
<1> QED
  BY <1>3, <1>4, <1>5

LEMMA CeremonyInit == Init => CeremonyInv
<1> SUFFICES ASSUME Init PROVE CeremonyInv
  OBVIOUS
<1>1. Records
  BY RecordsInit
<1>2. RoundsMade /\ AssembleInOrder
  BY DEF Init, RoundsMade, AssembleInOrder, NoState, NoBundle
<1>3. FilesAgree
  BY DEF Init, FilesAgree, NoState, NoEndorsement
<1>4. \A f \in Finalizers : Established(f)
  BY DEF Init, Established, Running, Idle
<1>5. SealedIsWhole /\ SealedSetIsOneRound /\ SealedFederationStarts
  BY DEF Init, SealedIsWhole, SealedSetIsOneRound, SealedFederationStarts
<1> QED
  BY <1>1, <1>2, <1>3, <1>4, <1>5 DEF CeremonyInv

-----------------------------------------------------------------------------
(* The theorems.                                                             *)

\* The inductive invariant holds: what the files say between two writes of
\* assemble_cmd, and what finalize_cmd has established at each of its checks.
THEOREM CeremonyInductive == Spec => []CeremonyInv
  BY CeremonyInit, CeremonyStep, PTL DEF Spec

\* publish_artifact_set and the write order of assemble_cmd: a sealed set is whole, its
\* secret is that of its state, and so is its report unless the files were edited by
\* hand, for any number of interrupted and repeated runs of both commands.
THEOREM SealedInvHolds == Spec => []SealedInv
<1>1. CeremonyInv => TypeOK
  <2> SUFFICES ASSUME CeremonyInv PROVE TypeOK
    OBVIOUS
  <2>1. /\ device \in [Nodes -> Host] /\ copy \in [Nodes -> Bundle]
        /\ made \in 0 .. MaxRounds /\ made \in Nat /\ edits \in 0 .. MaxEdits
        /\ dir \in Directory /\ asm \in Assembling /\ fin \in [Finalizers -> Finalizing]
    BY CeremonyAssumption DEF CeremonyInv, Records
  <2>2. /\ dir.secret \in 0 .. made /\ dir.report \in 0 .. made
        /\ dir.state.round \in 0 .. made /\ dir.printed \subseteq 1 .. made
        /\ asm.round \in 0 .. made
        /\ asm.next \in {"none", "secret", "tear", "report", "state"}
    BY <2>1 DEF CeremonyInv, RoundsMade, Directory, Assembling, StateFile
  <2>3. \A f \in Finalizers :
           /\ fin[f].pc \in {"idle", "secret", "manifest", "report", "stage", "done",
                             "refused", "stopped"}
           /\ fin[f].staged \in 0 .. Artifacts
    BY <2>1 DEF Finalizing
  <2> QED
    BY <2>1, <2>2, <2>3 DEF TypeOK, Host
<1>2. CeremonyInv => SealedInv
  BY <1>1 DEF CeremonyInv, SealedInv
<1> QED
  BY <1>2, CeremonyInductive, PTL

\* A sealed federation can start: every node has a preimage, shown to its operator, with
\* which the checks of Node::from_toml_str and ChannelState::build on what the manifest
\* freezes pass, whatever was generated anew, copied late or edited.
THEOREM SealedFederationStartsHolds == Spec => []SealedFederationStarts
<1>1. CeremonyInv => SealedFederationStarts
  BY DEF CeremonyInv
<1> QED
  BY <1>1, CeremonyInductive, PTL

\* "finalize never accepts, merges, or overwrites a sealed artifact set": no step of
\* any command changes sealed/ once it is there.
THEOREM SealedIsFinalHolds == Spec => SealedIsFinal
<1>1. [Next]_vars => [sealed # NoSet => sealed' = sealed]_vars
  <2> SUFFICES ASSUME Next, sealed # NoSet PROVE sealed' = sealed
    OBVIOUS
  <2> QED
    BY DEF Next, NodeKeygen, ShowPreimage, CopyBundle, NodeEndorse, Assemble,
           AssembleWrite, AssembleStops, EditState, RestoreSecret, Edit, Finalize,
           CheckSecret, CheckManifest, ReadReport, Stage, Publish, FinalizeStops
<1> QED
  BY <1>1, PTL DEF Spec, SealedIsFinal

=============================================================================
