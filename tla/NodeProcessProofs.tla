------------------------- MODULE NodeProcessProofs -------------------------
(***************************************************************************)
(* Proofs about NodeProcess, for any number of starts and requests, any    *)
(* delay and heartbeat resolution, and any number of panics and power      *)
(* losses.                                                                 *)
(*                                                                         *)
(* None of the safety properties is inductive.  OneGeneration rests on the *)
(* port, which serializes the claim and its sync, and on the mark being    *)
(* durable before a process serves; NothingAfterLockdown on who can latch  *)
(* while a request holds sign_state; HeartbeatPastDeadline on what each    *)
(* stage of a tick has already seen.                                       *)
(***************************************************************************)
EXTENDS NodeProcess, TLAPS

\* The drivers and the requests run only in the process that has the port.
RunsOnPort ==
    /\ \A p \in Procs : Drives(p) => p \in port
    /\ \A p \in Procs : proc[p].pc = "serving" => proc[p].served
    /\ \A j \in Jobs : job[j].pc \notin {"none", "done"} =>
          proc[job[j].owner].pc = "serving"

\* A process that serves has made the generation mark durable; one that has
\* created the mark and not synced it is the first.
MarkIsDurable ==
    /\ \A p \in Procs : proc[p].served => inode.gen /\ disk.gen
    /\ \A p \in Procs : proc[p].pc = "syncClaim" =>
          inode.gen /\ \A q \in Procs : ~ proc[q].served

\* A process runs only on storage it may run on, and volatile storage does not
\* outlive the power.
StorageAllows ==
    /\ \A p \in Procs : Live(p) => Volatile
    /\ powers > 0 /\ ~ durable => ~ inode.there /\ \A p \in Procs : ~ Live(p)

\* A request inside its hold has sign_state, which is then not poisoned; one that
\* registers while the node is locked will find the store poisoned.
HoldsSignState ==
    \A j \in Jobs : job[j].pc = "in" =>
        /\ job[j].kind # "channel"
        /\ proc[job[j].owner].sign = j /\ ~ proc[job[j].owner].signPoison
        /\ job[j].kind = "sign" /\ proc[job[j].owner].locked =>
              proc[job[j].owner].storePoison

\* What p's tick has seen by the time it is in each of its stages.
TickSeen(p) ==
    LET s == proc[p] IN
    /\ ~ Drives(p) => s.tick = "wait" /\ s.armed = 0
    /\ s.beat <= now /\ s.tickNow <= now
    /\ s.tick # "wait" => s.beat <= s.tickNow
    /\ s.armed # 0 /\ s.beat >= s.armed /\ s.tick \in {"wait", "end"} =>
          s.locked \/ (s.tick = "end" /\ Poisoned(p))

TickHasSeen == \A p \in Procs : TickSeen(p)

IInv == /\ TypeOK /\ RunsOnPort /\ MarkIsDurable /\ StorageAllows
        /\ HoldsSignState /\ TickHasSeen
        /\ OneGeneration /\ OnePendingRead

-----------------------------------------------------------------------------
(* Types.                                                                    *)

\* The heartbeat's bucket is not in the future.
LEMMA BucketBelow == ASSUME NEW t \in Nat PROVE Bucket(t) \in 0 .. t
  BY ProcessAssumption DEF Bucket

LEMMA NewProcType == NewProc \in ProcState
  BY ProcessAssumption DEF NewProc, ProcState

LEMMA NoJobType == NoJob \in JobState
  BY ProcessAssumption DEF NoJob, JobState, Kinds

\* The updates of several fields that the actions make.
LEMMA ProcUpdates ==
    ASSUME NEW s \in ProcState, NEW b \in BOOLEAN,
           NEW t \in 0 .. MaxTime, NEW u \in 0 .. MaxTime
    PROVE  /\ [s EXCEPT !.pc = "create", !.locked = b] \in ProcState
           /\ [s EXCEPT !.pc = "bind", !.locked = b] \in ProcState
           /\ [s EXCEPT !.pc = "serving", !.claimed = TRUE, !.served = TRUE] \in ProcState
           /\ [s EXCEPT !.tick = "poll", !.tickNow = t, !.beat = u] \in ProcState
           /\ [s EXCEPT !.storePoison = TRUE] \in ProcState
           /\ [s EXCEPT !.locked = TRUE] \in ProcState
           /\ [s EXCEPT !.sign = "free", !.signPoison = TRUE, !.storePoison = b]
                 \in ProcState
<1>1. [s EXCEPT !.pc = "create", !.locked = b] \in ProcState
  BY DEF ProcState
<1>2. [s EXCEPT !.pc = "bind", !.locked = b] \in ProcState
  BY DEF ProcState
<1>3. [s EXCEPT !.pc = "serving", !.claimed = TRUE, !.served = TRUE] \in ProcState
  BY DEF ProcState
<1>4. [s EXCEPT !.tick = "poll", !.tickNow = t, !.beat = u] \in ProcState
  BY DEF ProcState
<1>5. [s EXCEPT !.storePoison = TRUE] \in ProcState
  BY DEF ProcState
<1>6. [s EXCEPT !.locked = TRUE] \in ProcState
  BY DEF ProcState
<1>7. [s EXCEPT !.sign = "free", !.signPoison = TRUE, !.storePoison = b] \in ProcState
  BY DEF ProcState
<1> QED
  BY <1>1, <1>2, <1>3, <1>4, <1>5, <1>6, <1>7

LEMMA GoneType ==
    ASSUME TypeOK, NEW P \in SUBSET Procs, Gone(P)
    PROVE  /\ proc' \in [Procs -> ProcState]
           /\ job' \in [Jobs -> JobState]
           /\ port' \subseteq port
<1>1. proc \in [Procs -> ProcState] /\ job \in [Jobs -> JobState]
  BY DEF TypeOK
<1>2. \A p \in Procs : [NewProc EXCEPT !.pc = "dead", !.locked = proc[p].locked,
                                       !.served = proc[p].served] \in ProcState
  BY <1>1, NewProcType DEF ProcState
<1>3. \A j \in Jobs : Over(j) \in JobState
  BY <1>1, NoJobType DEF JobState, Over
<1> QED
  BY <1>1, <1>2, <1>3 DEF Gone

LEMMA TypeStep == TypeOK /\ [Next]_vars => TypeOK'
<1> SUFFICES ASSUME TypeOK, [Next]_vars PROVE TypeOK'
  OBVIOUS
<1>a. proc \in [Procs -> ProcState] /\ job \in [Jobs -> JobState]
      /\ inode \in Attributes /\ disk \in Attributes
  BY DEF TypeOK
<1>b. now \in 1 .. MaxTime /\ now \in Nat /\ now \in 0 .. MaxTime
      /\ now + Delay \in 0 .. MaxTime + Delay /\ Bucket(now) \in 0 .. MaxTime
  BY ProcessAssumption, BucketBelow DEF TypeOK
<1>c. \A j \in Jobs : Over(j) \in JobState
  BY <1>a, NoJobType DEF JobState, Over
<1>1. ASSUME NEW p \in Procs, Open(p) PROVE TypeOK'
  <2>1. proc' \in [Procs -> ProcState]
    BY <1>1, <1>a DEF Open, ProcState
  <2> QED
    BY <1>1, <1>a, <2>1 DEF Open, fsVars, TypeOK
<1>2. ASSUME NEW p \in Procs, ReadLatch(p) PROVE TypeOK'
  <2>1. proc' \in [Procs -> ProcState]
    <3>1. \A b \in BOOLEAN :
             /\ [proc[p] EXCEPT !.pc = "create", !.locked = b] \in ProcState
             /\ [proc[p] EXCEPT !.pc = "bind", !.locked = b] \in ProcState
      BY <1>a, <1>b, ProcUpdates
    <3>2. proc' = [proc EXCEPT ![p] =
             [proc[p] EXCEPT !.pc = IF inode.lock = "absent" THEN "create" ELSE "bind",
                             !.locked = (inode.lock = "locked")]]
      BY <1>2, <1>a DEF ReadLatch
    <3> QED
      BY <1>a, <3>1, <3>2
  <2> QED
    BY <1>2, <1>a, <2>1 DEF ReadLatch, fsVars, TypeOK
<1>3. ASSUME NEW p \in Procs, CreateLatch(p) PROVE TypeOK'
  <2>1. proc' \in [Procs -> ProcState]
    BY <1>3, <1>a DEF CreateLatch, ProcState
  <2>2. inode' \in Attributes /\ disk' \in Attributes
    BY <1>3, <1>a DEF CreateLatch, Attributes
  <2> QED
    BY <1>3, <1>a, <2>1, <2>2 DEF CreateLatch, fsVars, TypeOK
<1>4. ASSUME NEW p \in Procs, SyncLatch(p) PROVE TypeOK'
  <2>1. proc' \in [Procs -> ProcState]
    BY <1>4, <1>a DEF SyncLatch, ProcState
  <2>2. inode' \in Attributes /\ disk' \in Attributes
    BY <1>4, <1>a DEF SyncLatch, Attributes
  <2> QED
    BY <1>4, <1>a, <2>1, <2>2 DEF SyncLatch, fsVars, TypeOK
<1>5. ASSUME NEW p \in Procs, Bind(p) PROVE TypeOK'
  <2>1. CASE Gone({p})
    BY <1>5, <2>1, GoneType DEF Bind, fsVars, TypeOK
  <2>2. CASE ~ Gone({p})
    <3>1. proc' \in [Procs -> ProcState]
      BY <1>5, <1>a, <2>2 DEF Bind, ProcState
    <3>2. inode' \in Attributes
      BY <1>5, <1>a DEF Bind, fsVars
    <3> QED
      BY <1>5, <2>2, <3>1, <3>2 DEF Bind, fsVars, TypeOK
  <2> QED
    BY <2>1, <2>2
<1>6. ASSUME NEW p \in Procs, Claim(p) PROVE TypeOK'
  <2>1. CASE Gone({p})
    <3>1. inode' \in Attributes
      BY <1>6, <1>a DEF Claim, Attributes
    <3> QED
      BY <1>6, <2>1, <3>1, GoneType DEF Claim, TypeOK
  <2>2. CASE ~ Gone({p})
    <3>1. proc' \in [Procs -> ProcState]
      BY <1>6, <1>a, <2>2 DEF Claim, ProcState
    <3>2. inode' \in Attributes
      BY <1>6, <1>a, <2>2 DEF Claim, Attributes
    <3> QED
      BY <1>6, <2>2, <3>1, <3>2 DEF Claim, fsVars, TypeOK
  <2> QED
    BY <2>1, <2>2
<1>7. ASSUME NEW p \in Procs, SyncClaim(p) PROVE TypeOK'
  <2>1. proc' \in [Procs -> ProcState]
    <3>1. [proc[p] EXCEPT !.pc = "serving", !.claimed = TRUE, !.served = TRUE]
             \in ProcState
      BY <1>a, <1>b, ProcUpdates
    <3> QED
      BY <1>7, <1>a, <3>1 DEF SyncClaim
  <2>2. inode' \in Attributes /\ disk' \in Attributes
    BY <1>7, <1>a DEF SyncClaim, Attributes
  <2> QED
    BY <1>7, <1>a, <2>1, <2>2 DEF SyncClaim, fsVars, TypeOK
<1>8. ASSUME NEW p \in Procs, TickStart(p) PROVE TypeOK'
  <2>1. proc' \in [Procs -> ProcState]
    <3>1. \A t, b \in 0 .. MaxTime :
             [proc[p] EXCEPT !.tick = "poll", !.tickNow = t, !.beat = b] \in ProcState
      BY <1>a, ProcUpdates
    <3>2. proc[p].beat \in 0 .. MaxTime
      BY <1>a DEF ProcState
    <3> QED
      BY <1>8, <1>a, <1>b, <3>1, <3>2 DEF TickStart
  <2> QED
    BY <1>8, <1>a, <2>1 DEF TickStart, fsVars, TypeOK
<1>9. ASSUME NEW p \in Procs, TickPoll(p) PROVE TypeOK'
  <2>1. proc' \in [Procs -> ProcState]
    BY <1>9, <1>a, <1>b DEF TickPoll, ProcState
  <2> QED
    BY <1>9, <1>a, <2>1 DEF TickPoll, fsVars, TypeOK
<1>10. ASSUME NEW p \in Procs, TickEnter(p) PROVE TypeOK'
  <2>1. proc' \in [Procs -> ProcState]
    BY <1>10, <1>a DEF TickEnter, Latch, ProcState
  <2>2. inode' \in Attributes /\ disk' \in Attributes
    BY <1>10, <1>a DEF TickEnter, Latch, Attributes
  <2> QED
    BY <1>10, <1>a, <2>1, <2>2 DEF TickEnter, fsVars, TypeOK
<1>11. ASSUME NEW p \in Procs, TickEnd(p) PROVE TypeOK'
  <2>1. proc' \in [Procs -> ProcState]
    BY <1>11, <1>a, <1>b, ProcessAssumption DEF TickEnd, Net, Latch, ProcState
  <2>2. inode' \in Attributes /\ disk' \in Attributes
    BY <1>11, <1>a DEF TickEnd, Net, Latch, Attributes
  <2> QED
    BY <1>11, <1>a, <2>1, <2>2 DEF TickEnd, fsVars, TypeOK
<1>12. ASSUME NEW p \in Procs, FirePass(p) PROVE TypeOK'
  <2>1. proc' \in [Procs -> ProcState]
    BY <1>12, <1>a DEF FirePass, ProcState
  <2> QED
    BY <1>12, <1>a, <2>1, ProcessAssumption DEF FirePass, fsVars, TypeOK
<1>13. ASSUME NEW p \in Procs, FireEnd(p) PROVE TypeOK'
  <2>1. proc' \in [Procs -> ProcState]
    BY <1>13, <1>a DEF FireEnd, Net, Latch, ProcState
  <2>2. inode' \in Attributes /\ disk' \in Attributes
    BY <1>13, <1>a DEF FireEnd, Net, Latch, Attributes
  <2> QED
    BY <1>13, <1>a, <2>1, <2>2 DEF FireEnd, fsVars, TypeOK
<1>14. ASSUME NEW p \in Procs, Crash(p) PROVE TypeOK'
  BY <1>14, GoneType DEF Crash, fsVars, TypeOK
<1>15. ASSUME NEW j \in Jobs, Precheck(j) PROVE TypeOK'
  <2>1. job' \in [Jobs -> JobState]
    BY <1>15, <1>a, <1>c DEF Precheck, JobState
  <2> QED
    BY <1>15, <1>a, <2>1 DEF Precheck, fsVars, TypeOK
<1>16. ASSUME NEW j \in Jobs, Enter(j) PROVE TypeOK'
  <2>1. job[j].owner \in Procs
    BY <1>a DEF JobState
  <2>2. proc' \in [Procs -> ProcState]
    BY <1>16, <1>a, <2>1 DEF Enter, ProcState
  <2>3. job' \in [Jobs -> JobState]
    BY <1>16, <1>a, <1>c DEF Enter, JobState
  <2> QED
    BY <1>16, <1>a, <2>1, <2>2, <2>3 DEF Enter, fsVars, TypeOK
<1>17. ASSUME NEW j \in Jobs, Leave(j) PROVE TypeOK'
  <2>1. job[j].owner \in Procs
    BY <1>a DEF JobState
  <2>2. proc' \in [Procs -> ProcState]
    BY <1>17, <1>a, <1>b, <2>1 DEF Leave, ProcState
  <2>3. job' \in [Jobs -> JobState]
    BY <1>17, <1>a, <1>c DEF Leave, JobState
  <2> QED
    BY <1>17, <1>a, <2>1, <2>2, <2>3 DEF Leave, fsVars, TypeOK
<1>18. ASSUME NEW j \in Jobs, Partial(j) PROVE TypeOK'
  <2>1. job[j].owner \in Procs
    BY <1>a DEF JobState
  <2>2. proc' \in [Procs -> ProcState]
    <3>1. [proc[job[j].owner] EXCEPT !.storePoison = TRUE] \in ProcState
      BY <1>a, <1>b, <2>1, ProcUpdates
    <3> QED
      BY <1>18, <1>a, <2>1, <3>1 DEF Partial
  <2>3. job' \in [Jobs -> JobState]
    BY <1>18, <1>a, <1>c DEF Partial, JobState
  <2> QED
    BY <1>18, <1>a, <2>1, <2>2, <2>3, ProcessAssumption DEF Partial, fsVars, TypeOK
<1>19. ASSUME NEW j \in Jobs, JobNet(j) PROVE TypeOK'
  <2>1. job[j].owner \in Procs
    BY <1>a DEF JobState
  <2>2. proc' \in [Procs -> ProcState]
    <3>1. [proc[job[j].owner] EXCEPT !.locked = TRUE] \in ProcState
      BY <1>a, <1>b, <2>1, ProcUpdates
    <3> QED
      BY <1>19, <1>a, <2>1, <3>1 DEF JobNet, Net, Latch
  <2>3. job' \in [Jobs -> JobState]
    BY <1>19, <1>a, <1>c DEF JobNet, JobState
  <2>4. inode' \in Attributes /\ disk' \in Attributes
    BY <1>19, <1>a DEF JobNet, Net, Latch, Attributes
  <2> QED
    BY <1>19, <1>a, <2>1, <2>2, <2>3, <2>4 DEF JobNet, fsVars, TypeOK
<1>20. ASSUME NEW j \in Jobs, Propagate(j) PROVE TypeOK'
  <2>1. job[j].owner \in Procs
    BY <1>a DEF JobState
  <2>2. proc' \in [Procs -> ProcState]
    BY <1>20, <1>a, <2>1 DEF Propagate, Net, Latch, ProcState
  <2>3. job' \in [Jobs -> JobState]
    BY <1>20, <1>a, <1>c DEF Propagate, JobState
  <2>4. inode' \in Attributes /\ disk' \in Attributes
    BY <1>20, <1>a DEF Propagate, Net, Latch, Attributes
  <2> QED
    <3>1. proc[job[j].owner].outbox \subseteq Jobs
      BY <1>a, <2>1 DEF ProcState
    <3> QED
      BY <1>20, <2>2, <2>3, <2>4, <3>1 DEF Propagate, TypeOK
<1>21. ASSUME NEW j \in Jobs, Panic(j) PROVE TypeOK'
  <2>1. job[j].owner \in Procs
    BY <1>a DEF JobState
  <2>2. proc' \in [Procs -> ProcState]
    <3>1. \A b \in BOOLEAN :
             [proc[job[j].owner] EXCEPT !.sign = "free", !.signPoison = TRUE,
                                        !.storePoison = b] \in ProcState
      BY <1>a, <1>b, <2>1, ProcUpdates
    <3> QED
      BY <1>21, <1>a, <2>1, <3>1 DEF Panic
  <2>3. job' \in [Jobs -> JobState]
    BY <1>21, <1>a, <1>c DEF Panic, JobState
  <2> QED
    BY <1>21, <1>a, <2>1, <2>2, <2>3, ProcessAssumption DEF Panic, fsVars, TypeOK
<1>22. ASSUME NEW j \in Jobs, HandlerEnds(j) PROVE TypeOK'
  <2>1. job' \in [Jobs -> JobState]
    BY <1>22, <1>a, <1>c DEF HandlerEnds, JobState
  <2> QED
    BY <1>22, <1>a, <2>1 DEF HandlerEnds, fsVars, TypeOK
<1>23. ASSUME NEW p \in Procs, NEW j \in Jobs, NEW k \in Kinds, Arrive(p, j, k)
      PROVE  TypeOK'
  <2>1. job' \in [Jobs -> JobState]
    <3>1. /\ [pc |-> "queued", kind |-> k, owner |-> p, client |-> TRUE] \in JobState
          /\ [NoJob EXCEPT !.pc = "done", !.owner = p] \in JobState
      BY NoJobType DEF JobState
    <3> QED
      BY <1>23, <1>a, <3>1 DEF Arrive
  <2> QED
    BY <1>23, <1>a, <2>1 DEF Arrive, fsVars, TypeOK
<1>24. CASE PowerLoss
  <2>1. inode' \in Attributes
    BY <1>24, <1>a DEF PowerLoss, Attributes
  <2> QED
    BY <1>24, <2>1, GoneType, ProcessAssumption DEF PowerLoss, TypeOK
<1>25. CASE Tick
  BY <1>25, ProcessAssumption DEF Tick, fsVars, TypeOK
<1>26. CASE UNCHANGED vars
  BY <1>26 DEF vars, fsVars, TypeOK
<1> QED
  BY <1>1, <1>2, <1>3, <1>4, <1>5, <1>6, <1>7, <1>8, <1>9, <1>10, <1>11, <1>12,
     <1>13, <1>14, <1>15, <1>16, <1>17, <1>18, <1>19, <1>20, <1>21, <1>22, <1>23,
     <1>24, <1>25, <1>26 DEF Next, Starts, Runs, Drivers

-----------------------------------------------------------------------------
(* The inductive step.                                                        *)

\* What every step of a driver or a request leaves alone, and a step of the clock.
RunKeeps ==
    /\ \A p \in Procs : proc'[p].pc = proc[p].pc /\ proc'[p].served = proc[p].served
    /\ inode'.gen = inode.gen /\ inode'.there = inode.there
    /\ disk'.gen \in {disk.gen, inode.gen}
    /\ \A j \in Jobs :
          /\ job'[j].pc \notin {"none", "done"} =>
                job[j].pc \notin {"none", "done"} /\ job'[j].owner = job[j].owner
          /\ ReadsPending(j)' => ReadsPending(j)
    /\ UNCHANGED <<port, durable, override, powers>>

RunStep ==
    \/ \E p \in Procs : Drivers(p)
    \/ \E j \in Jobs : Runs(j) \/ Panic(j) \/ HandlerEnds(j)
    \/ Tick \/ UNCHANGED vars

\* What the end of processes does.
GoneEffect(P) ==
    /\ port' = port \ P
    /\ \A p \in Procs :
          /\ p \notin P => proc'[p] = proc[p]
          /\ p \in P => /\ proc'[p].pc = "dead" /\ proc'[p].tick = "wait"
                        /\ proc'[p].armed = 0 /\ proc'[p].beat = 0
                        /\ proc'[p].tickNow = 0 /\ proc'[p].outbox = {}
                        /\ proc'[p].locked = proc[p].locked
                        /\ proc'[p].served = proc[p].served
    /\ \A j \in Jobs :
          IF job[j].pc # "none" /\ job[j].owner \in P
          THEN job'[j].pc = "done" ELSE job'[j] = job[j]

LEMMA GoneHasEffect ==
    ASSUME TypeOK, NEW P \in SUBSET Procs, Gone(P)
    PROVE  GoneEffect(P)
<1>1. proc \in [Procs -> ProcState] /\ job \in [Jobs -> JobState]
  BY DEF TypeOK
<1> QED
  BY <1>1 DEF Gone, GoneEffect, NewProc, Over, NoJob

LEMMA RunStepKeeps ==
    ASSUME TypeOK, RunStep
    PROVE  RunKeeps
<1>a. /\ proc \in [Procs -> ProcState] /\ job \in [Jobs -> JobState]
      /\ \A j \in Jobs : job[j].owner \in Procs
      /\ inode \in Attributes /\ disk \in Attributes
  BY DEF TypeOK, JobState
<1>1. ASSUME NEW p \in Procs, TickStart(p) PROVE RunKeeps
  <2>1. \A q \in Procs : proc'[q].pc = proc[q].pc /\ proc'[q].served = proc[q].served
    BY <1>1, <1>a DEF TickStart, ProcState
  <2> QED
    BY <1>1, <1>a, <2>1 DEF TickStart, RunKeeps, ReadsPending, fsVars
<1>2. ASSUME NEW p \in Procs, TickPoll(p) PROVE RunKeeps
  <2>1. \A q \in Procs : proc'[q].pc = proc[q].pc /\ proc'[q].served = proc[q].served
    BY <1>2, <1>a DEF TickPoll, ProcState
  <2> QED
    BY <1>2, <1>a, <2>1 DEF TickPoll, RunKeeps, ReadsPending, fsVars
<1>3. ASSUME NEW p \in Procs, TickEnter(p) PROVE RunKeeps
  <2>1. \A q \in Procs : proc'[q].pc = proc[q].pc /\ proc'[q].served = proc[q].served
    BY <1>3, <1>a DEF TickEnter, Latch, ProcState
  <2>2. /\ inode'.gen = inode.gen /\ inode'.there = inode.there
        /\ disk'.gen \in {disk.gen, inode.gen}
    BY <1>3, <1>a DEF TickEnter, Latch, Attributes
  <2> QED
    BY <1>3, <1>a, <2>1, <2>2 DEF TickEnter, RunKeeps, ReadsPending, fsVars
<1>4. ASSUME NEW p \in Procs, TickEnd(p) PROVE RunKeeps
  <2>1. \A q \in Procs : proc'[q].pc = proc[q].pc /\ proc'[q].served = proc[q].served
    BY <1>4, <1>a DEF TickEnd, Net, Latch, ProcState
  <2>2. /\ inode'.gen = inode.gen /\ inode'.there = inode.there
        /\ disk'.gen \in {disk.gen, inode.gen}
    BY <1>4, <1>a DEF TickEnd, Net, Latch, Attributes
  <2> QED
    BY <1>4, <1>a, <2>1, <2>2 DEF TickEnd, RunKeeps, ReadsPending, fsVars
<1>5. ASSUME NEW p \in Procs, FirePass(p) PROVE RunKeeps
  <2>1. \A q \in Procs : proc'[q].pc = proc[q].pc /\ proc'[q].served = proc[q].served
    BY <1>5, <1>a DEF FirePass, ProcState
  <2> QED
    BY <1>5, <1>a, <2>1 DEF FirePass, RunKeeps, ReadsPending, fsVars
<1>6. ASSUME NEW p \in Procs, FireEnd(p) PROVE RunKeeps
  <2>1. \A q \in Procs : proc'[q].pc = proc[q].pc /\ proc'[q].served = proc[q].served
    BY <1>6, <1>a DEF FireEnd, Net, Latch, ProcState
  <2>2. /\ inode'.gen = inode.gen /\ inode'.there = inode.there
        /\ disk'.gen \in {disk.gen, inode.gen}
    BY <1>6, <1>a DEF FireEnd, Net, Latch, Attributes
  <2> QED
    BY <1>6, <1>a, <2>1, <2>2 DEF FireEnd, RunKeeps, ReadsPending, fsVars
<1>7. ASSUME NEW j \in Jobs, Precheck(j) PROVE RunKeeps
  <2>1. \A q \in Procs : proc'[q].pc = proc[q].pc /\ proc'[q].served = proc[q].served
    BY <1>7, <1>a DEF Precheck, ProcState
  <2> QED
    BY <1>7, <1>a, <2>1 DEF Precheck, RunKeeps, ReadsPending, fsVars, JobState, NoJob, Over
<1>8. ASSUME NEW j \in Jobs, Enter(j) PROVE RunKeeps
  <2>1. \A q \in Procs : proc'[q].pc = proc[q].pc /\ proc'[q].served = proc[q].served
    BY <1>8, <1>a DEF Enter, ProcState
  <2> QED
    BY <1>8, <1>a, <2>1 DEF Enter, RunKeeps, ReadsPending, fsVars, JobState, NoJob, Over
<1>9. ASSUME NEW j \in Jobs, Leave(j) PROVE RunKeeps
  <2>1. \A q \in Procs : proc'[q].pc = proc[q].pc /\ proc'[q].served = proc[q].served
    BY <1>9, <1>a DEF Leave, ProcState
  <2> QED
    BY <1>9, <1>a, <2>1 DEF Leave, RunKeeps, ReadsPending, fsVars, JobState, NoJob, Over
<1>10. ASSUME NEW j \in Jobs, Partial(j) PROVE RunKeeps
  <2>1. \A q \in Procs : proc'[q].pc = proc[q].pc /\ proc'[q].served = proc[q].served
    BY <1>10, <1>a DEF Partial, ProcState
  <2> QED
    BY <1>10, <1>a, <2>1 DEF Partial, RunKeeps, ReadsPending, fsVars, JobState, NoJob, Over
<1>11. ASSUME NEW j \in Jobs, JobNet(j) PROVE RunKeeps
  <2>1. \A q \in Procs : proc'[q].pc = proc[q].pc /\ proc'[q].served = proc[q].served
    BY <1>11, <1>a DEF JobNet, Net, Latch, ProcState
  <2>2. /\ inode'.gen = inode.gen /\ inode'.there = inode.there
        /\ disk'.gen \in {disk.gen, inode.gen}
    BY <1>11, <1>a DEF JobNet, Net, Latch, Attributes
  <2> QED
    BY <1>11, <1>a, <2>1, <2>2 DEF JobNet, RunKeeps, ReadsPending, fsVars, JobState, NoJob, Over
<1>12. ASSUME NEW j \in Jobs, Propagate(j) PROVE RunKeeps
  <2>1. \A q \in Procs : proc'[q].pc = proc[q].pc /\ proc'[q].served = proc[q].served
    BY <1>12, <1>a DEF Propagate, Net, Latch, ProcState
  <2>2. /\ inode'.gen = inode.gen /\ inode'.there = inode.there
        /\ disk'.gen \in {disk.gen, inode.gen}
    BY <1>12, <1>a DEF Propagate, Net, Latch, Attributes
  <2> QED
    BY <1>12, <1>a, <2>1, <2>2 DEF Propagate, RunKeeps, ReadsPending, fsVars, JobState,
       NoJob, Over
<1>13. ASSUME NEW j \in Jobs, Panic(j) PROVE RunKeeps
  <2>1. \A q \in Procs : proc'[q].pc = proc[q].pc /\ proc'[q].served = proc[q].served
    BY <1>13, <1>a DEF Panic, ProcState
  <2> QED
    BY <1>13, <1>a, <2>1 DEF Panic, RunKeeps, ReadsPending, fsVars, JobState, NoJob, Over
<1>14. ASSUME NEW j \in Jobs, HandlerEnds(j) PROVE RunKeeps
  <2>1. \A q \in Procs : proc'[q].pc = proc[q].pc /\ proc'[q].served = proc[q].served
    BY <1>14, <1>a DEF HandlerEnds, ProcState
  <2> QED
    BY <1>14, <1>a, <2>1 DEF HandlerEnds, RunKeeps, ReadsPending, fsVars, JobState, NoJob, Over
<1>15. CASE Tick \/ UNCHANGED vars
  BY <1>15 DEF Tick, vars, fsVars, RunKeeps, ReadsPending
<1> QED
  BY <1>1, <1>2, <1>3, <1>4, <1>5, <1>6, <1>7, <1>8, <1>9, <1>10, <1>11, <1>12, <1>13,
     <1>14, <1>15 DEF RunStep, Drivers, Runs

\* The parts that say which process runs, on which storage and with which mark.
Structure == RunsOnPort /\ MarkIsDurable /\ StorageAllows /\ OneGeneration /\ OnePendingRead

LEMMA RunStructure ==
    ASSUME TypeOK, Structure, RunStep
    PROVE  Structure'
<1>1. RunKeeps /\ \A j \in Jobs : job[j].owner \in Procs
  BY RunStepKeeps DEF TypeOK, JobState
<1>2. RunsOnPort'
  BY <1>1 DEF RunKeeps, Structure, RunsOnPort, Drives
<1>3. MarkIsDurable'
  BY <1>1 DEF RunKeeps, Structure, MarkIsDurable
<1>4. StorageAllows'
  BY <1>1 DEF RunKeeps, Structure, StorageAllows, Volatile, Live
<1>5. OneGeneration'
  BY <1>1 DEF RunKeeps, Structure, OneGeneration
<1>6. OnePendingRead'
  BY <1>1 DEF RunKeeps, Structure, OnePendingRead
<1> QED
  BY <1>2, <1>3, <1>4, <1>5, <1>6 DEF Structure

\* The end of processes keeps them, whatever else the step did to what is on disk,
\* as long as the mark of a process that serves survives.
LEMMA GoneStructure ==
    ASSUME TypeOK, Structure, NEW P \in SUBSET Procs, GoneEffect(P),
           durable' = durable, override' = override,
           inode.gen /\ disk.gen => inode'.gen /\ disk'.gen,
           (\A p \in Procs : ~ Live(p) \/ p \in P) \/ (inode.gen => inode'.gen),
           powers' > 0 /\ ~ durable =>
              ~ inode'.there /\ \A p \in Procs : ~ Live(p) \/ p \in P
    PROVE  Structure'
<1>1. \A j \in Jobs : job[j].owner \in Procs
  BY DEF TypeOK, JobState
<1>2. \A p \in Procs : Live(p)' => Live(p) /\ p \notin P /\ proc'[p] = proc[p]
  BY DEF GoneEffect, Live
<1>3. RunsOnPort'
  BY <1>1, <1>2 DEF GoneEffect, Structure, RunsOnPort, Drives
<1>4. MarkIsDurable'
  BY <1>2 DEF GoneEffect, Structure, MarkIsDurable, Live
<1>5. StorageAllows'
  BY <1>2 DEF GoneEffect, Structure, StorageAllows, Volatile
<1>6. OneGeneration'
  BY DEF GoneEffect, Structure, OneGeneration
<1>7. OnePendingRead'
  BY DEF GoneEffect, Structure, OnePendingRead, ReadsPending
<1> QED
  BY <1>3, <1>4, <1>5, <1>6, <1>7 DEF Structure

\* A step of a start that neither serves nor ends changes one process, which does
\* not serve before or after it.
StartKeeps(p) ==
    /\ \A q \in Procs : /\ q # p => proc'[q] = proc[q]
                        /\ proc'[q].served = proc[q].served
    /\ Live(p)' /\ proc[p].pc # "serving" /\ proc'[p].pc \notin {"serving", "syncClaim"}
    /\ Drives(p)' => port = {} /\ port' = {p}
    /\ port' # port => port = {} /\ port' = {p}
    /\ inode'.gen = inode.gen /\ inode'.there = inode.there
    /\ disk'.gen \in {disk.gen, inode.gen}
    /\ UNCHANGED <<job, durable, override, powers>>
    /\ Live(p) \/ (Volatile /\ inode.there)

LEMMA StartStructure ==
    ASSUME TypeOK, Structure, NEW p \in Procs, StartKeeps(p)
    PROVE  Structure'
<1>1. \A j \in Jobs : job[j].owner \in Procs
  BY DEF TypeOK, JobState
<1>2. \A q \in Procs : Live(q)' => Live(q) \/ (q = p /\ Volatile /\ inode.there)
  BY DEF StartKeeps, Live
<1>3. RunsOnPort'
  BY <1>1 DEF StartKeeps, Structure, RunsOnPort, Drives
<1>4. MarkIsDurable'
  BY DEF StartKeeps, Structure, MarkIsDurable
<1>5. StorageAllows'
  BY <1>2 DEF StartKeeps, Structure, StorageAllows, Volatile
<1>6. OneGeneration'
  BY DEF StartKeeps, Structure, OneGeneration
<1>7. OnePendingRead'
  BY DEF StartKeeps, Structure, OnePendingRead, ReadsPending
<1> QED
  BY <1>3, <1>4, <1>5, <1>6, <1>7 DEF Structure

LEMMA StructureStep ==
    ASSUME TypeOK, Structure, [Next]_vars
    PROVE  Structure'
<1>a. /\ proc \in [Procs -> ProcState] /\ job \in [Jobs -> JobState]
      /\ \A j \in Jobs : job[j].owner \in Procs
      /\ inode \in Attributes /\ disk \in Attributes
  BY DEF TypeOK, JobState
<1>1. CASE RunStep
  BY <1>1, RunStructure
<1>2. ASSUME NEW p \in Procs, Open(p) PROVE Structure'
  <2>1. StartKeeps(p)
    BY <1>2, <1>a DEF Open, StartKeeps, ProcState, Live, Drives, Volatile, fsVars
  <2> QED
    BY <2>1, StartStructure
<1>3. ASSUME NEW p \in Procs, ReadLatch(p) PROVE Structure'
  <2>1. StartKeeps(p)
    BY <1>3, <1>a DEF ReadLatch, StartKeeps, ProcState, Live, Drives, fsVars
  <2> QED
    BY <2>1, StartStructure
<1>4. ASSUME NEW p \in Procs, CreateLatch(p) PROVE Structure'
  <2>1. inode'.gen = inode.gen /\ inode'.there = inode.there
    BY <1>4, <1>a DEF CreateLatch, Attributes
  <2>2. StartKeeps(p)
    BY <1>4, <1>a, <2>1 DEF CreateLatch, StartKeeps, ProcState, Live, Drives
  <2> QED
    BY <2>2, StartStructure
<1>5. ASSUME NEW p \in Procs, SyncLatch(p) PROVE Structure'
  <2>1. StartKeeps(p)
    BY <1>5, <1>a DEF SyncLatch, StartKeeps, ProcState, Live, Drives
  <2> QED
    BY <2>1, StartStructure
<1>6. ASSUME NEW p \in Procs, Bind(p) PROVE Structure'
  <2>1. CASE port = {}
    <3>1. StartKeeps(p)
      BY <1>6, <1>a, <2>1 DEF Bind, StartKeeps, ProcState, Live, Drives, fsVars
    <3> QED
      BY <3>1, StartStructure
  <2>2. CASE port # {}
    <3>1. GoneEffect({p}) /\ UNCHANGED <<fsVars, powers>> /\ Live(p)
      BY <1>6, <2>2, GoneHasEffect DEF Bind, Live
    <3>2. powers' > 0 /\ ~ durable => ~ inode'.there /\ \A q \in Procs : ~ Live(q) \/ q \in {p}
      BY <3>1 DEF fsVars, Structure, StorageAllows
    <3> QED
      BY <3>1, <3>2, GoneStructure DEF fsVars
  <2> QED
    BY <2>1, <2>2
<1>7. ASSUME NEW p \in Procs, Claim(p) PROVE Structure'
  <2>1. CASE inode.gen
    <3>1. GoneEffect({p}) /\ UNCHANGED <<fsVars, powers>> /\ Live(p)
      BY <1>7, <2>1, GoneHasEffect DEF Claim, Live, fsVars
    <3>2. powers' > 0 /\ ~ durable => ~ inode'.there /\ \A q \in Procs : ~ Live(q) \/ q \in {p}
      BY <3>1 DEF fsVars, Structure, StorageAllows
    <3> QED
      BY <3>1, <3>2, GoneStructure DEF fsVars
  <2>2. CASE ~ inode.gen
    <3>1. /\ \A q \in Procs : /\ q # p => proc'[q] = proc[q]
                              /\ proc'[q].served = proc[q].served
          /\ proc[p].pc = "bound" /\ proc'[p].pc = "syncClaim"
          /\ UNCHANGED <<port, job, durable, override, disk, powers>>
      BY <1>7, <1>a, <2>2 DEF Claim, ProcState
    <3>2. inode'.gen /\ inode'.there = inode.there
      BY <1>7, <1>a, <2>2 DEF Claim, Attributes
    <3>3. \A q \in Procs : ~ proc[q].served
      BY <2>2 DEF Structure, MarkIsDurable
    <3>4. RunsOnPort'
      BY <1>a, <3>1 DEF Structure, RunsOnPort, Drives
    <3>5. MarkIsDurable'
      BY <3>1, <3>2, <3>3 DEF MarkIsDurable
    <3>6. StorageAllows'
      BY <3>1, <3>2 DEF Structure, StorageAllows, Volatile, Live
    <3>7. OneGeneration' /\ OnePendingRead'
      BY <3>1 DEF Structure, OneGeneration, OnePendingRead, ReadsPending
    <3> QED
      BY <3>4, <3>5, <3>6, <3>7 DEF Structure
  <2> QED
    BY <2>1, <2>2
<1>8. ASSUME NEW p \in Procs, SyncClaim(p) PROVE Structure'
  <2>1. /\ \A q \in Procs : q # p => proc'[q] = proc[q]
        /\ proc[p].pc = "syncClaim" /\ proc'[p].pc = "serving" /\ proc'[p].served
        /\ disk' = inode /\ UNCHANGED <<inode, port, job, durable, override, powers>>
    BY <1>8, <1>a DEF SyncClaim, ProcState
  <2>2. inode.gen /\ \A q \in Procs : ~ proc[q].served
    BY <2>1 DEF Structure, MarkIsDurable
  <2>3. \A q \in Procs : q # p => proc[q].pc # "syncClaim"
    BY <2>1 DEF Structure, RunsOnPort, Drives, TypeOK
  <2>4. RunsOnPort'
    BY <1>a, <2>1 DEF Structure, RunsOnPort, Drives
  <2>5. MarkIsDurable'
    BY <2>1, <2>2, <2>3 DEF MarkIsDurable
  <2>6. StorageAllows'
    BY <2>1 DEF Structure, StorageAllows, Volatile, Live
  <2>7. OneGeneration' /\ OnePendingRead'
    BY <2>1, <2>2 DEF Structure, OneGeneration, OnePendingRead, ReadsPending
  <2> QED
    BY <2>4, <2>5, <2>6, <2>7 DEF Structure
<1>9. ASSUME NEW p \in Procs, Crash(p) PROVE Structure'
  <2>1. GoneEffect({p}) /\ UNCHANGED <<fsVars, powers>> /\ Live(p)
    BY <1>9, GoneHasEffect DEF Crash
  <2>2. powers' > 0 /\ ~ durable => ~ inode'.there /\ \A q \in Procs : ~ Live(q) \/ q \in {p}
    BY <2>1 DEF fsVars, Structure, StorageAllows
  <2> QED
    BY <2>1, <2>2, GoneStructure DEF fsVars
<1>10. ASSUME NEW p \in Procs, NEW j \in Jobs, NEW k \in Kinds, Arrive(p, j, k)
      PROVE  Structure'
  <2>1. /\ proc[p].pc = "serving" /\ proc[p].served
        /\ UNCHANGED <<inode, disk, port, proc, durable, override, powers>>
        /\ \A i \in Jobs : i # j => job'[i] = job[i]
    BY <1>10, <1>a DEF Arrive, Structure, RunsOnPort, fsVars
  <2>2. /\ job'[j].owner = p
        /\ ReadsPending(j)' => PermitFree(p)
    BY <1>10, <1>a DEF Arrive, ReadsPending, NoJob
  <2>3. \A i \in Jobs : ReadsPending(i) => job[i].owner = p
    BY <1>a, <2>1 DEF Structure, RunsOnPort, OneGeneration, ReadsPending
  <2>4. \A i \in Jobs : i # j => (ReadsPending(i)' <=> ReadsPending(i))
    BY <2>1 DEF ReadsPending
  <2>5. OnePendingRead'
    BY <2>2, <2>3, <2>4 DEF Structure, OnePendingRead, PermitFree
  <2>6. RunsOnPort'
    BY <1>a, <2>1, <2>2 DEF Structure, RunsOnPort, Drives
  <2>7. MarkIsDurable' /\ StorageAllows' /\ OneGeneration'
    BY <2>1 DEF Structure, MarkIsDurable, StorageAllows, OneGeneration, Volatile, Live
  <2> QED
    BY <2>5, <2>6, <2>7 DEF Structure
<1>11. CASE PowerLoss
  <2>1. GoneEffect({p \in Procs : Live(p)}) /\ UNCHANGED <<durable, override>>
    BY <1>11, GoneHasEffect DEF PowerLoss
  <2>2. /\ inode.gen /\ disk.gen => inode'.gen /\ disk'.gen
        /\ ~ durable => ~ inode'.there
    BY <1>11, <1>a DEF PowerLoss, Attributes
  <2> QED
    BY <2>1, <2>2, GoneStructure
<1> QED
  BY <1>1, <1>2, <1>3, <1>4, <1>5, <1>6, <1>7, <1>8, <1>9, <1>10, <1>11
     DEF Next, Starts, RunStep

-----------------------------------------------------------------------------
(* sign_state, the ticks and the outbox.                                     *)

\* A request that is inside its hold after the step was so before it; nobody took
\* the lock from it, poisoned it, or latched without a poisoned store.
HoldKeeps ==
    \A i \in Jobs : job'[i].pc = "in" =>
        LET s == proc[job[i].owner]
            t == proc'[job[i].owner]
        IN /\ job[i].pc = "in" /\ job'[i].kind = job[i].kind /\ job'[i].owner = job[i].owner
           /\ t.sign = s.sign /\ t.signPoison = s.signPoison
           /\ t.locked => s.locked \/ s.storePoison
           /\ s.storePoison => t.storePoison

\* The step is none of p's tick; if it armed p then for a later time.
TickKeeps(p) ==
    LET s == proc[p]
        t == proc'[p]
    IN /\ t.tick = s.tick /\ t.beat = s.beat /\ t.tickNow = s.tickNow
       /\ Drives(p) => /\ Drives(p)'
                       /\ s.locked => t.locked
                       /\ Poisoned(p) => Poisoned(p)'
       /\ t.armed = s.armed \/ (t.armed > now /\ Drives(p))

\* Only a registration stages an entry: a request inside its hold, the store sound.
OutboxKeeps ==
    \A p \in Procs :
        \/ proc'[p].outbox \subseteq proc[p].outbox
        \/ \E j \in Jobs : /\ job[j].pc = "in" /\ job[j].owner = p /\ job[j].kind = "sign"
                           /\ ~ proc[p].storePoison

LEMMA HoldStep ==
    ASSUME TypeOK, HoldsSignState, HoldKeeps
    PROVE  HoldsSignState'
<1>1. \A j \in Jobs : job[j].owner \in Procs
  BY DEF TypeOK, JobState
<1> QED
  BY <1>1 DEF HoldsSignState, HoldKeeps

LEMMA TickStepKeeps ==
    ASSUME TypeOK, TypeOK', now' >= now, NEW p \in Procs, TickSeen(p), TickKeeps(p)
    PROVE  TickSeen(p)'
<1>1. /\ now \in Nat /\ proc[p].beat \in Nat /\ proc[p].tickNow \in Nat
      /\ proc'[p].armed \in Nat /\ now' \in Nat
  <2>1. proc[p] \in ProcState /\ proc'[p] \in ProcState /\ now \in Nat /\ now' \in Nat
    BY ProcessAssumption DEF TypeOK
  <2> QED
    BY <2>1, ProcessAssumption DEF ProcState
<1>2. ~ Drives(p)' => proc'[p].tick = "wait" /\ proc'[p].armed = 0
  BY <1>1 DEF TickSeen, TickKeeps
<1>3. proc'[p].beat <= now' /\ proc'[p].tickNow <= now'
  BY <1>1 DEF TickSeen, TickKeeps
<1>4. proc'[p].tick # "wait" => proc'[p].beat <= proc'[p].tickNow
  BY <1>1 DEF TickSeen, TickKeeps
<1>5. /\ proc'[p].armed # 0 /\ proc'[p].beat >= proc'[p].armed
      /\ proc'[p].tick \in {"wait", "end"}
      => proc'[p].locked \/ (proc'[p].tick = "end" /\ Poisoned(p)')
  <2>1. proc'[p].beat >= proc'[p].armed /\ proc'[p].armed # 0 =>
           proc'[p].armed = proc[p].armed /\ Drives(p)
    BY <1>1 DEF TickSeen, TickKeeps
  <2> QED
    BY <1>1, <2>1 DEF TickSeen, TickKeeps
<1> QED
  BY <1>2, <1>3, <1>4, <1>5 DEF TickSeen

LEMMA GoneHold ==
    ASSUME TypeOK, HoldsSignState, NEW P \in SUBSET Procs, GoneEffect(P)
    PROVE  HoldKeeps /\ OutboxKeeps
<1>1. \A j \in Jobs : job[j].owner \in Procs
  BY DEF TypeOK, JobState
<1>2. HoldKeeps
  BY <1>1 DEF HoldKeeps, GoneEffect
<1>3. OutboxKeeps
  BY DEF OutboxKeeps, GoneEffect
<1> QED
  BY <1>2, <1>3

LEMMA SignStep ==
    ASSUME TypeOK, RunsOnPort, HoldsSignState, [Next]_vars
    PROVE  HoldsSignState' /\ OutboxKeeps
<1>a. /\ proc \in [Procs -> ProcState] /\ job \in [Jobs -> JobState]
      /\ \A j \in Jobs : job[j].owner \in Procs
  BY DEF TypeOK, JobState
<1>b. \A j \in Jobs : job[j].pc = "in" =>
         /\ proc[job[j].owner].pc = "serving" /\ proc[job[j].owner].sign = j
         /\ ~ proc[job[j].owner].signPoison /\ proc[job[j].owner].sign # "free"
  BY ProcessAssumption DEF RunsOnPort, HoldsSignState
<1> SUFFICES (HoldKeeps \/ HoldsSignState') /\ OutboxKeeps
  BY HoldStep
<1>1. ASSUME NEW p \in Procs, Open(p) PROVE HoldKeeps /\ OutboxKeeps
  <2>1. /\ \A q \in Procs : q # p => proc'[q] = proc[q]
        /\ proc'[p].outbox = proc[p].outbox /\ proc[p].pc # "serving" /\ job' = job
    BY <1>1, <1>a DEF Open, ProcState
  <2> QED
    BY <1>a, <1>b, <2>1 DEF HoldKeeps, OutboxKeeps
<1>2. ASSUME NEW p \in Procs, ReadLatch(p) PROVE HoldKeeps /\ OutboxKeeps
  <2>1. /\ \A q \in Procs : q # p => proc'[q] = proc[q]
        /\ proc'[p].outbox = proc[p].outbox /\ proc[p].pc # "serving" /\ job' = job
    BY <1>2, <1>a DEF ReadLatch, ProcState
  <2> QED
    BY <1>a, <1>b, <2>1 DEF HoldKeeps, OutboxKeeps
<1>3. ASSUME NEW p \in Procs, CreateLatch(p) PROVE HoldKeeps /\ OutboxKeeps
  <2>1. /\ \A q \in Procs : q # p => proc'[q] = proc[q]
        /\ proc'[p].outbox = proc[p].outbox /\ proc[p].pc # "serving" /\ job' = job
    BY <1>3, <1>a DEF CreateLatch, ProcState
  <2> QED
    BY <1>a, <1>b, <2>1 DEF HoldKeeps, OutboxKeeps
<1>4. ASSUME NEW p \in Procs, SyncLatch(p) PROVE HoldKeeps /\ OutboxKeeps
  <2>1. /\ \A q \in Procs : q # p => proc'[q] = proc[q]
        /\ proc'[p].outbox = proc[p].outbox /\ proc[p].pc # "serving" /\ job' = job
    BY <1>4, <1>a DEF SyncLatch, ProcState
  <2> QED
    BY <1>a, <1>b, <2>1 DEF HoldKeeps, OutboxKeeps
<1>5. ASSUME NEW p \in Procs, SyncClaim(p) PROVE HoldKeeps /\ OutboxKeeps
  <2>1. /\ \A q \in Procs : q # p => proc'[q] = proc[q]
        /\ proc'[p].outbox = proc[p].outbox /\ proc[p].pc # "serving" /\ job' = job
    BY <1>5, <1>a DEF SyncClaim, ProcState
  <2> QED
    BY <1>a, <1>b, <2>1 DEF HoldKeeps, OutboxKeeps
<1>6. ASSUME NEW p \in Procs, Bind(p) PROVE HoldKeeps /\ OutboxKeeps
  <2>1. CASE Gone({p})
    BY <2>1, GoneHasEffect, GoneHold
  <2>2. CASE ~ Gone({p})
    <3>1. /\ \A q \in Procs : q # p => proc'[q] = proc[q]
          /\ proc'[p].outbox = proc[p].outbox /\ proc[p].pc # "serving" /\ job' = job
      BY <1>6, <1>a, <2>2 DEF Bind, ProcState
    <3> QED
      BY <1>a, <1>b, <3>1 DEF HoldKeeps, OutboxKeeps
  <2> QED
    BY <2>1, <2>2
<1>7. ASSUME NEW p \in Procs, Claim(p) PROVE HoldKeeps /\ OutboxKeeps
  <2>1. CASE Gone({p})
    BY <2>1, GoneHasEffect, GoneHold
  <2>2. CASE ~ Gone({p})
    <3>1. /\ \A q \in Procs : q # p => proc'[q] = proc[q]
          /\ proc'[p].outbox = proc[p].outbox /\ proc[p].pc # "serving" /\ job' = job
      BY <1>7, <1>a, <2>2 DEF Claim, ProcState
    <3> QED
      BY <1>a, <1>b, <3>1 DEF HoldKeeps, OutboxKeeps
  <2> QED
    BY <2>1, <2>2
<1>8. ASSUME NEW p \in Procs, TickStart(p) PROVE HoldKeeps /\ OutboxKeeps
  <2>1. /\ job' = job
        /\ \A q \in Procs : LET s == proc[q]  t == proc'[q] IN
              /\ t.sign = s.sign /\ t.signPoison = s.signPoison /\ t.locked = s.locked
              /\ s.storePoison => t.storePoison
              /\ t.outbox = s.outbox
    BY <1>8, <1>a DEF TickStart, ProcState
  <2> QED
    BY <1>a, <2>1 DEF HoldKeeps, OutboxKeeps
<1>9. ASSUME NEW p \in Procs, TickPoll(p) PROVE HoldKeeps /\ OutboxKeeps
  <2>1. /\ job' = job
        /\ \A q \in Procs : LET s == proc[q]  t == proc'[q] IN
              /\ t.sign = s.sign /\ t.signPoison = s.signPoison /\ t.locked = s.locked
              /\ s.storePoison => t.storePoison
              /\ t.outbox = s.outbox
    BY <1>9, <1>a DEF TickPoll, ProcState
  <2> QED
    BY <1>a, <2>1 DEF HoldKeeps, OutboxKeeps
<1>10. ASSUME NEW p \in Procs, FirePass(p) PROVE HoldKeeps /\ OutboxKeeps
  <2>1. /\ job' = job
        /\ \A q \in Procs : LET s == proc[q]  t == proc'[q] IN
              /\ t.sign = s.sign /\ t.signPoison = s.signPoison /\ t.locked = s.locked
              /\ s.storePoison => t.storePoison
              /\ t.outbox = s.outbox
    BY <1>10, <1>a DEF FirePass, ProcState
  <2> QED
    BY <1>a, <2>1 DEF HoldKeeps, OutboxKeeps
<1>11. ASSUME NEW p \in Procs, TickEnter(p) PROVE HoldKeeps /\ OutboxKeeps
  <2>1. /\ job' = job
        /\ \A q \in Procs : LET s == proc[q]  t == proc'[q] IN
              /\ t.sign = s.sign /\ t.signPoison = s.signPoison
              /\ t.storePoison = s.storePoison /\ t.outbox = s.outbox
              /\ t.locked => s.locked \/ (q = p /\ proc[p].sign = "free")
    BY <1>11, <1>a DEF TickEnter, Latch, ProcState
  <2> QED
    BY <1>a, <1>b, <2>1 DEF HoldKeeps, OutboxKeeps, Poisoned
<1>12. ASSUME NEW p \in Procs, TickEnd(p) PROVE HoldKeeps /\ OutboxKeeps
  <2>1. /\ job' = job
        /\ \A q \in Procs : LET s == proc[q]  t == proc'[q] IN
              /\ t.sign = s.sign /\ t.signPoison = s.signPoison
              /\ t.storePoison = s.storePoison /\ t.outbox = s.outbox
              /\ t.locked => s.locked \/ (q = p /\ Poisoned(p))
    BY <1>12, <1>a DEF TickEnd, Net, Latch, ProcState
  <2> QED
    BY <1>a, <1>b, <2>1 DEF HoldKeeps, OutboxKeeps, Poisoned
<1>13. ASSUME NEW p \in Procs, FireEnd(p) PROVE HoldKeeps /\ OutboxKeeps
  <2>1. /\ job' = job
        /\ \A q \in Procs : LET s == proc[q]  t == proc'[q] IN
              /\ t.sign = s.sign /\ t.signPoison = s.signPoison
              /\ t.storePoison = s.storePoison /\ t.outbox = s.outbox
              /\ t.locked => s.locked \/ (q = p /\ Poisoned(p))
    BY <1>13, <1>a DEF FireEnd, Net, Latch, ProcState
  <2> QED
    BY <1>a, <1>b, <2>1 DEF HoldKeeps, OutboxKeeps, Poisoned
<1>14. ASSUME NEW p \in Procs, Crash(p) PROVE HoldKeeps /\ OutboxKeeps
  BY <1>14, GoneHasEffect, GoneHold DEF Crash
<1>15. CASE PowerLoss
  <2>1. Gone({p \in Procs : Live(p)})
    BY <1>15 DEF PowerLoss
  <2>2. GoneEffect({p \in Procs : Live(p)})
    BY <2>1, GoneHasEffect
  <2> QED
    BY <2>2, GoneHold
<1>16. CASE Tick \/ UNCHANGED vars
  BY <1>16 DEF Tick, vars, HoldKeeps, OutboxKeeps
<1>17. ASSUME NEW p \in Procs, NEW j \in Jobs, NEW k \in Kinds, Arrive(p, j, k)
      PROVE  HoldKeeps /\ OutboxKeeps
  <2>1. /\ proc' = proc /\ \A i \in Jobs : i # j => job'[i] = job[i]
        /\ job'[j].pc # "in"
    BY <1>17, <1>a DEF Arrive, NoJob
  <2> QED
    BY <1>a, <2>1 DEF HoldKeeps, OutboxKeeps
<1>18. ASSUME NEW j \in Jobs, Precheck(j) PROVE HoldKeeps /\ OutboxKeeps
  <2>1. /\ proc' = proc
        /\ \A i \in Jobs : job'[i].pc = "in" =>
              job[i].pc = "in" /\ job'[i].kind = job[i].kind /\ job'[i].owner = job[i].owner
    BY <1>18, <1>a DEF Precheck, JobState
  <2> QED
    BY <1>a, <2>1 DEF HoldKeeps, OutboxKeeps
<1>19. ASSUME NEW j \in Jobs, HandlerEnds(j) PROVE HoldKeeps /\ OutboxKeeps
  <2>1. /\ proc' = proc
        /\ \A i \in Jobs : job'[i].pc = "in" =>
              job[i].pc = "in" /\ job'[i].kind = job[i].kind /\ job'[i].owner = job[i].owner
    BY <1>19, <1>a DEF HandlerEnds, JobState
  <2> QED
    BY <1>a, <2>1 DEF HoldKeeps, OutboxKeeps
<1>20. ASSUME NEW j \in Jobs, JobNet(j) PROVE HoldKeeps /\ OutboxKeeps
  <2>1. \A i \in Jobs : job'[i].pc = "in" => job'[i] = job[i]
    BY <1>20, <1>a DEF JobNet, Over, NoJob, JobState
  <2>2. \A q \in Procs : LET s == proc[q]  t == proc'[q] IN
              /\ t.sign = s.sign /\ t.signPoison = s.signPoison
              /\ t.storePoison = s.storePoison /\ t.outbox \subseteq s.outbox
              /\ t.locked => s.locked \/ Poisoned(q)
    BY <1>20, <1>a DEF JobNet, Net, Latch, ProcState
  <2> QED
    BY <1>a, <1>b, <2>1, <2>2 DEF HoldKeeps, OutboxKeeps, Poisoned
<1>21. ASSUME NEW j \in Jobs, Propagate(j) PROVE HoldKeeps /\ OutboxKeeps
  <2>1. \A i \in Jobs : job'[i].pc = "in" => job'[i] = job[i]
    BY <1>21, <1>a DEF Propagate, Over, NoJob, JobState
  <2>2. \A q \in Procs : LET s == proc[q]  t == proc'[q] IN
              /\ t.sign = s.sign /\ t.signPoison = s.signPoison
              /\ t.storePoison = s.storePoison /\ t.outbox \subseteq s.outbox
              /\ t.locked => s.locked \/ Poisoned(q)
    BY <1>21, <1>a DEF Propagate, Net, Latch, ProcState
  <2> QED
    BY <1>a, <1>b, <2>1, <2>2 DEF HoldKeeps, OutboxKeeps, Poisoned
<1>22. ASSUME NEW j \in Jobs, Partial(j) PROVE HoldKeeps /\ OutboxKeeps
  <2>1. \A i \in Jobs : job'[i].pc = "in" => job'[i] = job[i]
    BY <1>22, <1>a DEF Partial, JobState
  <2>2. \A q \in Procs : LET s == proc[q]  t == proc'[q] IN
              /\ t.sign = s.sign /\ t.signPoison = s.signPoison
              /\ s.storePoison => t.storePoison
              /\ t.outbox = s.outbox /\ t.locked = s.locked
    BY <1>22, <1>a DEF Partial, ProcState
  <2> QED
    BY <1>a, <2>1, <2>2 DEF HoldKeeps, OutboxKeeps
<1>23. ASSUME NEW j \in Jobs, Leave(j) PROVE HoldKeeps /\ OutboxKeeps
  <2>1. /\ job[j].pc = "in" /\ job'[j].pc = "net"
        /\ \A i \in Jobs : i # j => job'[i] = job[i]
        /\ \A q \in Procs : q # job[j].owner => proc'[q] = proc[q]
    BY <1>23, <1>a DEF Leave, JobState
  <2>2. \A i \in Jobs : job'[i].pc = "in" => job[i].owner # job[j].owner
    BY <1>b, <2>1
  <2>3. HoldKeeps
    BY <1>a, <2>1, <2>2 DEF HoldKeeps
  <2>4. LET p == job[j].owner IN
           \/ proc'[p].outbox = proc[p].outbox
           \/ job[j].kind # "pending" /\ ~ proc[p].storePoison
    BY <1>23, <1>a DEF Leave, ProcState
  <2>5. job[j].kind # "pending" => job[j].kind = "sign"
    BY <1>a, <2>1 DEF HoldsSignState, JobState, Kinds
  <2> QED
    BY <2>1, <2>3, <2>4, <2>5 DEF OutboxKeeps
<1>24. ASSUME NEW j \in Jobs, Panic(j) PROVE HoldKeeps /\ OutboxKeeps
  <2>1. /\ job[j].pc = "in" /\ job'[j].pc = "net"
        /\ \A i \in Jobs : i # j => job'[i] = job[i]
        /\ \A q \in Procs : q # job[j].owner => proc'[q] = proc[q]
    BY <1>24, <1>a DEF Panic, JobState
  <2>2. \A i \in Jobs : job'[i].pc = "in" => job[i].owner # job[j].owner
    BY <1>b, <2>1
  <2>3. HoldKeeps
    BY <1>a, <2>1, <2>2 DEF HoldKeeps
  <2>4. proc'[job[j].owner].outbox = proc[job[j].owner].outbox
    BY <1>24, <1>a DEF Panic, ProcState
  <2> QED
    BY <2>1, <2>3, <2>4 DEF OutboxKeeps
<1>25. ASSUME NEW j \in Jobs, Enter(j) PROVE HoldsSignState' /\ OutboxKeeps
  <2>1. CASE proc[job[j].owner].signPoison \/ Refused(j)
    <3>1. proc' = proc /\ \A i \in Jobs : job'[i].pc = "in" => job'[i] = job[i]
      BY <1>25, <1>a, <2>1 DEF Enter, JobState
    <3>2. HoldKeeps /\ OutboxKeeps
      BY <1>a, <3>1 DEF HoldKeeps, OutboxKeeps
    <3> QED
      BY <3>2, HoldStep
  <2>2. CASE ~ (proc[job[j].owner].signPoison \/ Refused(j))
    <3>1. /\ job'[j].kind = job[j].kind /\ job'[j].owner = job[j].owner
          /\ job[j].kind # "channel" /\ proc[job[j].owner].sign = "free"
          /\ \A i \in Jobs : i # j => job'[i] = job[i]
      BY <1>25, <1>a, <2>2 DEF Enter, JobState
    <3>2. /\ \A q \in Procs : q # job[j].owner => proc'[q] = proc[q]
          /\ proc'[job[j].owner].sign = j
          /\ proc'[job[j].owner].signPoison = proc[job[j].owner].signPoison
          /\ proc'[job[j].owner].locked = proc[job[j].owner].locked
          /\ proc'[job[j].owner].outbox = proc[job[j].owner].outbox
      BY <1>25, <1>a, <2>2 DEF Enter, ProcState
    <3>3. \A i \in Jobs : job[i].pc = "in" => job[i].owner # job[j].owner
      BY <1>b, <3>1
    <3>4. HoldsSignState'
      BY <1>a, <2>2, <3>1, <3>2, <3>3 DEF HoldsSignState, Refused
    <3>5. OutboxKeeps
      BY <3>2 DEF OutboxKeeps
    <3> QED
      BY <3>4, <3>5
  <2> QED
    BY <2>1, <2>2
<1> QED
  BY <1>1, <1>2, <1>3, <1>4, <1>5, <1>6, <1>7, <1>8, <1>9, <1>10, <1>11, <1>12, <1>13,
     <1>14, <1>15, <1>16, <1>17, <1>18, <1>19, <1>20, <1>21, <1>22, <1>23, <1>24, <1>25
     DEF Next, Starts, Runs, Drivers

LEMMA GoneTick ==
    ASSUME TypeOK, TickHasSeen, NEW P \in SUBSET Procs, GoneEffect(P), now' = now
    PROVE  TickHasSeen'
<1> SUFFICES ASSUME NEW p \in Procs PROVE TickSeen(p)'
  BY DEF TickHasSeen
<1>1. now \in Nat
  BY ProcessAssumption DEF TypeOK
<1>2. CASE p \in P
  BY <1>1, <1>2 DEF GoneEffect, TickSeen, Drives
<1>3. CASE p \notin P
  BY <1>3 DEF GoneEffect, TickHasSeen, TickSeen, Drives, Poisoned
<1> QED
  BY <1>2, <1>3

LEMMA TickStep ==
    ASSUME TypeOK, TypeOK', RunsOnPort, TickHasSeen, [Next]_vars
    PROVE  TickHasSeen'
<1>a. /\ proc \in [Procs -> ProcState] /\ job \in [Jobs -> JobState]
      /\ \A j \in Jobs : job[j].owner \in Procs
  BY DEF TypeOK, JobState
<1>b. /\ now \in Nat /\ Bucket(now) \in Nat /\ Bucket(now) <= now
      /\ \A p \in Procs : /\ proc[p].beat \in Nat /\ proc[p].tickNow \in Nat
                          /\ proc[p].armed \in Nat
  <2>1. now \in Nat
    BY ProcessAssumption DEF TypeOK
  <2>2. \A p \in Procs : /\ proc[p].beat \in Nat /\ proc[p].tickNow \in Nat
                         /\ proc[p].armed \in Nat
    BY <1>a, ProcessAssumption DEF ProcState
  <2> QED
    BY <2>1, <2>2, BucketBelow
<1>c. ASSUME now' >= now, \A p \in Procs : TickKeeps(p) PROVE TickHasSeen'
  BY <1>c, TickStepKeeps DEF TickHasSeen
<1>1. ASSUME NEW p \in Procs, Open(p) PROVE TickHasSeen'
  <2>1. \A q \in Procs : TickKeeps(q)
    BY <1>1, <1>a DEF Open, TickKeeps, Drives, Poisoned, ProcState
  <2> QED
    BY <1>1, <1>b, <1>c, <2>1 DEF Open
<1>2. ASSUME NEW p \in Procs, ReadLatch(p) PROVE TickHasSeen'
  <2>1. \A q \in Procs : TickKeeps(q)
    BY <1>2, <1>a DEF ReadLatch, TickKeeps, Drives, Poisoned, ProcState
  <2> QED
    BY <1>2, <1>b, <1>c, <2>1 DEF ReadLatch
<1>3. ASSUME NEW p \in Procs, CreateLatch(p) PROVE TickHasSeen'
  <2>1. \A q \in Procs : TickKeeps(q)
    BY <1>3, <1>a DEF CreateLatch, TickKeeps, Drives, Poisoned, ProcState
  <2> QED
    BY <1>3, <1>b, <1>c, <2>1 DEF CreateLatch
<1>4. ASSUME NEW p \in Procs, SyncLatch(p) PROVE TickHasSeen'
  <2>1. \A q \in Procs : TickKeeps(q)
    BY <1>4, <1>a DEF SyncLatch, TickKeeps, Drives, Poisoned, ProcState
  <2> QED
    BY <1>4, <1>b, <1>c, <2>1 DEF SyncLatch
<1>5. ASSUME NEW p \in Procs, SyncClaim(p) PROVE TickHasSeen'
  <2>1. \A q \in Procs : TickKeeps(q)
    BY <1>5, <1>a DEF SyncClaim, TickKeeps, Drives, Poisoned, ProcState
  <2> QED
    BY <1>5, <1>b, <1>c, <2>1 DEF SyncClaim
<1>6. ASSUME NEW p \in Procs, Bind(p) PROVE TickHasSeen'
  <2>1. CASE Gone({p})
    BY <1>6, <2>1, GoneHasEffect, GoneTick DEF Bind
  <2>2. CASE ~ Gone({p})
    <3>1. \A q \in Procs : TickKeeps(q)
      BY <1>6, <1>a, <2>2 DEF Bind, TickKeeps, Drives, Poisoned, ProcState
    <3> QED
      BY <1>6, <1>b, <1>c, <3>1 DEF Bind
  <2> QED
    BY <2>1, <2>2
<1>7. ASSUME NEW p \in Procs, Claim(p) PROVE TickHasSeen'
  <2>1. CASE Gone({p})
    BY <1>7, <2>1, GoneHasEffect, GoneTick DEF Claim
  <2>2. CASE ~ Gone({p})
    <3>1. \A q \in Procs : TickKeeps(q)
      BY <1>7, <1>a, <2>2 DEF Claim, TickKeeps, Drives, Poisoned, ProcState
    <3> QED
      BY <1>7, <1>b, <1>c, <3>1 DEF Claim
  <2> QED
    BY <2>1, <2>2
<1>8. ASSUME NEW p \in Procs, FirePass(p) PROVE TickHasSeen'
  <2>1. \A q \in Procs : TickKeeps(q)
    BY <1>8, <1>a DEF FirePass, TickKeeps, Drives, Poisoned, ProcState
  <2> QED
    BY <1>8, <1>b, <1>c, <2>1 DEF FirePass
<1>9. ASSUME NEW p \in Procs, FireEnd(p) PROVE TickHasSeen'
  <2>1. \A q \in Procs : TickKeeps(q)
    BY <1>9, <1>a DEF FireEnd, Net, Latch, TickKeeps, Drives, Poisoned, ProcState
  <2> QED
    BY <1>9, <1>b, <1>c, <2>1 DEF FireEnd
<1>10. ASSUME NEW p \in Procs, Crash(p) PROVE TickHasSeen'
  BY <1>10, GoneHasEffect, GoneTick DEF Crash
<1>11. CASE PowerLoss
  <2>1. Gone({p \in Procs : Live(p)}) /\ now' = now
    BY <1>11 DEF PowerLoss
  <2>2. GoneEffect({p \in Procs : Live(p)})
    BY <2>1, GoneHasEffect
  <2> QED
    BY <2>1, <2>2, GoneTick
<1>12. CASE Tick \/ UNCHANGED vars
  <2>1. now' >= now
    BY <1>12, <1>b DEF Tick, vars
  <2>2. \A p \in Procs : TickKeeps(p)
    BY <1>12 DEF Tick, vars, TickKeeps, Drives, Poisoned
  <2> QED
    BY <1>c, <2>1, <2>2
<1>13. ASSUME NEW p \in Procs, NEW j \in Jobs, NEW k \in Kinds, Arrive(p, j, k)
      PROVE  TickHasSeen'
  <2>1. \A q \in Procs : TickKeeps(q)
    BY <1>13, <1>a DEF Arrive, TickKeeps, Drives, Poisoned, ProcState
  <2> QED
    BY <1>13, <1>b, <1>c, <2>1 DEF Arrive
<1>14. ASSUME NEW j \in Jobs, Precheck(j) PROVE TickHasSeen'
  <2>1. \A q \in Procs : TickKeeps(q)
    BY <1>14, <1>a DEF Precheck, TickKeeps, Drives, Poisoned, ProcState
  <2> QED
    BY <1>14, <1>b, <1>c, <2>1 DEF Precheck
<1>15. ASSUME NEW j \in Jobs, HandlerEnds(j) PROVE TickHasSeen'
  <2>1. \A q \in Procs : TickKeeps(q)
    BY <1>15, <1>a DEF HandlerEnds, TickKeeps, Drives, Poisoned, ProcState
  <2> QED
    BY <1>15, <1>b, <1>c, <2>1 DEF HandlerEnds
<1>16. ASSUME NEW j \in Jobs, Enter(j) PROVE TickHasSeen'
  <2>1. \A q \in Procs : TickKeeps(q)
    BY <1>16, <1>a DEF Enter, TickKeeps, Drives, Poisoned, ProcState
  <2> QED
    BY <1>16, <1>b, <1>c, <2>1 DEF Enter
<1>17. ASSUME NEW j \in Jobs, Partial(j) PROVE TickHasSeen'
  <2>1. \A q \in Procs : TickKeeps(q)
    BY <1>17, <1>a DEF Partial, TickKeeps, Drives, Poisoned, ProcState
  <2> QED
    BY <1>17, <1>b, <1>c, <2>1 DEF Partial
<1>18. ASSUME NEW j \in Jobs, Panic(j) PROVE TickHasSeen'
  <2>1. \A q \in Procs : TickKeeps(q)
    BY <1>18, <1>a DEF Panic, TickKeeps, Drives, Poisoned, ProcState
  <2> QED
    BY <1>18, <1>b, <1>c, <2>1 DEF Panic
<1>19. ASSUME NEW j \in Jobs, JobNet(j) PROVE TickHasSeen'
  <2>1. \A q \in Procs : TickKeeps(q)
    BY <1>19, <1>a DEF JobNet, Net, Latch, TickKeeps, Drives, Poisoned, ProcState
  <2> QED
    BY <1>19, <1>b, <1>c, <2>1 DEF JobNet
<1>20. ASSUME NEW j \in Jobs, Propagate(j) PROVE TickHasSeen'
  <2>1. \A q \in Procs : TickKeeps(q)
    BY <1>20, <1>a DEF Propagate, Net, Latch, TickKeeps, Drives, Poisoned, ProcState
  <2> QED
    BY <1>20, <1>b, <1>c, <2>1 DEF Propagate
<1>21. ASSUME NEW j \in Jobs, Leave(j) PROVE TickHasSeen'
  <2>1. Drives(job[j].owner)
    BY <1>21 DEF Leave, RunsOnPort, Drives
  <2>2. now + Delay > now
    BY <1>b, ProcessAssumption
  <2>3. \A q \in Procs : TickKeeps(q)
    BY <1>21, <1>a, <2>1, <2>2 DEF Leave, TickKeeps, Drives, Poisoned, ProcState
  <2> QED
    BY <1>21, <1>b, <1>c, <2>3 DEF Leave
<1>22. ASSUME NEW p \in Procs, TickStart(p) PROVE TickHasSeen'
  <2>1. /\ now' = now /\ \A q \in Procs : q # p => proc'[q] = proc[q]
    BY <1>22, <1>a DEF TickStart, Net, Latch
  <2>2. \A q \in Procs : q # p => TickSeen(q)'
    BY <2>1 DEF TickHasSeen, TickSeen, Drives, Poisoned
  <2>3. LET s == proc[p]  t == proc'[p] IN
           /\ Drives(p)' /\ t.tick = "poll" /\ t.tickNow = now /\ t.armed = s.armed
           /\ t.beat = IF Bucket(now) > s.beat THEN Bucket(now) ELSE s.beat
    BY <1>22, <1>a DEF TickStart, Drives, ProcState
  <2>4. TickSeen(p)'
    BY <1>b, <2>1, <2>3 DEF TickHasSeen, TickSeen
  <2> QED
    BY <2>2, <2>4 DEF TickHasSeen
<1>23. ASSUME NEW p \in Procs, TickPoll(p) PROVE TickHasSeen'
  <2>1. /\ now' = now /\ \A q \in Procs : q # p => proc'[q] = proc[q]
    BY <1>23, <1>a DEF TickPoll, Net, Latch
  <2>2. \A q \in Procs : q # p => TickSeen(q)'
    BY <2>1 DEF TickHasSeen, TickSeen, Drives, Poisoned
  <2>3. LET s == proc[p]  t == proc'[p] IN
           /\ Drives(p)' /\ s.tick = "poll" /\ t.tickNow = s.tickNow /\ t.armed = s.armed
           /\ t.beat = s.beat /\ t.locked = s.locked
           /\ \/ t.tick = "enter"
              \/ t.tick = "end" /\ (Poisoned(p)' \/ ~ Due(p) \/ s.locked)
    BY <1>23, <1>a DEF TickPoll, Drives, Poisoned, ProcState
  <2>4. TickSeen(p)'
    BY <1>b, <2>1, <2>3 DEF TickHasSeen, TickSeen, Due
  <2> QED
    BY <2>2, <2>4 DEF TickHasSeen
<1>24. ASSUME NEW p \in Procs, TickEnter(p) PROVE TickHasSeen'
  <2>1. /\ now' = now /\ \A q \in Procs : q # p => proc'[q] = proc[q]
    BY <1>24, <1>a DEF TickEnter, Net, Latch
  <2>2. \A q \in Procs : q # p => TickSeen(q)'
    BY <2>1 DEF TickHasSeen, TickSeen, Drives, Poisoned
  <2>3. LET s == proc[p]  t == proc'[p] IN
           /\ Drives(p)' /\ s.tick = "enter" /\ t.tickNow = s.tickNow /\ t.armed = s.armed
           /\ t.beat = s.beat /\ t.tick = "end" /\ (t.locked \/ Poisoned(p)')
    BY <1>24, <1>a DEF TickEnter, Latch, Drives, Poisoned, ProcState
  <2>4. TickSeen(p)'
    BY <1>b, <2>1, <2>3 DEF TickHasSeen, TickSeen
  <2> QED
    BY <2>2, <2>4 DEF TickHasSeen
<1>25. ASSUME NEW p \in Procs, TickEnd(p) PROVE TickHasSeen'
  <2>1. /\ now' = now /\ \A q \in Procs : q # p => proc'[q] = proc[q]
    BY <1>25, <1>a DEF TickEnd, Net, Latch
  <2>2. \A q \in Procs : q # p => TickSeen(q)'
    BY <2>1 DEF TickHasSeen, TickSeen, Drives, Poisoned
  <2>3. LET s == proc[p]  t == proc'[p] IN
           /\ Drives(p)' /\ s.tick = "end" /\ t.tick = "wait" /\ t.tickNow = 0
           /\ t.armed = s.armed /\ t.beat = s.beat
           /\ s.locked \/ Poisoned(p) => t.locked
    BY <1>25, <1>a DEF TickEnd, Net, Latch, Drives, ProcState
  <2>4. TickSeen(p)'
    BY <1>b, <2>1, <2>3 DEF TickHasSeen, TickSeen
  <2> QED
    BY <2>2, <2>4 DEF TickHasSeen
<1> QED
  BY <1>1, <1>2, <1>3, <1>4, <1>5, <1>6, <1>7, <1>8, <1>9, <1>10, <1>11, <1>12,
     <1>13, <1>14, <1>15, <1>16, <1>17, <1>18, <1>19, <1>20, <1>21, <1>22,
     <1>23, <1>24, <1>25
     DEF Next, Starts, Runs, Drivers

-----------------------------------------------------------------------------
(* The theorems.                                                             *)

LEMMA ProcessInit == Init => IInv
<1> SUFFICES ASSUME Init PROVE IInv
  OBVIOUS
<1>1. TypeOK
  <2>1. inode \in Attributes /\ disk \in Attributes
    BY DEF Init, Attributes
  <2> QED
    BY <2>1, ProcessAssumption, NewProcType, NoJobType DEF Init, TypeOK
<1>2. /\ \A p \in Procs : proc[p] = NewProc
      /\ \A j \in Jobs : job[j] = NoJob
  BY DEF Init
<1>3. RunsOnPort /\ MarkIsDurable /\ HoldsSignState /\ OneGeneration /\ OnePendingRead
  <2>a. NewProc.pc = "off" /\ ~ NewProc.served /\ NoJob.pc = "none"
    BY DEF NewProc, NoJob
  <2>1. /\ \A p \in Procs : proc[p].pc = "off" /\ ~ proc[p].served
        /\ \A j \in Jobs : job[j].pc = "none"
    BY <1>2, <2>a
  <2>2. RunsOnPort
    BY <2>1 DEF RunsOnPort, Drives
  <2>3. MarkIsDurable /\ OneGeneration
    BY <2>1 DEF MarkIsDurable, OneGeneration
  <2>4. HoldsSignState /\ OnePendingRead
    BY <2>1 DEF HoldsSignState, OnePendingRead, ReadsPending
  <2> QED
    BY <2>2, <2>3, <2>4
<1>4. StorageAllows
  BY <1>2 DEF Init, StorageAllows, Live, NewProc
<1>5. TickHasSeen
  BY <1>2 DEF Init, TickHasSeen, TickSeen, Drives, NewProc
<1> QED
  BY <1>1, <1>3, <1>4, <1>5 DEF IInv

LEMMA ProcessStep == IInv /\ [Next]_vars => IInv'
<1> SUFFICES ASSUME IInv, [Next]_vars PROVE IInv'
  OBVIOUS
<1>1. TypeOK'
  BY TypeStep DEF IInv
<1>2. Structure'
  BY StructureStep DEF IInv, Structure
<1>3. HoldsSignState'
  BY SignStep DEF IInv
<1>4. TickHasSeen'
  BY <1>1, TickStep DEF IInv
<1> QED
  BY <1>1, <1>2, <1>3, <1>4 DEF IInv, Structure

\* The inductive invariant holds: the port, the mark, the storage, the holder of
\* sign_state and the stages of a tick are as main::run, claim_process_generation,
\* enter_lockdown and lockdown_tick_with_lockdown_net leave them.
THEOREM ProcessInductive == Spec => []IInv
  BY ProcessInit, ProcessStep, PTL DEF Spec

\* The claims of a process's life hold for any number of starts, requests, panics and
\* power losses: a reboot is the key's death without the override (assert_volatile_storage),
\* a heartbeat past T vouches for a latched node (record_deadline_tick), and /pending is
\* read once at a time (PENDING_MAX_CONCURRENCY).
THEOREM ProcessInvHolds == Spec => []ProcessInv
<1>1. IInv => ProcessInv
  <2> SUFFICES ASSUME IInv PROVE ProcessInv
    OBVIOUS
  <2>1. RebootIsDeath
    BY DEF IInv, StorageAllows, RebootIsDeath, Volatile
  <2>2. HeartbeatPastDeadline
    BY DEF IInv, TickHasSeen, TickSeen, HeartbeatPastDeadline
  <2> QED
    BY <2>1, <2>2 DEF IInv, ProcessInv
<1> QED
  BY <1>1, ProcessInductive, PTL

\* claim_process_generation: at most one process ever serves on a config inode, for any
\* number of starts that race, fail, crash or lose power between two of their steps.
THEOREM OneGenerationHolds == Spec => []OneGeneration
<1>1. IInv => OneGeneration
  BY DEF IInv
<1> QED
  BY <1>1, ProcessInductive, PTL

\* enter_lockdown and force_lockdown_fail_closed: once a node that served has latched,
\* no request stages anything, neither one that holds sign_state while a net forces the
\* latch nor one of a later start.
THEOREM NothingAfterLockdownHolds == Spec => NothingAfterLockdown
<1>1. ASSUME IInv, [Next]_vars
      PROVE  [(\E p \in Procs : proc[p].served /\ proc[p].locked)
               => \A q \in Procs : proc'[q].outbox \subseteq proc[q].outbox]_vars
  <2> SUFFICES ASSUME NEW p \in Procs, proc[p].served, proc[p].locked, NEW q \in Procs
               PROVE  proc'[q].outbox \subseteq proc[q].outbox
    OBVIOUS
  <2>1. OutboxKeeps
    BY <1>1, SignStep DEF IInv
  <2>2. SUFFICES ASSUME NEW j \in Jobs, job[j].pc = "in", job[j].owner = q,
                        job[j].kind = "sign", ~ proc[q].storePoison
                 PROVE  FALSE
    BY <2>1 DEF OutboxKeeps
  <2>3. proc[q].served
    BY <1>1, <2>2 DEF IInv, RunsOnPort
  <2>4. p = q
    BY <1>1, <2>3 DEF IInv, OneGeneration
  <2> QED
    BY <1>1, <2>2, <2>4 DEF IInv, HoldsSignState
<1> QED
  BY <1>1, ProcessInductive, PTL DEF Spec, NothingAfterLockdown

=============================================================================
