----------------------------- MODULE NodeProcess -----------------------------
(***************************************************************************)
(* The life of a vault-node process: the start sequence with its one-shot  *)
(* generation mark and its Lockdown latch (extended attributes of the      *)
(* config inode), the HTTP jobs with their panic net, the Lockdown driver  *)
(* and the fire driver with theirs, panics that poison a lock, crashes,    *)
(* further starts of the daemon, and power loss.                           *)
(*                                                                         *)
(* A store hold is one step.  sign_state is held over several, so a job    *)
(* that took it can be overtaken by a thread that panics under the store.  *)
(* What a request does to candidates and carriers is in CandidateStore and *)
(* CarrierNode; here it registers, may arm, and stages one outbox entry.   *)
(***************************************************************************)
EXTENDS Naturals, FiniteSets

CONSTANTS
    Procs,          \* starts of the daemon on one config inode
    Jobs,           \* HTTP requests
    Delay,          \* from the arming of a request to T
    Resolution,     \* DEADLINE_HEARTBEAT_RESOLUTION_SECS
    MaxTime,        \* bound on the clock
    MaxPanics,      \* bound on panics
    MaxPower        \* bound on power losses

ASSUME ProcessAssumption ==
    /\ Procs # {} /\ "free" \notin Jobs
    /\ Delay \in Nat \ {0} /\ Resolution \in Nat \ {0}
    /\ MaxTime \in Nat \ {0} /\ MaxPanics \in Nat /\ MaxPower \in Nat

VARIABLES
    now,
    durable,    \* whether the inode's filesystem is neither tmpfs nor ramfs
    override,   \* BTC_VAULT_ALLOW_DURABLE_STORAGE is set
    inode,      \* the attributes as the kernel has them; there = it exists
    disk,       \* the attributes that sync_all made durable
    port,       \* processes bound to the listen port: at most one
    proc,       \* each process: its start, its flags and its two drivers
    job,        \* each HTTP request
    sent,       \* requests handed to the fan-out
    panics, powers

fsVars   == <<durable, override, inode, disk>>
vars == <<now, fsVars, port, proc, job, sent, panics, powers>>

Kinds == {"sign", "channel", "pending"}

NoJob == [pc |-> "none", kind |-> "sign", owner |-> CHOOSE p \in Procs : TRUE,
          client |-> FALSE]

\* A process before it starts: Node's fields after from_toml_str, the sign_state
\* holder, the poison of the two locks, the Armed deadline (0: not armed).
NewProc == [pc |-> "off", locked |-> FALSE, claimed |-> FALSE,
            sign |-> "free", signPoison |-> FALSE, storePoison |-> FALSE,
            armed |-> 0, beat |-> 0, tick |-> "wait", tickNow |-> 0,
            fire |-> "wait", outbox |-> {}, served |-> FALSE]

Init ==
    /\ now = 1
    /\ durable \in BOOLEAN /\ override \in BOOLEAN
    /\ inode = [there |-> TRUE, gen |-> FALSE, lock |-> "absent"]
    /\ disk = inode
    /\ port = {} /\ proc = [p \in Procs |-> NewProc]
    /\ job = [j \in Jobs |-> NoJob]
    /\ sent = {} /\ panics = 0 /\ powers = 0

Poisoned(p) == proc[p].signPoison \/ proc[p].storePoison      \* critical_lock_poisoned
Bricked(p)  == proc[p].locked /\ Poisoned(p)
Live(p)     == proc[p].pc \notin {"off", "dead"}

Over(j) == [NoJob EXCEPT !.pc = "done", !.owner = job[j].owner]

\* A process ends: its threads, its memory and its socket go with it.  What the
\* properties ask of it later is kept.
Gone(P) ==
    /\ proc' = [p \in Procs |->
          IF p \notin P THEN proc[p]
          ELSE [NewProc EXCEPT !.pc = "dead", !.locked = proc[p].locked,
                               !.served = proc[p].served]]
    /\ port' = port \ P
    /\ job' = [j \in Jobs |->
          IF job[j].pc # "none" /\ job[j].owner \in P THEN Over(j) ELSE job[j]]

-----------------------------------------------------------------------------
(* The start of a process: main::run, Node::load, server::serve.            *)

\* classify_fs: a durable filesystem passes only with the override.
Volatile == ~ durable \/ override

\* File::open, assert_volatile_storage, the parse of the config.
Open(p) ==
    /\ proc[p].pc = "off"
    /\ inode.there /\ Volatile
    /\ proc' = [proc EXCEPT ![p].pc = "read"]
    /\ UNCHANGED <<now, fsVars, port, job, sent, panics, powers>>

\* read_xattr of the latch: not there yet, still open, or locked.
ReadLatch(p) ==
    /\ proc[p].pc = "read"
    /\ proc' = [proc EXCEPT ![p].pc = IF inode.lock = "absent" THEN "create" ELSE "bind",
                            ![p].locked = (inode.lock = "locked")]
    /\ UNCHANGED <<now, fsVars, port, job, sent, panics, powers>>

\* write_xattr, create only: a start that lost the race reads again.
CreateLatch(p) ==
    /\ proc[p].pc = "create"
    /\ IF inode.lock = "absent"
       THEN /\ inode' = [inode EXCEPT !.lock = "open"]
            /\ proc' = [proc EXCEPT ![p].pc = "syncLatch"]
       ELSE proc' = [proc EXCEPT ![p].pc = "read"] /\ UNCHANGED inode
    /\ UNCHANGED <<now, durable, override, disk, port, job, sent, panics, powers>>

SyncLatch(p) ==
    /\ proc[p].pc = "syncLatch"
    /\ disk' = inode
    /\ proc' = [proc EXCEPT ![p].pc = "bind"]
    /\ UNCHANGED <<now, durable, override, inode, port, job, sent, panics, powers>>

\* TcpListener::bind, then spawn_drivers: they run before the generation is claimed.
Bind(p) ==
    /\ proc[p].pc = "bind"
    /\ IF port = {}
       THEN port' = {p} /\ proc' = [proc EXCEPT ![p].pc = "bound"] /\ UNCHANGED job
       ELSE Gone({p})
    /\ UNCHANGED <<now, fsVars, sent, panics, powers>>

\* claim_process_generation: the mark is created, never replaced.
Claim(p) ==
    /\ proc[p].pc = "bound"
    /\ IF ~ inode.gen
       THEN /\ inode' = [inode EXCEPT !.gen = TRUE]
            /\ proc' = [proc EXCEPT ![p].pc = "syncClaim"]
            /\ UNCHANGED <<port, job>>
       ELSE Gone({p}) /\ UNCHANGED inode
    /\ UNCHANGED <<now, durable, override, disk, sent, panics, powers>>

\* Mutant: requests are accepted without waiting for the mark to be durable.
SyncClaimLate(p) ==
    /\ proc[p].pc = "syncClaim"
    /\ proc' = [proc EXCEPT ![p].pc = "serving", ![p].claimed = TRUE, ![p].served = TRUE]
    /\ UNCHANGED <<now, fsVars, port, job, sent, panics, powers>>

\* It is durable before a connection is accepted.
SyncClaim(p) ==
    /\ proc[p].pc = "syncClaim"
    /\ disk' = inode
    /\ proc' = [proc EXCEPT ![p].pc = "serving", ![p].claimed = TRUE, ![p].served = TRUE]
    /\ UNCHANGED <<now, durable, override, inode, port, job, sent, panics, powers>>

-----------------------------------------------------------------------------
(* The latch.                                                               *)

\* latch_lockdown in process p, whose other changes are rest: the attribute is
\* written and synced, and the flag is set whatever came of that.
Latch(p, rest) ==
    IF proc[p].locked THEN proc' = rest /\ UNCHANGED <<inode, disk>>
    ELSE /\ proc' = [rest EXCEPT ![p].locked = TRUE]
         /\ \/ inode' = [inode EXCEPT !.lock = "locked"] /\ disk' = inode'
            \/ inode' = [inode EXCEPT !.lock = "locked"] /\ UNCHANGED disk
            \/ UNCHANGED <<inode, disk>>

\* Mutant: the net enters Lockdown through sign_state, whose poison panics again.
NetThroughLock(p, rest) ==
    IF Poisoned(p) /\ ~ proc[p].signPoison /\ proc[p].sign = "free" THEN Latch(p, rest)
    ELSE proc' = rest /\ UNCHANGED <<inode, disk>>

\* The net behind a job or a tick: a poisoned lock forces the latch.
Net(p, rest) ==
    IF Poisoned(p) THEN Latch(p, rest) ELSE proc' = rest /\ UNCHANGED <<inode, disk>>

-----------------------------------------------------------------------------
(* The HTTP jobs.                                                           *)

ReadsPending(j) == job[j].kind = "pending" /\ job[j].pc \in {"queued", "wait", "in"}

\* The permit of /pending moves into the blocking read.
PermitFree(p) == \A j \in Jobs : ReadsPending(j) => job[j].owner # p

\* A request arrives.  /channel answers at once on a bricked node, /pending while
\* another read runs; every other one becomes a job.
Arrive(p, j, k) ==
    /\ proc[p].pc = "serving" /\ job[j].pc = "none"
    /\ LET runs == /\ k = "channel" => ~ Bricked(p)
                   /\ k = "pending" => PermitFree(p)
           new == [pc |-> "queued", kind |-> k, owner |-> p, client |-> TRUE]
       IN job' = [job EXCEPT ![j] =
                     IF runs THEN new ELSE [NoJob EXCEPT !.pc = "done", !.owner = p]]
    /\ UNCHANGED <<now, fsVars, port, proc, sent, panics, powers>>

\* Mutant: the job is aborted with its handler.
HandlerEndsAborts(j) ==
    /\ job[j].client /\ job[j].pc \in {"queued", "wait", "net", "out"}
    /\ job' = [job EXCEPT ![j] = Over(j)]
    /\ UNCHANGED <<now, fsVars, port, proc, sent, panics, powers>>

\* The handler times out or its client goes: the job is detached.
HandlerEnds(j) ==
    /\ job[j].client /\ job[j].pc \notin {"none", "done"}
    /\ job' = [job EXCEPT ![j].client = FALSE]
    /\ UNCHANGED <<now, fsVars, port, proc, sent, panics, powers>>

\* The check of the flag before any lock is taken (/sign only).
Precheck(j) ==
    LET p == job[j].owner IN
    /\ job[j].pc = "queued"
    /\ job' = [job EXCEPT ![j].pc =
          IF job[j].kind = "sign" /\ proc[p].locked THEN "net" ELSE "wait"]
    /\ UNCHANGED <<now, fsVars, port, proc, sent, panics, powers>>

\* Mutant: the flag is not read again under sign_state.
RefusedNever(j) == FALSE

\* A request that finds the flag set under sign_state is refused.
Refused(j) == job[j].kind = "sign" /\ proc[job[j].owner].locked

\* sign_state is taken; a poisoned one panics.  A /channel partial only takes the
\* store, in Partial.
Enter(j) ==
    LET p == job[j].owner IN
    /\ job[j].pc = "wait" /\ job[j].kind # "channel"
    /\ proc[p].sign = "free"
    /\ IF proc[p].signPoison \/ Refused(j)
       THEN job' = [job EXCEPT ![j].pc = "net"] /\ UNCHANGED proc
       ELSE /\ job' = [job EXCEPT ![j].pc = "in"]
            /\ proc' = [proc EXCEPT ![p].sign = j]
    /\ UNCHANGED <<now, fsVars, port, sent, panics, powers>>

\* The rest of the hold.  A registration needs the store, and panics with
\* sign_state held when that is poisoned; it may arm the node.
Leave(j) ==
    LET p == job[j].owner IN
    /\ job[j].pc = "in"
    /\ job' = [job EXCEPT ![j].pc = "net"]
    /\ IF job[j].kind = "pending" THEN proc' = [proc EXCEPT ![p].sign = "free"]
       ELSE IF proc[p].storePoison
       THEN proc' = [proc EXCEPT ![p].sign = "free", ![p].signPoison = TRUE]
       ELSE \E t \in {proc[p].armed, now + Delay} :
            /\ proc[p].armed # 0 => t = proc[p].armed
            /\ proc' = [proc EXCEPT ![p].sign = "free", ![p].armed = t,
                                    ![p].outbox = @ \cup {j}]
    /\ UNCHANGED <<now, fsVars, port, sent, panics, powers>>

\* It panics: sign_state is poisoned, and the store if it was held too.
Panic(j) ==
    LET p == job[j].owner IN
    /\ panics < MaxPanics /\ panics' = panics + 1
    /\ job[j].pc = "in"
    /\ job' = [job EXCEPT ![j].pc = "net"]
    /\ \E both \in BOOLEAN :
       /\ both => job[j].kind = "sign"
       /\ proc' = [proc EXCEPT ![p].sign = "free", ![p].signPoison = TRUE,
                               ![p].storePoison = @ \/ both]
    /\ UNCHANGED <<now, fsVars, port, sent, powers>>

\* A /channel partial: one hold of the store, which may panic.
Partial(j) ==
    LET p == job[j].owner IN
    /\ job[j].pc = "wait" /\ job[j].kind = "channel"
    /\ job' = [job EXCEPT ![j].pc = "net"]
    /\ \/ UNCHANGED <<proc, panics>>
       \/ /\ panics < MaxPanics /\ panics' = panics + 1
          /\ proc' = [proc EXCEPT ![p].storePoison = TRUE]
    /\ UNCHANGED <<now, fsVars, port, sent, powers>>

\* blocking_with_lockdown_net after the work, panicked or not.  The one of
\* /pending is in the handler, and gone with it.
JobNet(j) ==
    LET p == job[j].owner
        last == job[j].kind = "pending"
    IN
    /\ job[j].pc = "net"
    /\ job' = [job EXCEPT ![j] = IF last THEN Over(j) ELSE [@ EXCEPT !.pc = "out"]]
    /\ IF last /\ ~ job[j].client THEN UNCHANGED <<proc, inode, disk>> ELSE Net(p, proc)
    /\ UNCHANGED <<now, durable, override, port, sent, panics, powers>>

\* propagate_outbox in the job: it takes whatever is staged.  The handler that
\* still waits checks for poison again (outer_job_lockdown_recheck).
Propagate(j) ==
    LET p == job[j].owner
        rest == [proc EXCEPT ![p].outbox = {}]
    IN
    /\ job[j].pc = "out"
    /\ sent' = sent \cup proc[p].outbox
    /\ job' = [job EXCEPT ![j] = Over(j)]
    /\ IF job[j].client THEN Net(p, rest) ELSE proc' = rest /\ UNCHANGED <<inode, disk>>
    /\ UNCHANGED <<now, durable, override, port, panics, powers>>

-----------------------------------------------------------------------------
(* The Lockdown driver and the fire driver, from Bind on.                   *)

Drives(p) == proc[p].pc \in {"bound", "syncClaim", "serving"}

Bucket(t) == t - (t % Resolution)

\* The head of lockdown_tick_with_lockdown_net: a bricked node does no more, and
\* its heartbeat stops; else the heartbeat is published before anything is read.
TickStart(p) ==
    /\ Drives(p) /\ proc[p].tick = "wait" /\ ~ Bricked(p)
    /\ proc' = [proc EXCEPT ![p].tick = "poll", ![p].tickNow = now,
           ![p].beat = IF Bucket(now) > @ THEN Bucket(now) ELSE @]
    /\ UNCHANGED <<now, fsVars, port, job, sent, panics, powers>>

\* Mutant: T itself is not due.
DueAfter(p) == proc[p].armed # 0 /\ proc[p].tickNow > proc[p].armed

\* lockdown_due
Due(p) == proc[p].armed # 0 /\ proc[p].tickNow >= proc[p].armed

\* lockdown_tick's read of the overlay; a poisoned store panics, which is caught.
TickPoll(p) ==
    /\ Drives(p) /\ proc[p].tick = "poll"
    /\ proc' = [proc EXCEPT ![p].tick =
          IF ~ proc[p].storePoison /\ Due(p) /\ ~ proc[p].locked THEN "enter" ELSE "end"]
    /\ UNCHANGED <<now, fsVars, port, job, sent, panics, powers>>

\* enter_lockdown: it waits for sign_state; a poisoned one panics, which is caught.
TickEnter(p) ==
    LET rest == [proc EXCEPT ![p].tick = "end"] IN
    /\ Drives(p) /\ proc[p].tick = "enter" /\ proc[p].sign = "free"
    /\ IF proc[p].signPoison THEN proc' = rest /\ UNCHANGED <<inode, disk>>
       ELSE Latch(p, rest)
    /\ UNCHANGED <<now, durable, override, port, job, sent, panics, powers>>

TickEnd(p) ==
    /\ Drives(p) /\ proc[p].tick = "end"
    /\ Net(p, [proc EXCEPT ![p].tick = "wait", ![p].tickNow = 0])
    /\ UNCHANGED <<now, durable, override, port, job, sent, panics, powers>>

\* A pass of the fire driver, which may panic in the store, and its net.
FirePass(p) ==
    /\ Drives(p) /\ proc[p].fire = "wait" /\ ~ Bricked(p)
    /\ \/ proc' = [proc EXCEPT ![p].fire = "end"] /\ UNCHANGED panics
       \/ /\ panics < MaxPanics /\ panics' = panics + 1
          /\ proc' = [proc EXCEPT ![p].fire = "end", ![p].storePoison = TRUE]
    /\ UNCHANGED <<now, fsVars, port, job, sent, powers>>

FireEnd(p) ==
    /\ Drives(p) /\ proc[p].fire = "end"
    /\ Net(p, [proc EXCEPT ![p].fire = "wait"])
    /\ UNCHANGED <<now, durable, override, port, job, sent, panics, powers>>

-----------------------------------------------------------------------------
(* The machine.                                                             *)

\* A process ends: an error of its start, a failed sync, a kill.
Crash(p) ==
    /\ Live(p)
    /\ Gone({p})
    /\ UNCHANGED <<now, fsVars, sent, panics, powers>>

\* Power is lost: a volatile inode is gone, a durable one has what was synced and
\* perhaps what was not.
PowerLoss ==
    /\ powers < MaxPower /\ powers' = powers + 1
    /\ Gone({p \in Procs : Live(p)})
    /\ IF ~ durable THEN inode' = [inode EXCEPT !.there = FALSE]
       ELSE \E g \in {inode.gen, disk.gen}, l \in {inode.lock, disk.lock} :
            inode' = [inode EXCEPT !.gen = g, !.lock = l]
    /\ disk' = inode'
    /\ UNCHANGED <<now, durable, override, sent, panics>>

Tick ==
    /\ now < MaxTime /\ now' = now + 1
    /\ UNCHANGED <<fsVars, port, proc, job, sent, panics, powers>>

Starts(p) ==
    \/ Open(p) \/ ReadLatch(p) \/ CreateLatch(p) \/ SyncLatch(p)
    \/ Bind(p) \/ Claim(p) \/ SyncClaim(p)
Runs(j) ==
    \/ Precheck(j) \/ Enter(j) \/ Leave(j) \/ Partial(j) \/ JobNet(j) \/ Propagate(j)
Drivers(p) ==
    \/ TickStart(p) \/ TickPoll(p) \/ TickEnter(p) \/ TickEnd(p)
    \/ FirePass(p) \/ FireEnd(p)

Next ==
    \/ \E p \in Procs : Starts(p) \/ Drivers(p) \/ Crash(p)
    \/ \E p \in Procs, j \in Jobs, k \in Kinds : Arrive(p, j, k)
    \/ \E j \in Jobs : Runs(j) \/ Panic(j) \/ HandlerEnds(j)
    \/ PowerLoss \/ Tick

Spec == Init /\ [][Next]_vars

\* The runtime polls the Lockdown driver and runs the jobs' threads to their end.
\* Crashes, arrivals, panics, clients, the fire driver and time are free.
Fairness ==
    /\ \A p \in Procs : WF_vars(TickStart(p) \/ TickPoll(p) \/ TickEnter(p) \/ TickEnd(p))
    /\ \A j \in Jobs : WF_vars(Runs(j))

FairSpec == Spec /\ Fairness

-----------------------------------------------------------------------------
(* What must hold.                                                          *)

Attributes == [there : BOOLEAN, gen : BOOLEAN, lock : {"absent", "open", "locked"}]

ProcState ==
    [pc : {"off", "read", "create", "syncLatch", "bind", "bound", "syncClaim",
           "serving", "dead"},
     locked : BOOLEAN, claimed : BOOLEAN, sign : Jobs \cup {"free"},
     signPoison : BOOLEAN, storePoison : BOOLEAN, armed : 0 .. MaxTime + Delay,
     beat : 0 .. MaxTime, tick : {"wait", "poll", "enter", "end"},
     tickNow : 0 .. MaxTime, fire : {"wait", "end"}, outbox : SUBSET Jobs,
     served : BOOLEAN]

JobState == [pc : {"none", "queued", "wait", "in", "net", "out", "done"},
             kind : Kinds, owner : Procs, client : BOOLEAN]

\* Every variable has its type; at most one process has the port.
TypeOK ==
    /\ now \in 1 .. MaxTime
    /\ durable \in BOOLEAN /\ override \in BOOLEAN
    /\ inode \in Attributes /\ disk \in Attributes
    /\ port \subseteq Procs /\ \A p, q \in port : p = q
    /\ proc \in [Procs -> ProcState]
    /\ job \in [Jobs -> JobState]
    /\ sent \subseteq Jobs /\ panics \in 0 .. MaxPanics /\ powers \in 0 .. MaxPower

\* claim_process_generation: on one config inode at most one process ever serves,
\* however starts race, fail, crash or lose power between two of their steps.
OneGeneration == \A p, q \in Procs : proc[p].served /\ proc[q].served => p = q

\* The reboot-death model: a machine that lost power runs the key again only from
\* durable storage that the operator allowed by the override.
RebootIsDeath ==
    powers > 0 => \A p \in Procs : Live(p) => durable /\ override

\* enter_lockdown and force_lockdown_fail_closed: once a node that serves has
\* latched Lockdown no request is registered any more, neither by a job that
\* passed its check before a forced latch nor by a later start.
NothingAfterLockdown ==
    [][(\E p \in Procs : proc[p].served /\ proc[p].locked)
        => \A q \in Procs : proc'[q].outbox \subseteq proc[q].outbox]_vars

\* record_deadline_tick publishes before the overlay is read, so a heartbeat at or
\* past T and a finished tick mean that the node has locked.
HeartbeatPastDeadline ==
    \A p \in Procs :
        /\ Live(p) /\ proc[p].armed # 0
        /\ proc[p].beat >= proc[p].armed /\ proc[p].tick = "wait"
        => proc[p].locked

\* PENDING_MAX_CONCURRENCY: one read of /pending at a time, also when its poller
\* disconnects and another one comes.
OnePendingRead ==
    \A i, j \in Jobs : ReadsPending(i) /\ ReadsPending(j) => i = j

\* The nets: at T, and after a panic that poisons a critical lock, the node locks,
\* whatever panicked before or while the driver waited, and also when no handler is
\* left to see the panic.
LockdownComes ==
    \A p \in Procs :
        (Live(p) /\ (Poisoned(p) \/ proc[p].armed \in 1 .. now))
        ~> (proc[p].locked \/ ~ Live(p))

\* The detached job owns the propagation: what was staged reaches the fan-out,
\* also when the client's deadline came first.
StagedIsSent ==
    \A j \in Jobs : (\E p \in Procs : Live(p) /\ j \in proc[p].outbox)
                    ~> (j \in sent \/ \E p \in Procs : job[j].owner = p /\ ~ Live(p))

\* The invariant of a process's life: types, a reboot is the key's death, the heartbeat
\* vouches for a driver that looked, and /pending is read once at a time.
ProcessInv == TypeOK /\ RebootIsDeath /\ HeartbeatPastDeadline /\ OnePendingRead
=============================================================================
