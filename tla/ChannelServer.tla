---------------------------- MODULE ChannelServer ----------------------------
(***************************************************************************)
(* Delivery of one payload per peer over POST /channel: the sender's retry *)
(* loop (retry_message_until, retry_loop, try_endpoints), a network that   *)
(* loses, delays, repeats and reorders envelopes and replies, and the      *)
(* receiving node: its concurrency permits and body timeout (server.rs),   *)
(* ingest with its guards, and the freshness events it queues.             *)
(*                                                                         *)
(* A handler takes the guards' lock, the freshness counters' lock and the  *)
(* queue's lock one after the other, so handlers may overtake each other   *)
(* between them: each hold is a step.  What the store or the node makes of *)
(* an accepted payload is any of their answers (CarrierNode and            *)
(* CandidateStore have them).                                              *)
(***************************************************************************)
EXTENDS EventQueue, IngressGuards

CONSTANTS
    Handlers,          \* permits of the channel's semaphore
    Endpoints,         \* number of endorsed endpoints of the receiver
    Backoff,           \* default_backoff
    MsgType,           \* what a peer delivers: "partial", "request" (a spend)
                       \* or "refresh" (a request that is no spend)
    Deadline,          \* when delivery of it ends
    Start, MaxTime,    \* bounds on the clocks
    Excursion,         \* how far the receiver's clock may jump ahead
    MaxSteps,          \* bound: how often it jumps or comes back
    MaxAttempts,       \* bound: envelopes a sender builds
    MaxCopies          \* bound: copies of envelopes the network delivers

ASSUME ServerAssumption ==
    /\ Senders = Peers
    /\ Start \in Nat /\ MaxTime \in Nat /\ Start <= MaxTime /\ Excursion \in Nat
    /\ Backoff \in Seq(Nat) /\ Backoff # << >>
    /\ Start > QuotaWindow /\ Start > FreshnessPast
    /\ \A p \in Peers : MsgType[p] \in {"partial", "request", "refresh"}
    /\ \A p \in Peers : Deadline[p] \in Start .. MaxTime

VARIABLES
    time,       \* the true time, which senders read
    ahead,      \* whether the receiver's clock is Excursion ahead
    steps,      \* how often that changed
    sent,       \* envelopes built so far: {[peer, nonce, ts]}
    wire,       \* those whose first copy is under way
    copies,     \* how many further copies were delivered
    handler,    \* the request a permit is held for
    counts,     \* freshness_counts
    sender      \* the retry loop of each peer

serverVars == <<handler, counts>>
netVars    == <<sent, wire, copies>>
timeVars   == <<time, ahead, steps>>
vars == <<queueVars, guardVars, timeVars, netVars, serverVars, sender>>

Reading == IF ahead THEN time + Excursion ELSE time

NoEnvelope == [peer |-> CHOOSE p \in Peers : TRUE, nonce |-> 0, ts |-> 0]
Idle == [pc |-> "idle", env |-> NoEnvelope, first |-> FALSE, now |-> 0, count |-> 0]

Init ==
    /\ QueueInit /\ GuardsInit
    /\ time = Start /\ ahead = FALSE /\ steps = 0
    /\ sent = {} /\ wire = {} /\ copies = 0
    /\ handler = [h \in Handlers |-> Idle]
    /\ counts = [p \in Peers |-> 0]
    /\ sender = [p \in Peers |->
          [pc |-> "endpoint", ep |-> 1, tries |-> 0, built |-> 0, until |-> 0,
           answer |-> "none"]]

-----------------------------------------------------------------------------
(* The sender.                                                               *)

\* build_envelope: a fresh nonce each time.
NonceFor(p) == sender[p].built + 1

Permanent == {"rejected", "replayed", "stale"}     \* RetryOutcome::Rejected

\* The turn of retry_loop after answer r with wait w: stop on an acceptance or a
\* rejection, give up past the deadline, or sleep, no longer than to the second
\* after it.  An answer "limited" names its wait; any other failure backs off.
Resolved(p, r, w) ==
    LET s == sender[p]
        i == IF s.tries < Len(Backoff) THEN s.tries + 1 ELSE Len(Backoff)
        nap == Later(IF r = "limited" THEN w ELSE Backoff[i], 1)
        left == Floor(Deadline[p], time) + 1
    IN
    IF r \in Permanent \cup {"accepted"} THEN [s EXCEPT !.pc = "done", !.answer = r]
    ELSE IF time > Deadline[p] THEN [s EXCEPT !.pc = "done", !.answer = "gave up"]
    ELSE [s EXCEPT !.pc = "sleep", !.ep = 1,
                   !.until = time + (IF nap < left THEN nap ELSE left),
                   !.tries = IF r = "limited" THEN @ ELSE i]

\* try_endpoints, one turn of its loop: past the deadline, or after the last
\* endpoint, the attempt has failed; else an envelope is built and sent.
TryEndpoint(p) ==
    /\ sender[p].pc = "endpoint"
    /\ IF sender[p].ep > Endpoints \/ time > Deadline[p]
       THEN sender' = [sender EXCEPT ![p] = Resolved(p, "error", 0)] /\ UNCHANGED netVars
       ELSE LET e == [peer |-> p, nonce |-> NonceFor(p), ts |-> time] IN
            /\ sender[p].built < MaxAttempts
            /\ sent' = sent \cup {e} /\ wire' = wire \cup {e}
            /\ sender' = [sender EXCEPT ![p].pc = "sending", ![p].built = e.nonce]
            /\ UNCHANGED copies
    /\ UNCHANGED <<queueVars, guardVars, timeVars, serverVars>>

\* send_envelope fails (refused, reset, timed out, or an answer that parse_reply
\* does not know): the next endpoint is tried.  The envelope may still arrive.
SendFails(p) ==
    /\ sender[p].pc = "sending"
    /\ sender' = [sender EXCEPT ![p].pc = "endpoint", ![p].ep = @ + 1]
    /\ UNCHANGED <<queueVars, guardVars, timeVars, netVars, serverVars>>

\* The sleep is over, and the head of retry_loop: an attempt starts unless the
\* deadline has passed.
Wake(p) ==
    /\ sender[p].pc = "sleep" /\ time >= sender[p].until
    /\ sender' = [sender EXCEPT ![p] =
          IF time > Deadline[p] THEN [@ EXCEPT !.pc = "done", !.answer = "gave up"]
                                ELSE [@ EXCEPT !.pc = "endpoint", !.until = 0]]
    /\ UNCHANGED <<queueVars, guardVars, timeVars, netVars, serverVars>>

\* The sender is told reply r, with a wait of w, if it still waits for nonce n.
Tell(p, n, r, w) ==
    IF sender[p].pc = "sending" /\ sender[p].built = n
    THEN sender' = [sender EXCEPT ![p] = Resolved(p, r, w)]
    ELSE UNCHANGED sender

-----------------------------------------------------------------------------
(* The receiver.                                                             *)

\* A copy of an envelope reaches POST /channel: the first one, whose connection
\* the sender reads, or a later one.
Arrives(e, first) ==
    \/ first /\ e \in wire /\ wire' = wire \ {e} /\ UNCHANGED <<sent, copies>>
    \/ ~ first /\ e \in sent /\ copies < MaxCopies
       /\ copies' = copies + 1 /\ UNCHANGED <<sent, wire>>

\* channel(): a permit is taken, and held while the body is read.
Accept(h, e, first) ==
    /\ handler[h].pc = "idle"
    /\ Arrives(e, first)
    /\ handler' = [handler EXCEPT ![h] = [Idle EXCEPT !.pc = "read", !.env = e, !.first = first]]
    /\ UNCHANGED <<queueVars, guardVars, timeVars, counts, sender>>

\* channel() without a permit: 429 with a wait of a second.
NoPermit(e, first) ==
    /\ \A h \in Handlers : handler[h].pc # "idle"
    /\ Arrives(e, first)
    /\ IF first THEN Tell(e.peer, e.nonce, "limited", 1) ELSE UNCHANGED sender
    /\ UNCHANGED <<queueVars, guardVars, timeVars, serverVars>>

\* The request of handler h is answered with r, a wait of w; the permit is free.
Answer(h, r, w) ==
    /\ handler' = [handler EXCEPT ![h] = Idle]
    /\ IF handler[h].first THEN Tell(handler[h].env.peer, handler[h].env.nonce, r, w)
                           ELSE UNCHANGED sender

\* Mutant: a body that times out keeps its permit.
TurnAwayKeepsPermit(h) ==
    /\ handler[h].pc = "read"
    /\ handler' = [handler EXCEPT ![h].pc = "leaked"]
    /\ UNCHANGED <<queueVars, guardVars, timeVars, netVars, counts, sender>>

\* The body did not arrive in time (429), was too large or failed (400), or is
\* not an envelope of this federation for this node: the checks of ingest before
\* the guards, and the signature.  Nothing is charged.
TurnAway(h) ==
    /\ handler[h].pc = "read"
    /\ \/ Answer(h, "limited", 1)
       \/ ~ handler[h].first /\ Answer(h, "rejected", 0)
    /\ UNCHANGED <<queueVars, guardVars, timeVars, netVars, counts>>

\* What the store makes of a partial, or the node of a request.
Dispatched == {"accepted", "rejected", "unknown"}
\* ... and of a stale envelope that carries a spend (handle_outer_stale_spend).
StaleDispatched == {"accepted", "stale", "unknown"}

\* ingest: the guards' verdict, and what follows it but for a stale envelope
Ingest(h) ==
    LET e == handler[h].env
        now == Clock(Reading)
        v == Verdict(e, now)
    IN
    /\ handler[h].pc = "read"
    /\ CheckAndConsume(e, Reading)
    /\ \/ v = "accepted" /\ \E r \in Dispatched : Answer(h, r, 0)
       \/ v = "stale" /\ UNCHANGED sender
          /\ handler' = [handler EXCEPT ![h].pc = "count", ![h].now = now]
       \/ v = "replayed" /\ Answer(h, "replayed", 0)
       \/ v = "limited"  /\ Answer(h, "limited", RetryAfter(e.peer, now))
    /\ UNCHANGED <<queueVars, timeVars, netVars, counts>>

\* record_freshness_reject, its first lock
CountReject(h) ==
    LET p == handler[h].env.peer IN
    /\ handler[h].pc = "count"
    /\ counts' = [counts EXCEPT ![p] = @ + 1]
    /\ handler' = [handler EXCEPT ![h].pc = "publish", ![h].count = counts[p] + 1]
    /\ UNCHANGED <<queueVars, guardVars, timeVars, netVars, sender>>

\* record_freshness_reject, its second lock; then a stale request that is a spend
\* goes on to handle_outer_stale_spend, anything else is rejected.
PublishReject(h) ==
    LET e == handler[h].env IN
    /\ handler[h].pc = "publish"
    /\ RecordFreshness(e.peer, handler[h].count, handler[h].now)
    /\ IF MsgType[e.peer] = "request"
       THEN \E r \in StaleDispatched : Answer(h, r, 0)
       ELSE Answer(h, "stale", 0)
    /\ UNCHANGED <<guardVars, timeVars, netVars, counts>>

-----------------------------------------------------------------------------
(* The queue's other users, and the clocks.                                  *)

\* scan's push of an alert
Alert(a) ==
    /\ Push(a)
    /\ UNCHANGED <<guardVars, timeVars, netVars, serverVars, sender>>

Tick ==
    /\ time < MaxTime /\ time' = time + 1
    /\ UNCHANGED <<queueVars, guardVars, ahead, steps, netVars, serverVars, sender>>

StepClock ==
    /\ steps < MaxSteps
    /\ ahead' = ~ ahead /\ steps' = steps + 1
    /\ UNCHANGED <<queueVars, guardVars, time, netVars, serverVars, sender>>

SenderStep(p) == TryEndpoint(p) \/ SendFails(p) \/ Wake(p)
HandlerStep(h) == TurnAway(h) \/ Ingest(h) \/ CountReject(h) \/ PublishReject(h)

Next ==
    \/ \E p \in Peers : SenderStep(p)
    \/ \E e \in sent, first \in BOOLEAN :
          NoPermit(e, first) \/ \E h \in Handlers : Accept(h, e, first)
    \/ \E h \in Handlers : HandlerStep(h)
    \/ \E a \in Alerts : Alert(a)
    \/ Tick \/ StepClock

Spec == Init /\ [][Next]_vars

\* A body that does not arrive times out, and a handler that has it runs on its
\* own thread; a sender's task is polled, and its sends time out; time goes on.
FairSpec ==
    /\ Spec
    /\ WF_vars(Tick)
    /\ \A p \in Peers : WF_vars(SenderStep(p))
    /\ \A h \in Handlers : WF_vars(TurnAway(h)) /\ WF_vars(CountReject(h) \/ PublishReject(h))

-----------------------------------------------------------------------------

TypeOK ==
    /\ QueueTypeOK
    /\ highWater \in Nat /\ time \in Start .. MaxTime
    /\ charged \in [Peers -> Seq(Nat)]
    /\ wire \subseteq sent
    /\ \A p \in Peers : sender[p].pc \in {"endpoint", "sending", "sleep", "done"}

\* A sender whose delivery ends with REPLAYED_NONCE, which retry_loop takes for a
\* permanent rejection, has been delivered: some copy of that very envelope
\* passed the guards (try_endpoints builds an envelope per send, and an envelope
\* turned away for quota keeps its nonce).
ReplayedWasDelivered ==
    \A p \in Peers :
        sender[p].answer = "replayed" =>
            \E a \in accepts : a[1] = p /\ a[2] = sender[p].built

\* Delivery ends by the second after its deadline, where time stops here: the
\* retry loop of every sender returns, whatever is lost and however long it was
\* told to wait (retry_loop, try_endpoints).
DeliveryEnds == \A p \in Peers : <>(sender[p].pc = "done")

\* Every permit comes back, though a client may never send its body (the body
\* timeout of channel()).
PermitsReturn == \A h \in Handlers : handler[h].pc # "idle" ~> handler[h].pc = "idle"

\* The invariant of the event queue: types, the dedupe set is what is queued, a reader
\* misses no alert unnoticed, and an outage is one event.
EventsInv == TypeOK /\ DedupeMatchesQueue /\ NoAlertMissed /\ OneEventPerOutage

\* Neither a sender's retries nor a receiver's permit last for ever.
NothingHangs == DeliveryEnds /\ PermitsReturn
=============================================================================
