----------------------------- MODULE EventQueue -----------------------------
(***************************************************************************)
(* AlertQueue of watchtower.rs: the bounded queue behind GET /events.  The *)
(* watchtower pushes an alert per unaccepted spend, and the channel a      *)
(* freshness event per peer whose clock is off.  Readers pull with the     *)
(* cursor of their last pull.                                              *)
(*                                                                         *)
(* The deque is a set of entries: their sequence numbers order them.  An   *)
(* entry's key is the spend of an alert, or the peer of a freshness event. *)
(***************************************************************************)
EXTENDS Integers, FiniteSets

CONSTANTS
    Alerts,     \* spends the watchtower may report
    Peers,      \* peers of the channel
    Cap         \* the queue's bound

ASSUME QueueAssumption == Alerts \cap Peers = {} /\ Cap \in Nat

VARIABLES
    entries,    \* {[seq, key, count]}
    nextSeq,
    seen,       \* dedupe keys
    published,  \* per peer: the high-water and count published; -1 when none
    pushed,     \* history: {<<seq, alert>>} of every alert enqueued
    outages     \* history: {<<peer, high-water>>} of every event appended

queueVars == <<entries, nextSeq, seen, published, pushed, outages>>

Keys == Alerts \cup Peers
NotPublished == [mark |-> -1, count |-> 0]

QueueInit ==
    /\ entries = {} /\ nextSeq = 1 /\ seen = {}
    /\ published = [p \in Peers |-> NotPublished]
    /\ pushed = {} /\ outages = {}

KeysOf(es) == {e.key : e \in es}

\* Mutant: the newest entries are dropped when the queue is full.
KeepOldest(es) == {e \in es : Cardinality({f \in es : f.seq <= e.seq}) <= Cap}

\* The loop that pops the front until the cap is met.
Kept(es) == {e \in es : Cardinality({f \in es : f.seq >= e.seq}) <= Cap}

\* append, to the entries es with the dedupe keys sn
AppendTo(es, sn, k, c) ==
    LET all == es \cup {[seq |-> nextSeq, key |-> k, count |-> c]} IN
    /\ entries' = Kept(all)
    /\ seen' = sn \ KeysOf(all \ Kept(all))
    /\ nextSeq' = nextSeq + 1

\* push
Push(a) ==
    /\ UNCHANGED <<published, outages>>
    /\ \/ a \in seen /\ UNCHANGED <<entries, nextSeq, seen, pushed>>
       \/ /\ a \notin seen
          /\ AppendTo(entries, seen \cup {a}, a, 0)
          /\ pushed' = pushed \cup {<<nextSeq, a>>}

\* Mutant: the last count to arrive wins.
RepublishLast(p, c, hw) ==
    /\ published' = [published EXCEPT ![p] = [mark |-> hw, count |-> c]]
    /\ AppendTo({e \in entries : e.key # p}, seen \cup {p}, p, c)
    /\ outages' = outages \cup {<<p, hw>>}
    /\ UNCHANGED pushed

\* The arms of record_freshness that append: the peer's retained entry goes
\* first, so the event takes a slot of its own only when it had none.
Republish(p, c, hw) ==
    LET n == IF published[p].count > c THEN published[p].count ELSE c IN
    /\ published' = [published EXCEPT ![p] = [mark |-> hw, count |-> n]]
    /\ AppendTo({e \in entries : e.key # p}, seen \cup {p}, p, n)
    /\ outages' = outages \cup {<<p, hw>>}
    /\ UNCHANGED pushed

\* The arm for an equal high-water: the retained entry is updated in place.
UpdateRetained(p, c) ==
    /\ published' = [published EXCEPT ![p].count = c]
    /\ entries' = {IF e.key = p THEN [e EXCEPT !.count = c] ELSE e : e \in entries}
    /\ UNCHANGED <<nextSeq, seen, pushed, outages>>

\* record_freshness
RecordFreshness(p, c, hw) ==
    \/ hw > published[p].mark /\ Republish(p, c, hw)
    \/ hw = published[p].mark /\ c > published[p].count /\ UpdateRetained(p, c)
    \/ /\ \/ hw < published[p].mark
          \/ hw = published[p].mark /\ c <= published[p].count
       /\ UNCHANGED queueVars

\* since and cursor
Since(c) == {e \in entries : e.seq > c}
Cursor == nextSeq - 1

QueueTypeOK ==
    /\ entries \subseteq [seq : 1 .. nextSeq - 1, key : Keys, count : Nat]
    /\ nextSeq \in Nat \ {0}
    /\ seen \subseteq Keys
    /\ published \in [Peers -> [mark : Nat \cup {-1}, count : Nat]]

-----------------------------------------------------------------------------

\* The dedupe set is exactly the keys of the retained entries, one entry per key,
\* within the cap (push, append, record_freshness): a spend that is still queued
\* is not queued twice, and one that was evicted can be reported again.
DedupeMatchesQueue ==
    /\ seen = KeysOf(entries)
    /\ \A e, f \in entries : (e.seq = f.seq \/ e.key = f.key) => e = f
    /\ Cardinality(entries) <= Cap

\* A client of /events that carries its cursor misses no alert, unless more than
\* Cap events were appended since its last pull (since, cursor): a peer's repeated
\* freshness events displace their own entry, never an alert a client can still
\* ask for.
NoAlertMissed ==
    \A c \in 0 .. Cursor : Cursor - c <= Cap =>
        \A x \in pushed : x[1] > c => \E e \in Since(c) : e.seq = x[1] /\ e.key = x[2]

\* A client is shown, for each peer, the highest reject count published, and that
\* count never falls (record_freshness), though handlers reach the queue in any
\* order and entries are evicted in between.
CountsGrow ==
    [][\A p \in Peers :
        /\ published'[p].count >= published[p].count
        /\ \A e \in entries' : e.key = p => e.count = published'[p].count]_queueVars

\* Every sequence number was given to one alert or to one outage, a peer at one
\* latched high-water: an outage's retries are published at most once
\* (record_freshness), whatever order handlers reach the queue in.
OneEventPerOutage ==
    nextSeq - 1 = Cardinality(pushed) + Cardinality(outages)

=============================================================================
