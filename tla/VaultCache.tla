----------------------------- MODULE VaultCache -----------------------------
(***************************************************************************)
(* The confirmed-vault cache of the chain backend (BitcoindBackend): the   *)
(* refresher that keeps it (refresh_vault_unspent_cache_mode) from the     *)
(* node's own descriptor wallet, from bounded block deltas or from a whole *)
(* scantxoutset, the thread that builds and repairs that wallet            *)
(* (seed_vault_wallet), and the fire-time reader (vault_unspent), whose    *)
(* answer is the denominator of the escape's coverage.                     *)
(*                                                                         *)
(* Every RPC is a step of its own: blocks arrive, the chain reorganizes,   *)
(* the wallet falls behind and the mempool moves between any two of them.  *)
(* RPCs fail and the process restarts; the wallet survives in Core.        *)
(* Bitcoin Core itself is external and is modelled by what the code asks   *)
(* of it.                                                                  *)
(***************************************************************************)
EXTENDS Integers, FiniteSets, FiniteSetsExt

CONSTANTS
    Blocks, Root,   \* a tree of blocks
    Parent,         \* [Blocks -> Blocks], Root its own
    Time,           \* [Blocks -> Nat], rising along a branch
    Included,       \* [Blocks -> SUBSET Txs]
    Txs,
    Creates, Spends,\* [Txs -> SUBSET Coins]: vault outputs made and consumed
    RootCoins,      \* vault outputs of the root block
    Accepted,       \* the transactions this node accepted
    MaxDelta,       \* MAX_VAULT_SCAN_DELTA_BLOCKS
    MaxReorgs,      \* bound: how often the chain leaves its branch
    MaxMoves,       \* bound: mempool entries and evictions
    MaxMishaps      \* bound: failed RPCs and restarts, together

Coins == RootCoins \cup UNION {Creates[tx] : tx \in Txs}
NoBlock == "none"

ASSUME CacheAssumption ==
    /\ IsFiniteSet(Blocks) /\ Root \in Blocks /\ NoBlock \notin Blocks
    /\ Parent \in [Blocks -> Blocks]
    /\ Time \in [Blocks -> Nat]
    /\ \A b \in Blocks \ {Root} : Time[Parent[b]] < Time[b]
    /\ Included \in [Blocks -> SUBSET Txs]
    /\ Creates \in [Txs -> SUBSET Coins] /\ Spends \in [Txs -> SUBSET Coins]
    /\ Accepted \subseteq Txs
    /\ MaxDelta \in Nat \ {0}

NoCache == [block |-> NoBlock, candidates |-> {}]

-----------------------------------------------------------------------------
(* The chain.                                                                *)

Branch[b \in Blocks] == {b} \cup (IF b = Root THEN {} ELSE Branch[Parent[b]])
Height[b \in Blocks] == Cardinality(Branch[b])
TxsOf[b \in Blocks] == UNION {Included[x] : x \in Branch[b]}
Made[b \in Blocks] == RootCoins \cup UNION {Creates[tx] : tx \in TxsOf[b]}
Spent[b \in Blocks] == UNION {Spends[tx] : tx \in TxsOf[b]}
Unspent[b \in Blocks] == Made[b] \ Spent[b]
MadeAt(c, b) == IF c \in RootCoins THEN Root
                ELSE CHOOSE x \in Branch[b] : \E tx \in Included[x] : c \in Creates[tx]
At(b, h) == CHOOSE x \in Branch[b] : Height[x] = h

\* Consensus: an outpoint names one output of one transaction, and a branch confirms
\* a transaction once.
ASSUME MadeOnce ==
    /\ \A tx \in Txs : Creates[tx] \cap RootCoins = {}
    /\ \A s, t \in Txs : s # t => Creates[s] \cap Creates[t] = {}
    /\ \A b \in Blocks : \A x, y \in Branch[b] :
           x # y => Included[x] \cap Included[y] = {}

VARIABLES
    tip, reorgs,
    pool, sequence,  \* mempool_sequence
    mishaps,
    wallet,     \* Core's descriptor wallet: birthday, markers, block reached, transactions
    handle,     \* vault_wallet: the anchor of the verified wallet, or NoBlock
    latched,    \* wallet_reimport_pending
    importing,  \* wallet_reimport_in_progress
    cache,      \* scan_cache
    refresh,    \* the refresher's pass
    seed,       \* the wallet-building thread
    read        \* the fire pass's vault_unspent

coreVars == <<tip, reorgs, pool, sequence, wallet>>
backendVars == <<handle, latched, importing, cache>>
cacheVars == <<coreVars, mishaps, backendVars, refresh, seed, read>>

Never == 1 + Max({Time[b] : b \in Blocks})
NoWallet == [birthday |-> Never, markers |-> {}, at |-> Root, seen |-> {}]
Active(b) == b \in Branch[tip]

\* What a wallet of that birthday watches on a branch.
WatchedOn(b, birthday) == {c \in Made[b] : Time[MadeAt(c, b)] >= birthday}
Watched == WatchedOn(wallet.at, wallet.birthday)

\* The wallet at the tip: it keeps every debit it ever saw.
Synced(w) ==
    [w EXCEPT !.at = tip,
              !.seen = @ \cup {tx \in TxsOf[tip] \cup pool :
                                  Spends[tx] \cap WatchedOn(tip, w.birthday) # {}}]

WalletAtTip == wallet.birthday = Never \/ wallet = Synced(wallet)

\* External: the wallet works its way to the tip.
WalletSync ==
    /\ ~ WalletAtTip
    /\ wallet' = Synced(wallet)
    /\ UNCHANGED <<tip, reorgs, pool, sequence, mishaps, backendVars, refresh, seed, read>>

\* External: a longer branch becomes active.  A dropped transaction returns to the
\* mempool, and the sequence counts every change but a mined transaction's exit.
NewTip(b) ==
    /\ Height[b] > Height[tip]
    /\ Parent[b] = tip \/ (tip \notin Branch[b] /\ reorgs < MaxReorgs)
    /\ reorgs' = IF tip \in Branch[b] THEN reorgs ELSE reorgs + 1
    /\ tip' = b
    /\ pool' = {tx \in pool \cup (TxsOf[tip] \ TxsOf[b]) :
                      /\ tx \notin TxsOf[b]
                      /\ Spends[tx] \cap Spent[b] = {}}
    /\ sequence' = IF pool' = pool \ TxsOf[b] THEN sequence ELSE sequence + 1
    /\ UNCHANGED <<wallet, mishaps, backendVars, refresh, seed, read>>

\* External: a transaction enters or leaves the mempool.
Enter(tx) ==
    /\ sequence < MaxMoves
    /\ tx \notin pool \cup TxsOf[tip]
    /\ Spends[tx] \subseteq Unspent[tip] \ UNION {Spends[t] : t \in pool}
    /\ pool' = pool \cup {tx}
    /\ sequence' = sequence + 1
    /\ UNCHANGED <<tip, reorgs, wallet, mishaps, backendVars, refresh, seed, read>>

Leave(tx) ==
    /\ sequence < MaxMoves
    /\ tx \in pool
    /\ pool' = pool \ {tx}
    /\ sequence' = sequence + 1
    /\ UNCHANGED <<tip, reorgs, wallet, mishaps, backendVars, refresh, seed, read>>

\* gettxout with the mempool included.
Hidden == UNION {Spends[tx] : tx \in pool}
Protected == (Unspent[tip] \cup UNION {Creates[tx] : tx \in pool \cap Accepted})
                 \ Hidden

-----------------------------------------------------------------------------
(* The refresher.                                                            *)

NoPass == [pc |-> "idle", cached |-> NoCache, repair |-> FALSE, started |-> FALSE,
           attempt |-> 0, best |-> NoBlock, block |-> NoBlock, candidates |-> {},
           through |-> 0]

Refreshing(pc) == refresh' = [refresh EXCEPT !.pc = pc]
RefreshEnds == refresh' = NoPass

\* The anchor is checked first, and a wallet whose anchor left the chain is
\* latched out.  A wallet is not read while this process is importing into it.
StartRefresh ==
    /\ refresh.pc = "idle"
    /\ LET repair == latched \/ (handle # NoBlock /\ ~ Active(handle))
       IN  /\ latched' = repair
           /\ refresh' = [NoPass EXCEPT
                            !.pc = IF repair \/ importing THEN "base" ELSE "wallet",
                            !.cached = cache, !.repair = repair, !.started = importing]
    /\ UNCHANGED <<coreVars, mishaps, handle, importing, cache, seed, read>>

\* The read failed: the handle goes, and the pass falls back.
WalletErr == handle' = NoBlock /\ Refreshing("base")

\* ensure_vault_wallet without a scan: a handle, or any marker still active.
OpenWallet ==
    /\ refresh.pc = "wallet"
    /\ \/ handle # NoBlock /\ Refreshing("best") /\ UNCHANGED handle
       \/ /\ handle = NoBlock
          /\ \E m \in wallet.markers : Active(m) /\ handle' = m
          /\ Refreshing("best")
       \/ /\ handle = NoBlock
          /\ \A m \in wallet.markers : ~ Active(m)
          /\ WalletErr
    /\ UNCHANGED <<coreVars, mishaps, latched, importing, cache, seed, read>>

ReadBest ==
    /\ refresh.pc = "best"
    /\ refresh' = [refresh EXCEPT !.pc = "list", !.best = tip]
    /\ UNCHANGED <<coreVars, mishaps, backendVars, seed, read>>

\* listunspent hides what a transaction the wallet knows has spent.
Listed == {c \in Unspent[wallet.at] \cap Watched :
              \A tx \in wallet.seen : c \notin Spends[tx]}

\* External: Core answers a wallet RPC for at least the last block that another RPC
\* reported to the caller (BlockUntilSyncedToCurrentChain).
CaughtUp == Height[wallet.at] >= Height[refresh.best]

ListUnspent ==
    /\ refresh.pc = "list"
    /\ CaughtUp
    /\ refresh' = [refresh EXCEPT !.pc = "since",
                                  !.candidates = Listed \cup refresh.cached.candidates]
    /\ UNCHANGED <<coreVars, mishaps, backendVars, seed, read>>

\* listsinceblock from the cache's block, or from the fork if that block went,
\* or all of history without a cache.
Recent == IF refresh.cached.block = NoBlock THEN Branch[wallet.at]
          ELSE Branch[wallet.at] \ Branch[refresh.cached.block]
Credits == {c \in Watched : MadeAt(c, wallet.at) \in Recent}
PendingInputs == UNION {Spends[tx] : tx \in wallet.seen \ TxsOf[wallet.at]}
Debited == UNION {Spends[tx] : tx \in wallet.seen \cap UNION {Included[b] : b \in Recent}}

\* Credits and the inputs of unconfirmed debits are added, confirmed debits
\* leave last.
Reconciled(found) == (found \cup Credits \cup PendingInputs) \ Debited

ListSinceBlock ==
    /\ refresh.pc = "since"
    /\ CaughtUp
    /\ refresh' = [refresh EXCEPT !.pc = "check", !.block = wallet.at,
                                  !.candidates = Reconciled(refresh.candidates)]
    /\ UNCHANGED <<coreVars, mishaps, backendVars, seed, read>>

CheckBest ==
    /\ refresh.pc = "check"
    /\ \/ /\ tip = refresh.best
          /\ refresh' = [refresh EXCEPT !.pc = "confirm", !.best = NoBlock]
          /\ UNCHANGED handle
       \/ /\ tip # refresh.best
          /\ refresh.attempt = 0
          /\ refresh' = [refresh EXCEPT !.pc = "best", !.attempt = 1, !.best = NoBlock,
                                        !.block = NoBlock, !.candidates = {}]
          /\ UNCHANGED handle
       \/ /\ tip # refresh.best
          /\ refresh.attempt = 1
          /\ WalletErr
    /\ UNCHANGED <<coreVars, mishaps, latched, importing, cache, seed, read>>

ConfirmWalletBlock ==
    /\ refresh.pc = "confirm"
    /\ \/ Active(refresh.block) /\ Refreshing("held") /\ UNCHANGED handle
       \/ ~ Active(refresh.block) /\ WalletErr
    /\ UNCHANGED <<coreVars, mishaps, latched, importing, cache, seed, read>>

\* Mutant: the anchor is only checked before the read.
HeldBefore == TRUE

\* wallet_read_anchor_held.
AnchorHeld == handle # NoBlock /\ Active(handle)

PublishRead ==
    /\ refresh.pc = "held"
    /\ \/ /\ AnchorHeld
          /\ cache' = [block |-> refresh.block, candidates |-> refresh.candidates]
          /\ RefreshEnds
          /\ UNCHANGED latched
       \/ /\ ~ AnchorHeld
          /\ latched' = TRUE
          /\ refresh' = [refresh EXCEPT !.pc = "base", !.repair = TRUE]
          /\ UNCHANGED cache
    /\ UNCHANGED <<coreVars, mishaps, handle, importing, seed, read>>

\* Mutant: the delta extends a cache whose own block left the chain.
DeltaAlways == refresh.cached.block # NoBlock /\ (~ refresh.repair \/ refresh.started)

\* The delta may extend the cache this pass began with if it is still active and
\* no repair is pending, or the repair's own scan left it.
DeltaBase ==
    /\ refresh.cached.block # NoBlock
    /\ ~ refresh.repair \/ refresh.started
    /\ Active(refresh.cached.block)

ChooseBase ==
    /\ refresh.pc = "base"
    /\ refresh' = [NoPass EXCEPT !.pc = IF DeltaBase THEN "delta" ELSE "cold",
                                 !.cached = IF DeltaBase THEN refresh.cached ELSE NoCache]
    /\ UNCHANGED <<coreVars, mishaps, backendVars, seed, read>>

\* advance_confirmed_scan: how far this pass goes.
ReadTipHeight ==
    /\ refresh.pc = "delta"
    /\ \/ /\ Height[tip] <= Height[refresh.cached.block]
          /\ cache' = refresh.cached
          /\ RefreshEnds
       \/ /\ Height[tip] > Height[refresh.cached.block]
          /\ refresh' = [refresh EXCEPT !.pc = "walk",
                             !.through = Min({Height[tip],
                                              Height[refresh.cached.block] + MaxDelta})]
          /\ UNCHANGED cache
    /\ UNCHANGED <<coreVars, mishaps, handle, latched, importing, seed, read>>

\* The blocks chain onto the cached one and the last is still active, or the
\* update is dropped.
WalkBlocks ==
    /\ refresh.pc = "walk"
    /\ RefreshEnds
    /\ IF Active(refresh.cached.block)
       THEN LET b == At(tip, refresh.through)
                txs == TxsOf[b] \ TxsOf[refresh.cached.block]
            IN  cache' = [block |-> b,
                          candidates |->
                              (refresh.cached.candidates
                                   \cup UNION {Creates[t] : t \in txs})
                                  \ UNION {Spends[t] : t \in txs}]
       ELSE UNCHANGED cache
    /\ UNCHANGED <<coreVars, mishaps, handle, latched, importing, seed, read>>

\* full_confirmed_scan: scantxoutset answers for one block.
ColdScan ==
    /\ refresh.pc = "cold"
    /\ refresh' = [refresh EXCEPT !.pc = "scanned", !.block = tip,
                                  !.candidates = Unspent[tip]]
    /\ UNCHANGED <<coreVars, mishaps, backendVars, seed, read>>

NoSeed == [pc |-> "idle", block |-> NoBlock, oldest |-> 0, birthday |-> 0, via |-> "none"]

\* The oldest output the scan found, or the scan's own height.
OldestUnspent(b) ==
    IF Unspent[b] = {} THEN Height[b]
    ELSE Min({Height[MadeAt(c, b)] : c \in Unspent[b]})

\* The scan is published before the wallet is built, and one thread builds it.
PublishScan ==
    /\ refresh.pc = "scanned"
    /\ RefreshEnds
    /\ \/ /\ Active(refresh.block)
          /\ cache' = [block |-> refresh.block, candidates |-> refresh.candidates]
          /\ importing' = TRUE
          /\ seed' = IF importing THEN seed
                     ELSE [NoSeed EXCEPT !.pc = "ensure", !.block = refresh.block,
                                         !.oldest = OldestUnspent(refresh.block)]
       \/ /\ ~ Active(refresh.block)
          /\ UNCHANGED <<cache, importing, seed>>
    /\ UNCHANGED <<coreVars, mishaps, handle, latched, read>>

\* An RPC of the pass fails: a wallet read falls back, anything else ends it.
RefreshFails ==
    /\ mishaps < MaxMishaps
    /\ mishaps' = mishaps + 1
    /\ \/ /\ refresh.pc \in {"wallet", "best", "list", "since", "check", "confirm"}
          /\ WalletErr
       \/ /\ refresh.pc \in {"held", "base", "delta", "walk", "cold", "scanned"}
          /\ RefreshEnds
          /\ UNCHANGED handle
    /\ UNCHANGED <<coreVars, latched, importing, cache, seed, read>>

-----------------------------------------------------------------------------
(* The fire-time reader.                                                     *)

NoRead == [pc |-> "idle", attempt |-> 0, resident |-> {}, sequence |-> 0,
           tip |-> NoBlock, candidates |-> {}, found |-> {}]

Reading(pc) == read' = [read EXCEPT !.pc = pc]

SnapshotMempool ==
    /\ read.pc \in {"idle", "again", "done"}
    /\ read' = [NoRead EXCEPT !.pc = "tip", !.resident = pool, !.sequence = sequence,
                              !.attempt = IF read.pc = "again" THEN 1 ELSE 0]
    /\ UNCHANGED <<coreVars, mishaps, backendVars, refresh, seed>>

\* confirmed_candidates: best_block_hash, and only a cache at that very block.
ReadTip ==
    /\ read.pc = "tip"
    /\ read' = [read EXCEPT !.pc = "cache", !.tip = tip]
    /\ UNCHANGED <<coreVars, mishaps, backendVars, refresh, seed>>

CacheAtTip == cache.block = read.tip

ReadCache ==
    /\ read.pc = "cache"
    /\ read' = IF CacheAtTip
               THEN [read EXCEPT !.pc = "confirmed", !.candidates = cache.candidates]
               ELSE NoRead
    /\ UNCHANGED <<coreVars, mishaps, backendVars, refresh, seed>>

\* gettxout in one batch; only confirmed vault outputs count here.
ReadConfirmed ==
    /\ read.pc = "confirmed"
    /\ read' = [read EXCEPT !.pc = "authorized", !.candidates = {},
                            !.found = (read.candidates \cap Unspent[tip]) \ Hidden]
    /\ UNCHANGED <<coreVars, mishaps, backendVars, refresh, seed>>

\* The unconfirmed outputs of transactions this node accepted.
AcceptedOutputs == UNION {Creates[tx] : tx \in read.resident \cap Accepted \cap pool}

ReadAuthorized ==
    /\ read.pc = "authorized"
    /\ read' = [read EXCEPT !.pc = "check", !.found = @ \cup (AcceptedOutputs \ Hidden)]
    /\ UNCHANGED <<coreVars, mishaps, backendVars, refresh, seed>>

\* Mutant: only the members of the mempool are compared, not its sequence.
SameMembers == tip = read.tip /\ pool = read.resident

StableRead == tip = read.tip /\ sequence = read.sequence

\* One retry, then the read is refused.
CheckRead ==
    /\ read.pc = "check"
    /\ \/ /\ StableRead
          /\ read' = [NoRead EXCEPT !.pc = "done", !.found = read.found]
       \/ /\ ~ StableRead
          /\ read' = IF read.attempt = 0 THEN [NoRead EXCEPT !.pc = "again"] ELSE NoRead
    /\ UNCHANGED <<coreVars, mishaps, backendVars, refresh, seed>>

-----------------------------------------------------------------------------
(* Building and repairing the wallet.                                        *)

Seeding(pc) == seed' = [seed EXCEPT !.pc = pc]

SeedEnds == seed' = NoSeed /\ importing' = FALSE

\* ensure_vault_wallet with a scan.
EnsureWallet ==
    /\ seed.pc = "ensure"
    /\ \/ handle # NoBlock /\ Seeding("pending") /\ UNCHANGED handle
       \/ /\ handle = NoBlock
          /\ \E m \in wallet.markers : Active(m) /\ handle' = m
          /\ Seeding("pending")
       \/ /\ handle = NoBlock
          /\ \A m \in wallet.markers : ~ Active(m)
          /\ seed' = [seed EXCEPT !.pc = "birthday",
                          !.via = IF wallet.birthday = Never THEN "create" ELSE "repair"]
          /\ UNCHANGED handle
    /\ UNCHANGED <<coreVars, mishaps, latched, importing, cache, refresh, read>>

\* Only a pending repair imports again into a wallet that verifies.
ReimportIfPending ==
    /\ seed.pc = "pending"
    /\ \/ /\ latched
          /\ seed' = [seed EXCEPT !.pc = "birthday", !.via = "reimport"]
          /\ UNCHANGED importing
       \/ ~ latched /\ SeedEnds
    /\ UNCHANGED <<coreVars, mishaps, handle, latched, cache, refresh, read>>

\* block_time_at the height of the oldest output, on whatever chain is active.
ReadBirthday ==
    /\ seed.pc = "birthday"
    /\ seed' = [seed EXCEPT !.pc = "anchor", !.birthday = Time[At(tip, seed.oldest)]]
    /\ UNCHANGED <<coreVars, mishaps, backendVars, refresh, read>>

\* The scan's own block must still be active for the birthday to be its branch's.
ScanStillActive == Active(seed.block)

CheckAnchor ==
    /\ seed.pc = "anchor"
    /\ \/ ScanStillActive /\ Seeding("import") /\ UNCHANGED importing
       \/ ~ ScanStillActive /\ SeedEnds
    /\ UNCHANGED <<coreVars, mishaps, handle, latched, cache, refresh, read>>

\* The descriptors are imported and Core rescans from the birthday.
ImportDescriptors ==
    /\ seed.pc = "import"
    /\ wallet' = Synced([wallet EXCEPT !.birthday = Min({@, seed.birthday})])
    /\ Seeding("mark")
    /\ UNCHANGED <<tip, reorgs, pool, sequence, mishaps, backendVars, refresh, read>>

\* The marker comes last; a wallet without one is never read.
ImportMarker ==
    /\ seed.pc = "mark"
    /\ wallet' = [wallet EXCEPT !.markers = @ \cup {seed.block}]
    /\ \/ /\ seed.via = "create"
          /\ Seeding("verify")
          /\ UNCHANGED <<handle, latched, importing>>
       \/ /\ seed.via = "repair"
          /\ handle' = seed.block
          /\ latched' = FALSE
          /\ Seeding("pending")
          /\ UNCHANGED importing
       \/ /\ seed.via = "reimport"
          /\ handle' = IF handle = NoBlock THEN NoBlock ELSE seed.block
          /\ latched' = FALSE
          /\ SeedEnds
    /\ UNCHANGED <<tip, reorgs, pool, sequence, mishaps, cache, refresh, read>>

\* A new wallet is verified like any other.
VerifyCreated ==
    /\ seed.pc = "verify"
    /\ \/ /\ Active(seed.block)
          /\ handle' = seed.block
          /\ Seeding("pending")
       \/ /\ ~ Active(seed.block)
          /\ seed' = [seed EXCEPT !.pc = "birthday", !.via = "repair"]
          /\ UNCHANGED handle
    /\ UNCHANGED <<coreVars, mishaps, latched, importing, cache, refresh, read>>

\* An RPC of the build fails, or its thread panics; the flag is cleared.
SeedFails ==
    /\ seed.pc # "idle"
    /\ mishaps < MaxMishaps
    /\ mishaps' = mishaps + 1
    /\ SeedEnds
    /\ UNCHANGED <<coreVars, handle, latched, cache, refresh, read>>

\* The process restarts: everything but Core's wallet is gone.
Restart ==
    /\ mishaps < MaxMishaps
    /\ mishaps' = mishaps + 1
    /\ handle' = NoBlock
    /\ latched' = FALSE
    /\ importing' = FALSE
    /\ cache' = NoCache
    /\ refresh' = NoPass
    /\ seed' = NoSeed
    /\ read' = NoRead
    /\ UNCHANGED coreVars

-----------------------------------------------------------------------------

\* A backend at rest, and one that has just started.
CacheAtRest ==
    /\ tip = Root
    /\ reorgs = 0
    /\ pool = {}
    /\ sequence = 0
    /\ mishaps = 0
    /\ wallet = NoWallet
    /\ handle = NoBlock
    /\ latched = FALSE
    /\ importing = FALSE
    /\ refresh = NoPass
    /\ seed = NoSeed
    /\ read = NoRead

CacheInit == CacheAtRest /\ cache = NoCache

CoreStep ==
    \/ \E b \in Blocks : NewTip(b)
    \/ \E tx \in Txs : Enter(tx) \/ Leave(tx)
    \/ WalletSync

RefreshStep ==
    \/ StartRefresh \/ OpenWallet \/ ReadBest \/ ListUnspent \/ ListSinceBlock
    \/ CheckBest \/ ConfirmWalletBlock \/ PublishRead \/ ChooseBase
    \/ ReadTipHeight \/ WalkBlocks \/ ColdScan \/ PublishScan

SeedStep ==
    \/ EnsureWallet \/ ReimportIfPending \/ ReadBirthday \/ CheckAnchor
    \/ ImportDescriptors \/ ImportMarker \/ VerifyCreated

ReadStep ==
    \/ SnapshotMempool \/ ReadTip \/ ReadCache \/ ReadConfirmed
    \/ ReadAuthorized \/ CheckRead

CacheNext ==
    \/ CoreStep
    \/ RefreshStep \/ RefreshFails
    \/ SeedStep \/ SeedFails
    \/ ReadStep
    \/ Restart

\* The refresher's loop never ends, the import thread finishes, and the wallet
\* reaches the tip; nothing is assumed of the reader.
CacheFairness ==
    /\ []<>(refresh.pc = "idle")
    /\ []<>(refresh.pc # "idle")
    /\ []<>(seed.pc = "idle")
    /\ []<>WalletAtTip

CacheSpec == CacheInit /\ [][CacheNext]_cacheVars /\ CacheFairness

-----------------------------------------------------------------------------

\* Every variable has its type; an import is under way exactly while its thread
\* runs.
CacheTypeOK ==
    /\ tip \in Blocks
    /\ pool \subseteq Txs
    /\ wallet.markers \subseteq Blocks
    /\ handle \in Blocks \cup {NoBlock}
    /\ cache.block \in Blocks \cup {NoBlock}
    /\ cache.candidates \subseteq Coins
    /\ importing = (seed.pc # "idle")

\* Whatever built it, wallet, delta or scan, the cache holds every vault output
\* that is unspent at the block it names: a wallet that cannot know an output a
\* reorg brought back has not been read.
CacheCovers ==
    cache.block # NoBlock => Unspent[cache.block] \subseteq cache.candidates

\* An answer of vault_unspent is the whole vault at one instant: confirmed outputs
\* and accepted unconfirmed ones, less what the mempool spends.  An answer that
\* leaves an output out would inflate the escape's coverage.
AnswerIsWhole ==
    [][read.pc # "done" /\ read'.pc = "done" => read'.found = Protected]_cacheVars

\* The cache reaches the tip once the chain rests, and a latched repair ends: the
\* fire path is not refused for ever.
CacheCatchesUp == <>[](cache.block = tip /\ ~ latched)

\* The invariant of the cache: types, and no output of its block is missing.
CacheInv == CacheTypeOK /\ CacheCovers
=============================================================================
