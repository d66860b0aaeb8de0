----------------------------- MODULE BlockListener ------------------------------
(***************************************************************************)
(* How one coin's processor learns of blocks: syncBlock of the listener    *)
(* (internal/listener/base.go) walks from the last synced height to the    *)
(* tip, a goroutine per block sends it to the channel of the processor,    *)
(* whose load (internal/processor/base.go) fetches the transactions of     *)
(* each block in a goroutine, while persistCryptoCache stores the height a *)
(* restart begins from.                                                    *)
(*                                                                         *)
(* A block is its height.  The processor has registered its channel before *)
(* the first tick of the listener, ten seconds after Start.  Nothing calls *)
(* Stop, so there is one sync loop.                                        *)
(***************************************************************************)
EXTENDS Integers, FiniteSets

CONSTANTS
    MaxHeight,   \* bound on the height of the chain
    MaxCrashes,  \* bound on the number of crashes
    MaxPersists, \* bound on the persistCryptoCache goroutines at a time
    Faults,      \* what may fail: a call of the daemon, a channel nobody reads
    None         \* no height

ASSUME ListenerAssumption ==
    /\ MaxHeight \in Nat /\ MaxCrashes \in Nat /\ MaxPersists \in Nat
    /\ Faults \subseteq {"fetch", "timeout"}
    /\ None \notin Nat

VARIABLES
    tip,              \* the daemon's last block height
    pc,               \* of the sync loop
    target,           \* the height this round of syncBlock goes up to
    lastBlockHeight,  \* blockSync.lastBlockHeight: the next block to fetch
    registered,       \* the processor's channel is in newBlockChns
    sending,          \* blocks in a goroutine of broadcastNewBlock
    fetching,         \* blocks in a goroutine of load
    examined,         \* blocks whose transactions went to verifyTxOnMempool
    cache,            \* crypto_cache.last_synced_block_height
    persisting,       \* heights read by persistCryptoCache and not yet written
    first,            \* ghost: the height of the very first start
    announced,        \* ghost: the blocks broadcast in any lifetime
    lost,             \* ghost: those whose transactions a failure has lost
    skipped,          \* ghost: those a restart without a cached height jumped over
    crashes

loop  == <<pc, target, lastBlockHeight>>
feed  == <<registered, sending, fetching, examined>>
store == <<cache, persisting>>
ghost == <<first, announced, lost, skipped>>
vars  == <<tip, loop, feed, store, ghost, crashes>>

Heights == 0..MaxHeight

Init ==
    /\ tip \in Heights
    /\ pc = "idle"
    /\ target = None
    /\ lastBlockHeight = tip
    /\ registered = TRUE
    /\ sending = {}
    /\ fetching = {}
    /\ examined = {}
    /\ cache = None
    /\ persisting = {}
    /\ first = tip
    /\ announced = {}
    /\ lost = {}
    /\ skipped = {}
    /\ crashes = 0

-----------------------------------------------------------------------------
(* syncBlock                                                               *)

\* GetLastBlockHeight answers; when it fails there is nothing to do.
StartSync ==
    /\ pc = "idle"
    /\ pc' = "loop"
    /\ target' = tip
    /\ UNCHANGED <<tip, lastBlockHeight, feed, store, ghost, crashes>>

Leave ==
    /\ pc' = "idle"
    /\ target' = None
    /\ UNCHANGED <<tip, lastBlockHeight, feed, store, ghost, crashes>>

\* Slip: off by one.
AlmostReached == target <= lastBlockHeight + 1

Reached == target <= lastBlockHeight

Synced == pc = "loop" /\ Reached /\ Leave

\* GetBlockByHeight answers and broadcastNewBlock starts a goroutine for each
\* registered channel.
BroadcastNewBlock ==
    /\ pc = "loop"
    /\ ~Reached
    /\ lastBlockHeight <= tip
    /\ pc' = "advance"
    /\ sending' = IF registered THEN sending \cup {lastBlockHeight} ELSE sending
    /\ announced' = announced \cup {lastBlockHeight}
    /\ lost' = IF registered THEN lost ELSE lost \cup {lastBlockHeight}
    /\ UNCHANGED <<tip, target, lastBlockHeight, registered, fetching, examined, store,
                   first, skipped, crashes>>

Advance ==
    /\ pc = "advance"
    /\ pc' = "loop"
    /\ lastBlockHeight' = lastBlockHeight + 1
    /\ UNCHANGED <<tip, target, feed, store, ghost, crashes>>

\* Slip: the loop goes on with the next block when one cannot be fetched.
SkipBlock ==
    /\ pc = "loop"
    /\ ~Reached
    /\ "fetch" \in Faults \/ lastBlockHeight > tip
    /\ pc' = "advance"
    /\ UNCHANGED <<tip, target, lastBlockHeight, feed, store, ghost, crashes>>

\* GetBlockByHeight fails: the next tick tries the same height again.
BlockFails ==
    /\ pc = "loop"
    /\ ~Reached
    /\ "fetch" \in Faults \/ lastBlockHeight > tip
    /\ Leave

-----------------------------------------------------------------------------
(* broadcastNewBlock and the goroutines of load                            *)

\* The processor's loop receives a block and starts a goroutine for it.
ReceiveBlock(h) ==
    /\ h \in sending
    /\ sending' = sending \ {h}
    /\ fetching' = fetching \cup {h}
    /\ UNCHANGED <<tip, loop, registered, examined, store, ghost, crashes>>

\* Nobody has received it for MIN_SYNC_TIMEOUT: the channel is deleted.
SendTimesOut(h) ==
    /\ "timeout" \in Faults
    /\ h \in sending
    /\ sending' = sending \ {h}
    /\ registered' = FALSE
    /\ lost' = lost \cup {h}
    /\ UNCHANGED <<tip, loop, fetching, examined, store, first, announced, skipped,
                   crashes>>

\* GetTransactions answers with the transactions of the block.
ExamineBlock(h) ==
    /\ h \in fetching
    /\ fetching' = fetching \ {h}
    /\ examined' = examined \cup {h}
    /\ UNCHANGED <<tip, loop, registered, sending, store, ghost, crashes>>

\* GetTransactions fails and the goroutine returns: nothing tries again.
ExamineFails(h) ==
    /\ "fetch" \in Faults
    /\ h \in fetching
    /\ fetching' = fetching \ {h}
    /\ lost' = lost \cup {h}
    /\ UNCHANGED <<tip, loop, registered, sending, examined, store, first, announced,
                   skipped, crashes>>

-----------------------------------------------------------------------------
(* persistCryptoCache: a goroutine every minute, which may find an earlier *)
(* one not done.                                                           *)

\* Slip: it stores the height of the chain it is syncing to.
TargetHeight == IF target = None THEN lastBlockHeight ELSE target

LastSyncedBlockHeight == lastBlockHeight

ReadHeight ==
    /\ Cardinality(persisting) < MaxPersists
    /\ persisting' = persisting \cup {LastSyncedBlockHeight}
    /\ UNCHANGED <<tip, loop, feed, cache, ghost, crashes>>

\* UpdateCryptoCacheByCoin commits, in any order.
WriteHeight(h) ==
    /\ h \in persisting
    /\ persisting' = persisting \ {h}
    /\ cache' = h
    /\ UNCHANGED <<tip, loop, feed, ghost, crashes>>

PersistFails(h) ==
    /\ h \in persisting
    /\ persisting' = persisting \ {h}
    /\ UNCHANGED <<tip, loop, feed, cache, ghost, crashes>>

-----------------------------------------------------------------------------
(* The daemon: the chain grows, and a reorganisation or another node       *)
(* behind the same address may answer with a lower height for a while.     *)

Mine ==
    /\ tip < MaxHeight
    /\ tip' = tip + 1
    /\ UNCHANGED <<loop, feed, store, ghost, crashes>>

Reorganise ==
    /\ tip > 0
    /\ tip' = tip - 1
    /\ UNCHANGED <<loop, feed, store, ghost, crashes>>

\* Slip: the restart trusts a cache that is NULL.
FromCache == cache

\* load: the cached height, or that of the chain when there is none.
StartHeight == IF cache = None THEN tip ELSE cache

\* What a restart jumps over when no height was ever persisted: it begins at the
\* tip, wherever the listener had come to.
JumpedOver == IF cache = None THEN {h \in Heights : lastBlockHeight <= h /\ h < tip} ELSE {}

\* The process stops and is started again.
Crash ==
    /\ crashes < MaxCrashes
    /\ crashes' = crashes + 1
    /\ pc' = "idle"
    /\ target' = None
    /\ lastBlockHeight' = StartHeight
    /\ registered' = TRUE
    /\ sending' = {}
    /\ fetching' = {}
    /\ persisting' = {}
    /\ lost' = lost \cup sending \cup fetching
    /\ skipped' = skipped \cup JumpedOver
    /\ UNCHANGED <<tip, examined, cache, first, announced>>

SyncBlock == StartSync \/ Synced \/ BroadcastNewBlock \/ Advance \/ BlockFails

Deliver(h) == ReceiveBlock(h) \/ SendTimesOut(h) \/ ExamineBlock(h) \/ ExamineFails(h)

PersistCryptoCache == ReadHeight \/ \E h \in persisting : WriteHeight(h) \/ PersistFails(h)

Next ==
    \/ SyncBlock
    \/ \E h \in Heights : Deliver(h)
    \/ PersistCryptoCache
    \/ Mine \/ Reorganise
    \/ Crash

Spec == Init /\ [][Next]_vars

\* The ticker fires and the goroutines run; a daemon asked for the same block
\* over and over answers in the end.
Fairness ==
    /\ WF_vars(SyncBlock)
    /\ SF_vars(BroadcastNewBlock)
    /\ \A h \in Heights : WF_vars(ReceiveBlock(h)) /\ WF_vars(ExamineBlock(h))

FairSpec == Spec /\ Fairness

-----------------------------------------------------------------------------
(* Properties                                                              *)

\* The type of every variable of the listener.
TypeOK ==
    /\ tip \in Heights
    /\ pc \in {"idle", "loop", "advance"}
    /\ target \in Heights \cup {None}
    /\ pc # "idle" => target \in Heights
    /\ lastBlockHeight \in Heights
    /\ registered \in BOOLEAN
    /\ sending \subseteq Heights
    /\ fetching \subseteq Heights
    /\ examined \subseteq Heights
    /\ cache \in Heights \cup {None}
    /\ persisting \subseteq Heights
    /\ first \in Heights
    /\ announced \subseteq Heights
    /\ lost \subseteq Heights
    /\ skipped \subseteq Heights
    /\ crashes \in Nat

\* From the very first start on the sync loop passes over no block, but for those a
\* restart jumps over because persistCryptoCache had not yet stored any height: such
\* a restart begins at the tip.  A failed fetch is repeated, and once a height is
\* stored a restart goes back to one below which every block has been broadcast or
\* was so skipped, however late and in whatever order the heights were written.
NoGap ==
    \A h \in Heights :
        first <= h /\ h < lastBlockHeight => h \in announced \cup skipped

\* The height in the database, which a restart begins from when there is one, is
\* one the listener has reached, and so is every height still on its way there.
CacheReached ==
    /\ cache # None => cache <= lastBlockHeight
    /\ \A h \in persisting : h <= lastBlockHeight

\* A block from the first start on that stays below the tip is examined, although
\* blocks are fetched and delivered by goroutines in any order and the tip may go up
\* and down.  There are two ways to lose one and nothing repeats either: a failure
\* after its broadcast (GetTransactions fails, the channel is given up, or the
\* process stops with the block on its way), and, before its broadcast, a restart
\* while no height is stored, which begins at the tip.
BlocksExamined ==
    \A h \in Heights :
        <>[](tip > h) => <>(h < first \/ h \in examined \cup lost \cup skipped)
=============================================================================
