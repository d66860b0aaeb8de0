------------------------------ MODULE PoolListener ------------------------------
(***************************************************************************)
(* How one coin's processor learns of transactions before they are in a    *)
(* block: syncTransactionPool of the listener (internal/listener/base.go)  *)
(* compares the daemon's pool with the one of the tick before, fetches the *)
(* new transactions one by one, and a goroutine per transaction sends each *)
(* to the channel of the processor.                                        *)
(***************************************************************************)
EXTENDS Naturals, FiniteSets

CONSTANTS
    Txs,        \* transactions that may enter the pool
    MaxEntries, \* bound on how often one of them enters it
    Faults      \* what may fail: listing the pool, fetching, the channel

ASSUME PoolAssumption ==
    /\ MaxEntries \in Nat
    /\ Faults \subseteq {"list", "fetch", "timeout"}

VARIABLES
    pool,        \* the daemon's pool
    txs,         \* transactionPoolSync.txs: the pool of the last tick
    pc,          \* of the loop: waiting for the ticker, or in a tick
    newTxs,      \* the pool this tick has listed
    todo,        \* what of it has not been looked at
    registered,  \* the processor's channel is in txPoolChns
    sending,     \* per transaction, the goroutines of broadcastNewTx under way
    entered,     \* ghost: how often a transaction has entered the pool
    sent,        \* ghost: how often it has been broadcast
    missed       \* ghost: those in the pool that could not be fetched

tick == <<pc, txs, newTxs, todo>>
feed == <<registered, sending>>
ghost == <<entered, sent, missed>>
vars  == <<pool, tick, feed, ghost>>

Init ==
    /\ pool \in SUBSET Txs
    /\ txs = {}
    /\ pc = "idle"
    /\ newTxs = {}
    /\ todo = {}
    /\ registered = TRUE
    /\ sending = [t \in Txs |-> 0]
    /\ entered = [t \in Txs |-> IF t \in pool THEN 1 ELSE 0]
    /\ sent = [t \in Txs |-> 0]
    /\ missed = {}

-----------------------------------------------------------------------------
(* syncTransactionPool                                                     *)

\* GetTransactionPool answers; what the last tick had is skipped.
ListPool ==
    /\ pc = "idle"
    /\ pc' = "tick"
    /\ newTxs' = pool
    /\ todo' = pool \ txs
    /\ UNCHANGED <<pool, txs, feed, ghost>>

\* Slip: the last tick is forgotten when the pool cannot be listed.
ForgetPool ==
    /\ "list" \in Faults
    /\ pc = "idle"
    /\ txs' = {}
    /\ UNCHANGED <<pool, pc, newTxs, todo, feed, ghost>>

ListFails ==
    /\ "list" \in Faults
    /\ pc = "idle"
    /\ UNCHANGED vars

\* GetTransactions answers and broadcastNewTx starts a goroutine for each
\* registered channel.
BroadcastNewTx(t) ==
    /\ t \in todo
    /\ todo' = todo \ {t}
    /\ sending' = IF registered THEN [sending EXCEPT ![t] = @ + 1] ELSE sending
    /\ sent' = [sent EXCEPT ![t] = @ + 1]
    /\ UNCHANGED <<pool, pc, txs, newTxs, registered, entered, missed>>

\* GetTransactions fails: the transaction counts as seen all the same.
TxFails(t) ==
    /\ "fetch" \in Faults
    /\ t \in todo
    /\ todo' = todo \ {t}
    /\ missed' = missed \cup ({t} \cap pool)
    /\ UNCHANGED <<pool, pc, txs, newTxs, feed, entered, sent>>

\* Slip: what was seen is added to, and never forgotten.
SeenSoFar == txs \cup newTxs

SeenNow == newTxs

\* Slip: the tick ends before every new transaction has been fetched.
EndTickEarly ==
    /\ pc = "tick"
    /\ pc' = "idle"
    /\ txs' = SeenNow
    /\ newTxs' = {}
    /\ UNCHANGED <<pool, todo, feed, ghost>>

EndTick ==
    /\ pc = "tick"
    /\ todo = {}
    /\ pc' = "idle"
    /\ txs' = SeenNow
    /\ newTxs' = {}
    /\ UNCHANGED <<pool, todo, feed, ghost>>

-----------------------------------------------------------------------------
(* broadcastNewTx                                                          *)

\* The processor's loop receives the transaction (and calls verifyTxOnMempool).
ReceiveTx(t) ==
    /\ sending[t] > 0
    /\ sending' = [sending EXCEPT ![t] = @ - 1]
    /\ UNCHANGED <<pool, tick, registered, ghost>>

\* Nobody has received it for MIN_SYNC_TIMEOUT: the channel is deleted.
SendTimesOut(t) ==
    /\ "timeout" \in Faults
    /\ sending[t] > 0
    /\ sending' = [sending EXCEPT ![t] = @ - 1]
    /\ registered' = FALSE
    /\ UNCHANGED <<pool, tick, ghost>>

-----------------------------------------------------------------------------
(* The daemon's pool: a transaction enters it, and leaves it for a block or *)
(* for good; a node may take it in again.                                   *)

EnterPool(t) ==
    /\ t \notin pool
    /\ entered[t] < MaxEntries
    /\ pool' = pool \cup {t}
    /\ entered' = [entered EXCEPT ![t] = @ + 1]
    /\ UNCHANGED <<tick, feed, sent, missed>>

LeavePool(t) ==
    /\ t \in pool
    /\ pool' = pool \ {t}
    /\ missed' = missed \ {t}
    /\ UNCHANGED <<tick, feed, entered, sent>>

SyncTransactionPool ==
    ListPool \/ ListFails \/ EndTick \/ \E t \in Txs : BroadcastNewTx(t) \/ TxFails(t)

Next ==
    \/ SyncTransactionPool
    \/ \E t \in Txs : ReceiveTx(t) \/ SendTimesOut(t)
    \/ \E t \in Txs : EnterPool(t) \/ LeavePool(t)

Spec == Init /\ [][Next]_vars

\* The ticker fires and the goroutines run.
Fairness ==
    /\ WF_vars(ListPool) /\ WF_vars(EndTick)
    /\ \A t \in Txs : WF_vars(BroadcastNewTx(t)) /\ WF_vars(ReceiveTx(t))

FairSpec == Spec /\ Fairness

-----------------------------------------------------------------------------
(* Properties                                                              *)

\* The type of every variable of the listener.
TypeOK ==
    /\ pool \subseteq Txs
    /\ txs \subseteq Txs
    /\ pc \in {"idle", "tick"}
    /\ newTxs \subseteq Txs
    /\ todo \subseteq newTxs
    /\ registered \in BOOLEAN
    /\ sending \in [Txs -> Nat]
    /\ entered \in [Txs -> Nat]
    /\ sent \in [Txs -> Nat]
    /\ missed \subseteq Txs

\* A transaction is broadcast at most once for each time it enters the pool,
\* whatever fails and however listings and arrivals interleave: the processor is
\* not flooded with what it has seen.
OncePerStay == \A t \in Txs : sent[t] <= entered[t]

\* A transaction that comes in after a tick has listed the pool without it is
\* broadcast once more, unless it leaves again or cannot be fetched: the pool of
\* the last tick stands for that tick alone.
NewTxSent ==
    \A t \in Txs, n \in 0..MaxEntries :
        pc = "tick" /\ t \notin newTxs /\ t \in pool /\ sent[t] = n
            ~> sent[t] > n \/ t \notin pool \/ t \in missed
=============================================================================
