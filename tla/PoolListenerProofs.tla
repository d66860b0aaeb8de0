--------------------------- MODULE PoolListenerProofs ---------------------------
(* Proofs about PoolListener, for every set of transactions and every choice of *)
(* failures.                                                                    *)
EXTENDS PoolListener, TLAPS

\* A transaction that may still be broadcast has entered the pool once more
\* than it has been broadcast: one the tick has not looked at yet, and one that
\* the listing under way, or the last one between two ticks, did not have.
Owed(t) ==
    \/ t \in todo
    \/ pc = "idle" /\ t \in pool /\ t \notin txs
    \/ pc = "tick" /\ t \in pool /\ t \notin newTxs

OwedEntered == \A t \in Txs : Owed(t) => sent[t] < entered[t]

\* Nothing is left to look at between two ticks.
IdleDone == pc = "idle" => todo = {}

Inv == TypeOK /\ OncePerStay /\ OwedEntered /\ IdleDone

\* Every step of the tick, of the goroutines and of the daemon keeps Inv.
LEMMA InvStep ==
  ASSUME Inv, [Next]_vars
  PROVE  Inv'
<1> USE PoolAssumption DEF Inv, TypeOK, OncePerStay, OwedEntered, Owed, IdleDone,
       tick, feed, ghost
<1>1. CASE SyncTransactionPool
  <2>1. CASE ListPool BY <2>1 DEF ListPool
  <2>2. CASE ListFails BY <2>2 DEF ListFails, vars
  <2>3. CASE EndTick BY <2>3 DEF EndTick, SeenNow
  <2>4. ASSUME NEW t \in Txs, BroadcastNewTx(t) PROVE Inv'
    <3>1. sending' \in [Txs -> Nat] /\ sent' \in [Txs -> Nat]
      BY <2>4 DEF BroadcastNewTx
    <3>2. sent'[t] = sent[t] + 1 /\ \A u \in Txs \ {t} : sent'[u] = sent[u]
      BY <2>4 DEF BroadcastNewTx
    <3>3. sent[t] < entered[t] /\ entered' = entered
      BY <2>4 DEF BroadcastNewTx
    <3>4. \A u \in Txs : sent'[u] <= entered'[u]
      BY <3>1, <3>2, <3>3
    <3>5. \A u \in Txs : Owed(u)' => u # t /\ Owed(u)
      BY <2>4 DEF BroadcastNewTx
    <3>6. OwedEntered'
      BY <3>2, <3>3, <3>5
    <3>7. TypeOK'
      BY <2>4, <3>1 DEF BroadcastNewTx
    <3>8. IdleDone'
      BY <2>4 DEF BroadcastNewTx
    <3> QED BY <3>4, <3>6, <3>7, <3>8
  <2>5. ASSUME NEW t \in Txs, TxFails(t) PROVE Inv'
    BY <2>5 DEF TxFails
  <2> QED BY <1>1, <2>1, <2>2, <2>3, <2>4, <2>5 DEF SyncTransactionPool
<1>2. ASSUME NEW t \in Txs, ReceiveTx(t) \/ SendTimesOut(t) PROVE Inv'
  <2>1. sending' \in [Txs -> Nat]
    BY <1>2 DEF ReceiveTx, SendTimesOut
  <2>2. /\ registered' \in BOOLEAN
        /\ UNCHANGED <<pool, tick, ghost>>
    BY <1>2 DEF ReceiveTx, SendTimesOut
  <2> QED BY <2>1, <2>2
<1>3. ASSUME NEW t \in Txs, EnterPool(t) PROVE Inv'
  BY <1>3 DEF EnterPool
<1>4. ASSUME NEW t \in Txs, LeavePool(t) PROVE Inv'
  BY <1>4 DEF LeavePool
<1>5. CASE UNCHANGED vars
  BY <1>5 DEF vars
<1> QED BY <1>1, <1>2, <1>3, <1>4, <1>5 DEF Next

\* Inv holds in every state.
LEMMA PoolInvariant == Spec => []Inv
<1>1. Init => Inv
  BY PoolAssumption DEF Init, Inv, TypeOK, OncePerStay, OwedEntered, Owed, IdleDone
<1>2. Inv /\ [Next]_vars => Inv'
  BY InvStep
<1> QED BY <1>1, <1>2, PTL DEF Spec

\* The variables of the listener have their types.
THEOREM PoolTypeCorrect == Spec => []TypeOK
<1>1. Inv => TypeOK
  BY DEF Inv
<1> QED BY <1>1, PoolInvariant, PTL

\* A transaction is broadcast at most once for each stay in the pool, for every
\* set of transactions and whatever fails.
THEOREM BroadcastOncePerStay == Spec => []OncePerStay
<1>1. Inv => OncePerStay
  BY DEF Inv
<1> QED BY <1>1, PoolInvariant, PTL
=============================================================================
