-------------------------- MODULE BlockListenerProofs --------------------------
(* Proofs about BlockListener, for chains of any height, any number of         *)
(* crashes and of persistCryptoCache goroutines, and every choice of failures. *)
EXTENDS BlockListener, TLAPS

\* A block is broadcast before the loop advances past it, below the target.
Within == pc = "advance" => lastBlockHeight < target /\ lastBlockHeight \in announced

Inv == TypeOK /\ NoGap /\ CacheReached /\ Within

\* Every step of the loop, the goroutines, the chain and a restart keeps Inv.
LEMMA InvStep ==
  ASSUME Inv, [Next]_vars
  PROVE  Inv'
<1> USE ListenerAssumption
    DEF Inv, TypeOK, NoGap, CacheReached, Within, Heights, loop, feed, store, ghost
<1>1. CASE SyncBlock
  <2>1. CASE StartSync BY <2>1 DEF StartSync
  <2>2. CASE Synced BY <2>2 DEF Synced, Leave
  <2>3. CASE BroadcastNewBlock BY <2>3 DEF BroadcastNewBlock, Reached
  <2>4. CASE Advance BY <2>4 DEF Advance
  <2>5. CASE BlockFails BY <2>5 DEF BlockFails, Leave
  <2> QED BY <1>1, <2>1, <2>2, <2>3, <2>4, <2>5 DEF SyncBlock
<1>2. ASSUME NEW h \in Heights, Deliver(h) PROVE Inv'
  BY <1>2 DEF Deliver, ReceiveBlock, SendTimesOut, ExamineBlock, ExamineFails
<1>3. CASE PersistCryptoCache
  <2>1. CASE ReadHeight BY <2>1 DEF ReadHeight, LastSyncedBlockHeight
  <2>2. ASSUME NEW h \in persisting, WriteHeight(h) PROVE Inv'
    BY <2>2 DEF WriteHeight
  <2>3. ASSUME NEW h \in persisting, PersistFails(h) PROVE Inv'
    BY <2>3 DEF PersistFails
  <2> QED BY <1>3, <2>1, <2>2, <2>3 DEF PersistCryptoCache
<1>4. CASE Mine \/ Reorganise
  <2>1. tip' \in Heights
    BY <1>4 DEF Mine, Reorganise
  <2>2. UNCHANGED <<loop, feed, store, ghost, crashes>>
    BY <1>4 DEF Mine, Reorganise
  <2> QED BY <2>1, <2>2
<1>5. CASE Crash
  <2>1. CASE cache = None
    <3>1. /\ lastBlockHeight' = tip
          /\ skipped' = skipped \cup {h \in 0..MaxHeight : lastBlockHeight <= h /\ h < tip}
      BY <1>5, <2>1 DEF Crash, StartHeight, JumpedOver
    <3>2. NoGap'
      BY <1>5, <3>1 DEF Crash
    <3>3. skipped' \subseteq 0..MaxHeight
      BY <3>1
    <3>4. /\ lastBlockHeight' \in 0..MaxHeight
          /\ lost' \subseteq 0..MaxHeight
      BY <1>5, <3>1 DEF Crash
    <3>5. TypeOK'
      BY <1>5, <3>3, <3>4 DEF Crash
    <3>6. CacheReached' /\ Within'
      BY <1>5, <2>1 DEF Crash
    <3> QED BY <3>2, <3>5, <3>6
  <2>2. CASE cache # None
    BY <1>5, <2>2 DEF Crash, StartHeight, JumpedOver
  <2> QED BY <2>1, <2>2
<1>6. CASE UNCHANGED vars
  BY <1>6 DEF vars
<1> QED
  BY <1>1, <1>2, <1>3, <1>4, <1>5, <1>6 DEF Next

\* Inv holds in every state.
LEMMA ListenerInvariant == Spec => []Inv
<1>1. Init => Inv
  BY ListenerAssumption
     DEF Init, Inv, TypeOK, NoGap, CacheReached, Within, Heights
<1>2. Inv /\ [Next]_vars => Inv'
  BY InvStep
<1> QED BY <1>1, <1>2, PTL DEF Spec

\* The variables of the listener have their types.
THEOREM ListenerTypeCorrect == Spec => []TypeOK
<1>1. Inv => TypeOK
  BY DEF Inv
<1> QED BY <1>1, ListenerInvariant, PTL

\* The sync loop passes over no block but those that a restart finding no stored
\* height jumps over, whatever the daemon fails to answer, however it reorganises
\* the chain and wherever the process is restarted.
THEOREM OnlyUncachedRestartsSkip == Spec => []NoGap
<1>1. Inv => NoGap
  BY DEF Inv
<1> QED BY <1>1, ListenerInvariant, PTL

\* No height that is stored, or on its way to be, is ahead of the listener.
THEOREM CacheNeverAhead == Spec => []CacheReached
<1>1. Inv => CacheReached
  BY DEF Inv
<1> QED BY <1>1, ListenerInvariant, PTL
=============================================================================
