------------------------- MODULE InvoiceProcessorProofs -------------------------
(* Proofs about InvoiceProcessor, for every set of invoices, addresses,      *)
(* transactions and workers and, where a theorem does not say otherwise, for *)
(* every choice of database failures.                                        *)
EXTENDS InvoiceProcessor, TLAPS

Base == TypeOK /\ Assigned /\ WatchedHasTimer

\* Initially nothing is watched and every job is at its first step.
LEMMA BaseInit == Init => Base
<1> USE ProcessorAssumption DEF Jobs, InvoicePcs, WorkerPcs
<1> SUFFICES ASSUME Init PROVE Base
  OBVIOUS
<1>1. Absent \in Rows
  BY DEF Absent, Rows, Statuses
<1>2. TypeOK
  BY <1>1 DEF Init, TypeOK
<1>3. Assigned /\ WatchedHasTimer
  BY DEF Init, Assigned, WatchedHasTimer
<1> QED BY <1>2, <1>3 DEF Base

\* Every step keeps the variables in their types, gives a request its address
\* before it goes on, and leaves no entry of pendingInvoices without a timer.
LEMMA BaseStep ==
  ASSUME Base, [Next]_vars
  PROVE  Base'
<1> USE ProcessorAssumption DEF Jobs, InvoicePcs, WorkerPcs
<1>0. Absent \in Rows /\ Fresh \in Rows
  BY DEF Absent, Fresh, Rows, Statuses
<1> USE <1>0 DEF Base, TypeOK, Assigned, WatchedHasTimer, table, memory, local, Goto
<1>1. ASSUME NEW i \in Invoices, Create(i) PROVE Base'
  <2>1. CASE FindAddress(i) BY <2>1 DEF FindAddress
  <2>2. CASE CreateInvoice(i) BY <2>2 DEF CreateInvoice
  <2>3. CASE CreateFails(i) BY <2>3 DEF CreateFails
  <2> QED BY <1>1, <2>1, <2>2, <2>3 DEF Create
<1>2. ASSUME NEW i \in Invoices, HandleInvoice(i) PROVE Base'
  BY <1>2, SMTT(30) DEF HandleInvoice
<1>3. ASSUME NEW i \in Invoices, TimerStep(i) PROVE Base'
  <2>1. CASE FireTimer(i) BY <2>1 DEF FireTimer
  <2>2. CASE StopTimer(i) BY <2>2 DEF StopTimer
  <2> QED BY <1>3, <2>1, <2>2 DEF TimerStep
<1>4. ASSUME NEW w \in Workers, Spawn(w) PROVE Base'
  <2>1. PICK i \in Invoices : SpawnOnBlock(w, i) \/ \E t \in Txs : SpawnOnTx(w, i, t)
    BY <1>4 DEF Spawn
  <2>2. CASE SpawnOnBlock(w, i) BY <2>2 DEF SpawnOnBlock, Watched
  <2>3. ASSUME NEW t \in Txs, SpawnOnTx(w, i, t) PROVE Base'
    BY <2>3 DEF SpawnOnTx, Watched
  <2> QED BY <2>1, <2>2, <2>3
<1>5. ASSUME NEW w \in Workers, WorkerStep(w) PROVE Base'
  <2>1. CASE VerifyTx(w)
    <3>1. CASE Goto(w, "mempool") /\ UNCHANGED local BY <2>1, <3>1 DEF VerifyTx
    <3>2. CASE Return(w) BY <2>1, <3>2 DEF VerifyTx, Return
    <3> QED BY <2>1, <3>1, <3>2 DEF VerifyTx
  <2>2. CASE ConfirmPendingMempool(w)
    <3>1. [status |-> "PENDING_MEMPOOL", tx |-> txId[w]] \in Rows
      BY DEF Rows, Statuses
    <3> QED BY <2>2, <3>1 DEF ConfirmPendingMempool
  <2>3. CASE ConfirmPendingMempoolFails(w) BY <2>3 DEF ConfirmPendingMempoolFails
  <2>4. CASE LoadTxId(w)
    <3>1. snapshot[inv[w]].tx \in Txs \cup {None}
      BY <2>4 DEF LoadTxId, Rows
    <3> QED BY <2>4, <3>1 DEF LoadTxId
  <2>5. CASE FetchRejected(w) BY <2>5 DEF FetchRejected, Answered
  <2>6. CASE FetchConfirmed(w) BY <2>6 DEF FetchConfirmed, Answered
  <2>7. CASE FetchNotYet(w) BY <2>7 DEF FetchNotYet, Answered
  <2>8. CASE RemoveConfirmed(w) BY <2>8 DEF RemoveConfirmed, Deleted
  <2>9. CASE ConfirmInvoice(w)
    <3>1. WithStatus(w, "CONFIRMED") \in Rows
      BY <2>9 DEF ConfirmInvoice, WithStatus, Rows, Statuses
    <3> QED BY <2>9, <3>1 DEF ConfirmInvoice
  <2>10. CASE ConfirmInvoiceFails(w) BY <2>10 DEF ConfirmInvoiceFails
  <2>11. CASE CommitWorker(w) BY <2>11, SMTT(30) DEF CommitWorker, Return
  <2> QED BY <1>5, <2>1, <2>2, <2>3, <2>4, <2>5, <2>6, <2>7, <2>8, <2>9, <2>10,
             <2>11 DEF WorkerStep
<1>6. ASSUME NEW j \in Jobs, ExpireStep(j) PROVE Base'
  <2>1. CASE RemoveExpired(j) BY <2>1 DEF RemoveExpired, AfterExpire, Deleted
  <2>2. CASE ExpireInvoice(j)
    <3>1. inv[j] \in Invoices
      BY <2>2 DEF ExpireInvoice
    <3>2. WithStatus(j, "EXPIRED") \in Rows
      BY <3>1 DEF WithStatus, Rows, Statuses
    <3> QED BY <2>2, <3>2 DEF ExpireInvoice
  <2>3. CASE ExpireInvoiceFails(j) BY <2>3 DEF ExpireInvoiceFails, AfterExpire
  <2>4. CASE CommitExpired(j) BY <2>4 DEF CommitExpired, AfterExpire
  <2>5. CASE CommitExpiredFails(j) BY <2>5 DEF CommitExpiredFails, AfterExpire
  <2> QED BY <1>6, <2>1, <2>2, <2>3, <2>4, <2>5 DEF ExpireStep
<1>7. ASSUME NEW a \in Addresses, ReleaseStep(a) PROVE Base'
  BY <1>7 DEF ReleaseStep, ReleaseAddress, ReleaseFails
<1>8. ASSUME NEW t \in Txs, Bury(t) \/ Reject(t) PROVE Base'
  BY <1>8 DEF Bury, Reject
<1>9. CASE UNCHANGED vars
  BY <1>9 DEF vars
<1> QED
  BY <1>1, <1>2, <1>3, <1>4, <1>5, <1>6, <1>7, <1>8, <1>9 DEF Next

\* Base holds in every state.
LEMMA BaseInvariant == Spec => []Base
<1>1. Base /\ [Next]_vars => Base'
  BY BaseStep
<1> QED BY BaseInit, <1>1, PTL DEF Spec

\* The variables of the processor have their types: no goroutine, whichever
\* step of base.go it is at, leaves a row, a map entry or a counter outside.
THEOREM TypeCorrect == Spec => []TypeOK
<1>1. Base => TypeOK
  BY DEF Base
<1> QED BY <1>1, BaseInvariant, PTL

\* Whatever fails, an entry of pendingInvoices is that of an invoice paid to
\* the address, with a timer that has neither been cancelled nor taken it away.
THEOREM EntriesHaveTimers == Spec => []WatchedHasTimer
<1>1. Base => WatchedHasTimer
  BY DEF Base
<1> QED BY <1>1, BaseInvariant, PTL

-----------------------------------------------------------------------------
Claims == OneClaim /\ ReservedAlone

\* One step keeps an address in one pair of hands.
LEMMA ClaimsStep ==
  ASSUME "createCommit" \notin Faults, Base, Claims, [Next]_vars
  PROVE  Claims'
<1> USE ProcessorAssumption
    DEF Base, TypeOK, Assigned, WatchedHasTimer, Claims, OneClaim, ReservedAlone, Holds,
        NoJobHolds, Jobs, table, memory, local, Goto
<1>1. ASSUME NEW i \in Invoices, Create(i) PROVE Claims'
  <2>1. CASE FindAddress(i)
    BY <2>1 DEF FindAddress, FreeFor, FreeAddresses, NewAddresses, Reserved
  <2>2. CASE CreateInvoice(i) BY <2>2 DEF CreateInvoice
  <2>3. CASE CreateFails(i) BY <2>3 DEF CreateFails
  <2> QED BY <1>1, <2>1, <2>2, <2>3 DEF Create
<1>2. ASSUME NEW i \in Invoices, HandleInvoice(i) PROVE Claims'
  <2>1. Holds(i, address[i]) /\ address[i] \in Addresses
    BY <1>2 DEF HandleInvoice
  <2>2. pendingInvoices[address[i]] = None
    BY <2>1
  <2>3. /\ Goto(i, "armed")
        /\ pendingInvoices' = [pendingInvoices EXCEPT ![address[i]] = i]
        /\ UNCHANGED <<address, occupancy, releases, inv>>
    BY <1>2, <2>2 DEF HandleInvoice
  <2> QED BY <2>1, <2>2, <2>3
<1>3. ASSUME NEW i \in Invoices, TimerStep(i) PROVE Claims'
  <2>1. CASE FireTimer(i) BY <2>1 DEF FireTimer
  <2>2. CASE StopTimer(i) BY <2>2 DEF StopTimer
  <2> QED BY <1>3, <2>1, <2>2 DEF TimerStep
<1>4. ASSUME NEW w \in Workers, Spawn(w) PROVE Claims'
  <2>1. PICK i \in Invoices : SpawnOnBlock(w, i) \/ \E t \in Txs : SpawnOnTx(w, i, t)
    BY <1>4 DEF Spawn
  <2>2. CASE SpawnOnBlock(w, i) BY <2>2 DEF SpawnOnBlock
  <2>3. ASSUME NEW t \in Txs, SpawnOnTx(w, i, t) PROVE Claims'
    BY <2>3 DEF SpawnOnTx
  <2> QED BY <2>1, <2>2, <2>3
<1>5. ASSUME NEW w \in Workers, WorkerStep(w) PROVE Claims'
  <2>1. CASE VerifyTx(w)
    <3>1. \/ Goto(w, "mempool") /\ UNCHANGED inv
          \/ Goto(w, "idle") /\ inv' = [inv EXCEPT ![w] = None]
      BY <2>1 DEF VerifyTx, Return
    <3>2. UNCHANGED <<address, occupancy, pendingInvoices, releases>>
      BY <2>1 DEF VerifyTx
    <3>3. pc[w] = "verify"
      BY <2>1 DEF VerifyTx
    <3>4. CASE Goto(w, "mempool") /\ UNCHANGED inv
      BY <3>2, <3>3, <3>4
    <3>5. CASE Goto(w, "idle") /\ inv' = [inv EXCEPT ![w] = None]
      BY <3>2, <3>3, <3>5
    <3> QED BY <3>1, <3>4, <3>5
  <2>2. CASE ConfirmPendingMempool(w) BY <2>2 DEF ConfirmPendingMempool
  <2>3. CASE ConfirmPendingMempoolFails(w) BY <2>3 DEF ConfirmPendingMempoolFails
  <2>4. CASE LoadTxId(w) BY <2>4 DEF LoadTxId
  <2>5. CASE FetchRejected(w) BY <2>5 DEF FetchRejected, Answered
  <2>6. CASE FetchConfirmed(w) BY <2>6 DEF FetchConfirmed, Answered
  <2>7. CASE FetchNotYet(w) BY <2>7 DEF FetchNotYet, Answered
  <2>8. CASE RemoveConfirmed(w) BY <2>8 DEF RemoveConfirmed, Deleted, Loaded
  <2>9. CASE ConfirmInvoice(w) BY <2>9 DEF ConfirmInvoice
  <2>10. CASE ConfirmInvoiceFails(w) BY <2>10 DEF ConfirmInvoiceFails
  <2>11. CASE CommitWorker(w) BY <2>11 DEF CommitWorker, Return
  <2> QED BY <1>5, <2>1, <2>2, <2>3, <2>4, <2>5, <2>6, <2>7, <2>8, <2>9, <2>10,
             <2>11 DEF WorkerStep
<1>6. ASSUME NEW j \in Jobs, ExpireStep(j) PROVE Claims'
  <2>1. CASE RemoveExpired(j) BY <2>1 DEF RemoveExpired, AfterExpire, Deleted, Loaded
  <2>2. CASE ExpireInvoice(j) BY <2>2 DEF ExpireInvoice
  <2>3. CASE ExpireInvoiceFails(j) BY <2>3 DEF ExpireInvoiceFails, AfterExpire
  <2>4. CASE CommitExpired(j) BY <2>4, SMTT(30) DEF CommitExpired, AfterExpire
  <2>5. CASE CommitExpiredFails(j) BY <2>5 DEF CommitExpiredFails, AfterExpire
  <2> QED BY <1>6, <2>1, <2>2, <2>3, <2>4, <2>5 DEF ExpireStep
<1>7. ASSUME NEW a \in Addresses, ReleaseStep(a) PROVE Claims'
  <2>1. CASE ReleaseAddress(a) BY <2>1 DEF ReleaseAddress
  <2>2. CASE ReleaseFails(a) BY <2>2 DEF ReleaseFails
  <2> QED BY <1>7, <2>1, <2>2 DEF ReleaseStep
<1>8. ASSUME NEW t \in Txs, Bury(t) \/ Reject(t) PROVE Claims'
  BY <1>8 DEF Bury, Reject
<1>9. CASE UNCHANGED vars
  BY <1>9 DEF vars
<1> QED
  BY <1>1, <1>2, <1>3, <1>4, <1>5, <1>6, <1>7, <1>8, <1>9 DEF Next

LEMMA InitClaims == Init => Claims
<1> SUFFICES ASSUME Init PROVE Claims
  OBVIOUS
<1>1. \A j \in Jobs : pc[j] \in {"absent", "idle"}
  BY DEF Init
<1>2. OneClaim
  BY <1>1 DEF Init, OneClaim, Holds, NoJobHolds
<1>3. ReservedAlone
  BY <1>1 DEF ReservedAlone, Jobs
<1> QED BY <1>2, <1>3 DEF Claims

\* When no commit of createInvoice is lost, an address is free or in one pair
\* of hands, for any number of requests, transactions, blocks and goroutines.
THEOREM AddressesAreExclusive ==
  ASSUME "createCommit" \notin Faults
  PROVE  Spec => []OneClaim
<1>1. Init => Claims
  BY InitClaims
<1>2. Base /\ Claims /\ [Next]_vars => Claims'
  BY ClaimsStep
<1>3. Claims => OneClaim
  BY DEF Claims
<1> QED BY <1>1, <1>2, <1>3, BaseInvariant, PTL DEF Spec

-----------------------------------------------------------------------------
\* What the proofs below need of the constants.
LEMMA Apart == None \notin Invoices \cup Addresses \cup Txs /\ Invoices \cap Workers = {}
BY ProcessorAssumption

Settled == Quiet /\ Unwatched /\ ResolvedNotWatched

\* One step keeps a resolved invoice, and one about to be, off the map.
LEMMA SettledStep ==
  ASSUME Base, Settled, [Next]_vars
  PROVE  Settled'
<1> USE Apart
    DEF Base, TypeOK, Assigned, WatchedHasTimer, Jobs, table, memory, local, Goto, Writing,
        Settled, Quiet, Unwatched, ResolvedNotWatched, Watched, Resolved, Absent
<1>1. ASSUME NEW i \in Invoices, Create(i) PROVE Settled'
  <2>1. CASE FindAddress(i) BY <2>1, SMTT(30) DEF FindAddress
  <2>2. CASE CreateInvoice(i) BY <2>2 DEF CreateInvoice, Fresh
  <2>3. CASE CreateFails(i) BY <2>3 DEF CreateFails
  <2> QED BY <1>1, <2>1, <2>2, <2>3 DEF Create
<1>2. ASSUME NEW i \in Invoices, HandleInvoice(i) PROVE Settled'
  <2>1. CASE pendingInvoices[address[i]] # None BY <1>2, <2>1 DEF HandleInvoice
  <2>2. CASE pendingInvoices[address[i]] = None BY <1>2, <2>2 DEF HandleInvoice, Fresh
  <2> QED BY <2>1, <2>2
<1>3. ASSUME NEW i \in Invoices, TimerStep(i) PROVE Settled'
  <2>1. CASE FireTimer(i) BY <2>1 DEF FireTimer
  <2>2. CASE StopTimer(i) BY <2>2 DEF StopTimer
  <2> QED BY <1>3, <2>1, <2>2 DEF TimerStep
<1>4. ASSUME NEW w \in Workers, Spawn(w) PROVE Settled'
  <2>1. PICK i \in Invoices : SpawnOnBlock(w, i) \/ \E t \in Txs : SpawnOnTx(w, i, t)
    BY <1>4 DEF Spawn
  <2>2. CASE SpawnOnBlock(w, i) BY <2>2 DEF SpawnOnBlock
  <2>3. ASSUME NEW t \in Txs, SpawnOnTx(w, i, t) PROVE Settled'
    BY <2>3 DEF SpawnOnTx
  <2> QED BY <2>1, <2>2, <2>3
<1>5. ASSUME NEW w \in Workers, WorkerStep(w) PROVE Settled'
  <2>1. CASE VerifyTx(w) BY <2>1, SMTT(30) DEF VerifyTx, Return
  <2>2. CASE ConfirmPendingMempool(w) BY <2>2 DEF ConfirmPendingMempool
  <2>3. CASE ConfirmPendingMempoolFails(w) BY <2>3 DEF ConfirmPendingMempoolFails
  <2>4. CASE LoadTxId(w) BY <2>4 DEF LoadTxId
  <2>5. CASE FetchRejected(w) BY <2>5 DEF FetchRejected, Answered
  <2>6. CASE FetchConfirmed(w) BY <2>6 DEF FetchConfirmed, Answered, Confirmed
  <2>7. CASE FetchNotYet(w) BY <2>7 DEF FetchNotYet, Answered
  <2>8. CASE RemoveConfirmed(w) BY <2>8 DEF RemoveConfirmed, Deleted, Loaded
  <2>9. CASE ConfirmInvoice(w) BY <2>9 DEF ConfirmInvoice, WithStatus
  <2>10. CASE ConfirmInvoiceFails(w) BY <2>10 DEF ConfirmInvoiceFails
  <2>11. CASE CommitWorker(w)
    <3>1. CASE row' = IF Writing(w) THEN [row EXCEPT ![inv[w]] = write[w]] ELSE row
      BY <2>11, <3>1 DEF CommitWorker, Return
    <3>2. CASE UNCHANGED row
      BY <2>11, <3>2 DEF CommitWorker, Return
    <3> QED BY <2>11, <3>1, <3>2 DEF CommitWorker
  <2> QED BY <1>5, <2>1, <2>2, <2>3, <2>4, <2>5, <2>6, <2>7, <2>8, <2>9, <2>10,
             <2>11 DEF WorkerStep
<1>6. ASSUME NEW j \in Jobs, ExpireStep(j) PROVE Settled'
  <2>1. CASE RemoveExpired(j) BY <2>1 DEF RemoveExpired, AfterExpire, Deleted, Loaded
  <2>2. CASE ExpireInvoice(j) BY <2>2 DEF ExpireInvoice, WithStatus
  <2>3. CASE ExpireInvoiceFails(j) BY <2>3 DEF ExpireInvoiceFails, AfterExpire
  <2>4. CASE CommitExpired(j) BY <2>4, SMTT(30) DEF CommitExpired, AfterExpire
  <2>5. CASE CommitExpiredFails(j) BY <2>5 DEF CommitExpiredFails, AfterExpire
  <2> QED BY <1>6, <2>1, <2>2, <2>3, <2>4, <2>5 DEF ExpireStep
<1>7. ASSUME NEW a \in Addresses, ReleaseStep(a) PROVE Settled'
  <2>1. CASE ReleaseAddress(a) BY <2>1 DEF ReleaseAddress
  <2>2. CASE ReleaseFails(a) BY <2>2 DEF ReleaseFails
  <2> QED BY <1>7, <2>1, <2>2 DEF ReleaseStep
<1>8. ASSUME NEW t \in Txs, Bury(t) \/ Reject(t) PROVE Settled'
  BY <1>8 DEF Bury, Reject
<1>9. CASE UNCHANGED vars
  BY <1>9 DEF vars
<1> QED
  BY <1>1, <1>2, <1>3, <1>4, <1>5, <1>6, <1>7, <1>8, <1>9 DEF Next

LEMMA InitSettled == Init => Settled
<1> SUFFICES ASSUME Init PROVE Settled
  OBVIOUS
<1>1. \A j \in Jobs : pc[j] \in {"absent", "idle"} /\ write[j] = Absent
  BY DEF Init
<1>2. \A i \in Invoices : row[i] = Absent /\ snapshot[i] = Absent
  BY DEF Init
<1>3. Quiet
  BY <1>1, <1>2 DEF Quiet, Writing, Absent, Resolved, Jobs
<1>4. Unwatched
  BY <1>1 DEF Unwatched, Absent, Resolved
<1>5. ResolvedNotWatched
  BY <1>2 DEF ResolvedNotWatched, Absent, Resolved
<1> QED BY <1>3, <1>4, <1>5 DEF Settled

\* Whatever fails, no invoice that is EXPIRED or CONFIRMED in the database is
\* watched.
THEOREM ResolvedAreNotWatched == Spec => []ResolvedNotWatched
<1>1. Init => Settled
  BY InitSettled
<1>2. Base /\ Settled /\ [Next]_vars => Settled'
  BY SettledStep
<1>3. Settled => ResolvedNotWatched
  BY DEF Settled
<1> QED BY <1>1, <1>2, <1>3, BaseInvariant, PTL DEF Spec

-----------------------------------------------------------------------------
Sound == PaidInFlight /\ ConfirmedWasPaid

\* One step confirms nothing that was not paid.
LEMMA SoundStep ==
  ASSUME Base, Settled, Sound, [Next]_vars
  PROVE  Sound'
<1> USE Apart
    DEF Base, TypeOK, Assigned, WatchedHasTimer, Jobs, table, memory, local, Goto, Writing,
        Settled, Quiet, Sound, PaidInFlight, ConfirmedWasPaid, Paid, Resolved, Absent
<1>1. ASSUME NEW i \in Invoices, Create(i) PROVE Sound'
  <2>1. CASE FindAddress(i) BY <2>1 DEF FindAddress
  <2>2. CASE CreateInvoice(i) BY <2>2 DEF CreateInvoice, Fresh
  <2>3. CASE CreateFails(i) BY <2>3, SMTT(30) DEF CreateFails
  <2> QED BY <1>1, <2>1, <2>2, <2>3 DEF Create
<1>2. ASSUME NEW i \in Invoices, HandleInvoice(i) PROVE Sound'
  <2>1. CASE pendingInvoices[address[i]] # None BY <1>2, <2>1 DEF HandleInvoice
  <2>2. CASE pendingInvoices[address[i]] = None
    <3>1. /\ Goto(i, "armed")
          /\ snapshot' = [snapshot EXCEPT ![i] = Fresh]
          /\ UNCHANGED <<row, address, inv, txId, write, chain>>
      BY <1>2, <2>2 DEF HandleInvoice
    <3>2. \A k \in Invoices : Paid(k)' <=> Paid(k)
      BY <3>1
    <3>3. \A k \in Invoices : snapshot'[k].tx # None => snapshot'[k].tx = snapshot[k].tx
      BY <3>1 DEF Fresh
    <3>4. PaidInFlight'
      BY <3>1, <3>2, <3>3
    <3> QED BY <3>1, <3>2, <3>4
  <2> QED BY <2>1, <2>2
<1>3. ASSUME NEW i \in Invoices, TimerStep(i) PROVE Sound'
  <2>1. CASE FireTimer(i) BY <2>1 DEF FireTimer
  <2>2. CASE StopTimer(i) BY <2>2 DEF StopTimer
  <2> QED BY <1>3, <2>1, <2>2 DEF TimerStep
<1>4. ASSUME NEW w \in Workers, Spawn(w) PROVE Sound'
  <2>1. PICK i \in Invoices : SpawnOnBlock(w, i) \/ \E t \in Txs : SpawnOnTx(w, i, t)
    BY <1>4 DEF Spawn
  <2>2. CASE SpawnOnBlock(w, i) BY <2>2 DEF SpawnOnBlock
  <2>3. ASSUME NEW t \in Txs, SpawnOnTx(w, i, t) PROVE Sound'
    BY <2>3 DEF SpawnOnTx
  <2> QED BY <2>1, <2>2, <2>3
<1>5. ASSUME NEW w \in Workers, WorkerStep(w) PROVE Sound'
  <2>1. CASE VerifyTx(w)
    <3>1. CASE Goto(w, "mempool") /\ UNCHANGED local
      <4>1. address[inv[w]] \in Pays[txId[w]]
        BY <2>1, <3>1 DEF VerifyTx, Return
      <4> QED BY <2>1, <3>1, <4>1 DEF VerifyTx
    <3>2. CASE Return(w)
      BY <2>1, <3>2 DEF VerifyTx, Return
    <3> QED BY <2>1, <3>1, <3>2 DEF VerifyTx
  <2>2. CASE ConfirmPendingMempool(w) BY <2>2 DEF ConfirmPendingMempool
  <2>3. CASE ConfirmPendingMempoolFails(w) BY <2>3 DEF ConfirmPendingMempoolFails
  <2>4. CASE LoadTxId(w)
    <3>1. inv[w] \in Invoices
      BY <2>4 DEF LoadTxId
    <3>2. snapshot[inv[w]].tx \in Txs \cup {None}
      BY <3>1 DEF Rows
    <3>3. UNCHANGED <<row, address, snapshot, inv, write, chain>>
      BY <2>4 DEF LoadTxId
    <3>4. CASE snapshot[inv[w]].tx = None
      BY <2>4, <3>1, <3>3, <3>4 DEF LoadTxId
    <3>5. CASE snapshot[inv[w]].tx # None
      BY <2>4, <3>1, <3>2, <3>3, <3>5 DEF LoadTxId
    <3> QED BY <3>4, <3>5
  <2>5. CASE FetchRejected(w) BY <2>5 DEF FetchRejected, Answered
  <2>6. CASE FetchConfirmed(w) BY <2>6 DEF FetchConfirmed, Answered, Confirmed
  <2>7. CASE FetchNotYet(w) BY <2>7 DEF FetchNotYet, Answered
  <2>8. CASE RemoveConfirmed(w) BY <2>8 DEF RemoveConfirmed, Deleted, Loaded
  <2>9. CASE ConfirmInvoice(w) BY <2>9 DEF ConfirmInvoice, WithStatus
  <2>10. CASE ConfirmInvoiceFails(w) BY <2>10 DEF ConfirmInvoiceFails
  <2>11. CASE CommitWorker(w) BY <2>11 DEF CommitWorker, Return
  <2> QED BY <1>5, <2>1, <2>2, <2>3, <2>4, <2>5, <2>6, <2>7, <2>8, <2>9, <2>10,
             <2>11 DEF WorkerStep
<1>6. ASSUME NEW j \in Jobs, ExpireStep(j) PROVE Sound'
  <2>1. CASE RemoveExpired(j) BY <2>1 DEF RemoveExpired, AfterExpire, Deleted, Loaded
  <2>2. CASE ExpireInvoice(j) BY <2>2 DEF ExpireInvoice, WithStatus
  <2>3. CASE ExpireInvoiceFails(j) BY <2>3 DEF ExpireInvoiceFails, AfterExpire
  <2>4. CASE CommitExpired(j) BY <2>4 DEF CommitExpired, AfterExpire
  <2>5. CASE CommitExpiredFails(j) BY <2>5 DEF CommitExpiredFails, AfterExpire
  <2> QED BY <1>6, <2>1, <2>2, <2>3, <2>4, <2>5 DEF ExpireStep
<1>7. ASSUME NEW a \in Addresses, ReleaseStep(a) PROVE Sound'
  <2>1. CASE ReleaseAddress(a) BY <2>1 DEF ReleaseAddress
  <2>2. CASE ReleaseFails(a) BY <2>2 DEF ReleaseFails
  <2> QED BY <1>7, <2>1, <2>2 DEF ReleaseStep
<1>8. ASSUME NEW t \in Txs, Bury(t) \/ Reject(t) PROVE Sound'
  BY <1>8 DEF Bury, Reject
<1>9. CASE UNCHANGED vars
  BY <1>9 DEF vars
<1> QED
  BY <1>1, <1>2, <1>3, <1>4, <1>5, <1>6, <1>7, <1>8, <1>9 DEF Next

\* Initially nothing is paid or confirmed.
LEMMA InitSound == Init => Sound
<1> SUFFICES ASSUME Init PROVE Sound
  OBVIOUS
<1>1. \A j \in Jobs : pc[j] \in {"absent", "idle"} /\ write[j] = Absent
  BY DEF Init
<1>2. \A i \in Invoices : row[i] = Absent /\ snapshot[i] = Absent
  BY DEF Init
<1>3. PaidInFlight
  BY <1>1, <1>2 DEF PaidInFlight, Absent, Jobs
<1>4. ConfirmedWasPaid
  BY <1>2 DEF ConfirmedWasPaid, Absent
<1> QED BY <1>3, <1>4 DEF Sound

\* Whatever fails and however many goroutines there are, a CONFIRMED invoice
\* was paid by a transaction with the required confirmations.
THEOREM ConfirmedArePaid == Spec => []ConfirmedWasPaid
<1>1. Init => Settled /\ Sound
  BY InitSettled, InitSound
<1>2. Base /\ Settled /\ [Next]_vars => Settled'
  BY SettledStep
<1>3. Base /\ Settled /\ Sound /\ [Next]_vars => Sound'
  BY SoundStep
<1>4. Sound => ConfirmedWasPaid
  BY DEF Sound
<1> QED BY <1>1, <1>2, <1>3, <1>4, BaseInvariant, PTL DEF Spec

-----------------------------------------------------------------------------
(* Rows, row locks and the transactions the rows name.                       *)

\* Initially no row and no update names a transaction.
LEMMA InitLocked == Init => RowLock /\ TxNamedOnce /\ OneResolver
<1> SUFFICES ASSUME Init PROVE RowLock /\ TxNamedOnce /\ OneResolver
  OBVIOUS
<1>1. \A j \in Jobs : pc[j] \in {"absent", "idle"} /\ write[j] = Absent
  BY DEF Init
<1>2. \A i \in Invoices : row[i] = Absent
  BY DEF Init
<1>3. RowLock
  BY <1>1 DEF RowLock, Writing, Absent, Jobs
<1>4. TxNamedOnce
  BY <1>1, <1>2, Apart DEF TxNamedOnce, Names, Writing, Absent
<1>5. OneResolver
  BY <1>1, <1>2 DEF OneResolver, Resolves, Absent, Resolved
<1> QED BY <1>3, <1>4, <1>5

\* One step keeps a row to one writer, and a committed transaction in its row.
LEMMA LockStep ==
  ASSUME Base, Settled, Sound, RowLock, [Next]_vars
  PROVE  RowLock'
<1> USE Apart
    DEF Base, TypeOK, Assigned, Jobs, table, memory, local, Goto, Writing, Settled,
        Quiet, RowLock, LockedByOther, Absent
<1>1. ASSUME NEW i \in Invoices, Create(i) PROVE RowLock'
  <2>1. CASE FindAddress(i) BY <2>1 DEF FindAddress
  <2>2. CASE CreateInvoice(i) BY <2>2, SMTT(30) DEF CreateInvoice, Fresh
  <2>3. CASE CreateFails(i) BY <2>3 DEF CreateFails
  <2> QED BY <1>1, <2>1, <2>2, <2>3 DEF Create
<1>2. ASSUME NEW i \in Invoices, HandleInvoice(i) PROVE RowLock'
  BY <1>2 DEF HandleInvoice, Fresh
<1>3. ASSUME NEW i \in Invoices, TimerStep(i) PROVE RowLock'
  <2>1. CASE FireTimer(i) BY <2>1 DEF FireTimer
  <2>2. CASE StopTimer(i) BY <2>2 DEF StopTimer
  <2> QED BY <1>3, <2>1, <2>2 DEF TimerStep
<1>4. ASSUME NEW w \in Workers, Spawn(w) PROVE RowLock'
  <2>1. PICK i \in Invoices : SpawnOnBlock(w, i) \/ \E t \in Txs : SpawnOnTx(w, i, t)
    BY <1>4 DEF Spawn
  <2>2. CASE SpawnOnBlock(w, i) BY <2>2 DEF SpawnOnBlock
  <2>3. ASSUME NEW t \in Txs, SpawnOnTx(w, i, t) PROVE RowLock'
    BY <2>3 DEF SpawnOnTx
  <2> QED BY <2>1, <2>2, <2>3
<1>5. ASSUME NEW w \in Workers, WorkerStep(w) PROVE RowLock'
  <2>1. CASE VerifyTx(w)
    <3>1. CASE Goto(w, "mempool") /\ UNCHANGED local BY <2>1, <3>1 DEF VerifyTx
    <3>2. CASE Return(w)
      <4>1. /\ write[w].status = "absent" /\ write' = [write EXCEPT ![w] = Absent]
            /\ inv' = [inv EXCEPT ![w] = None] /\ Goto(w, "idle")
            /\ UNCHANGED row
        BY <2>1, <3>2 DEF VerifyTx, Return
      <4> QED BY <4>1
    <3> QED BY <2>1, <3>1, <3>2 DEF VerifyTx
  <2>2. CASE ConfirmPendingMempool(w)
    <3>1. txId[w] \in Txs
      BY <2>2 DEF ConfirmPendingMempool, Sound, PaidInFlight
    <3> QED BY <2>2, <3>1 DEF ConfirmPendingMempool
  <2>3. CASE ConfirmPendingMempoolFails(w) BY <2>3 DEF ConfirmPendingMempoolFails
  <2>4. CASE LoadTxId(w) BY <2>4 DEF LoadTxId
  <2>5. CASE FetchRejected(w) \/ FetchConfirmed(w) \/ FetchNotYet(w)
    BY <2>5 DEF FetchRejected, FetchConfirmed, FetchNotYet, Answered
  <2>6. CASE RemoveConfirmed(w) BY <2>6 DEF RemoveConfirmed, Deleted, Loaded
  <2>7. CASE ConfirmInvoice(w) BY <2>7 DEF ConfirmInvoice, WithStatus
  <2>8. CASE ConfirmInvoiceFails(w) BY <2>8 DEF ConfirmInvoiceFails
  <2>9. CASE CommitWorker(w) BY <2>9 DEF CommitWorker, Return
  <2> QED BY <1>5, <2>1, <2>2, <2>3, <2>4, <2>5, <2>6, <2>7, <2>8, <2>9 DEF WorkerStep
<1>6. ASSUME NEW j \in Jobs, ExpireStep(j) PROVE RowLock'
  <2>1. CASE RemoveExpired(j) BY <2>1 DEF RemoveExpired, AfterExpire, Deleted, Loaded
  <2>2. CASE ExpireInvoice(j) BY <2>2 DEF ExpireInvoice, WithStatus, Locked
  <2>3. CASE ExpireInvoiceFails(j) BY <2>3 DEF ExpireInvoiceFails, AfterExpire
  <2>4. CASE CommitExpired(j)
    <3>1. /\ pc[j] = "expired" /\ row' = [row EXCEPT ![inv[j]] = write[j]]
          /\ write' = [write EXCEPT ![j] = Absent] /\ Goto(j, AfterExpire(j))
          /\ inv[j] \in Invoices /\ UNCHANGED inv
      BY <2>4 DEF CommitExpired
    <3>2. \A k \in Jobs : Writing(k)' => k # j /\ write'[k] = write[k]
                                          /\ inv[k] # inv[j]
      BY <3>1
    <3>3. \A k \in Jobs : pc'[k] = "expired" => pc[k] = "expired" /\ k # j
      BY <3>1 DEF AfterExpire
    <3> QED BY <3>1, <3>2, <3>3 DEF AfterExpire
  <2>5. CASE CommitExpiredFails(j) BY <2>5 DEF CommitExpiredFails, AfterExpire
  <2> QED BY <1>6, <2>1, <2>2, <2>3, <2>4, <2>5 DEF ExpireStep
<1>7. ASSUME NEW a \in Addresses, ReleaseStep(a) PROVE RowLock'
  BY <1>7 DEF ReleaseStep, ReleaseAddress, ReleaseFails
<1>8. ASSUME NEW t \in Txs, Bury(t) \/ Reject(t) PROVE RowLock'
  BY <1>8 DEF Bury, Reject
<1>9. CASE UNCHANGED vars
  BY <1>9 DEF vars
<1> QED
  BY <1>1, <1>2, <1>3, <1>4, <1>5, <1>6, <1>7, <1>8, <1>9 DEF Next

\* One step names no transaction twice.
LEMMA OnceStep ==
  ASSUME Base, Settled, RowLock, TxNamedOnce, [Next]_vars
  PROVE  TxNamedOnce'
<1> USE Apart
    DEF Base, TypeOK, Assigned, Jobs, table, memory, local, Goto, Writing, Settled,
        Quiet, RowLock, TxNamedOnce, Names, Absent
<1>1. ASSUME NEW i \in Invoices, Create(i) PROVE TxNamedOnce'
  <2>1. CASE FindAddress(i) BY <2>1 DEF FindAddress
  <2>2. CASE CreateInvoice(i)
    <3>1. \A k \in Invoices, t \in Txs : Names(k, t)' => Names(k, t)
      BY <2>2 DEF CreateInvoice, Fresh
    <3> QED BY <3>1
  <2>3. CASE CreateFails(i) BY <2>3 DEF CreateFails
  <2> QED BY <1>1, <2>1, <2>2, <2>3 DEF Create
<1>2. ASSUME NEW i \in Invoices, HandleInvoice(i) PROVE TxNamedOnce'
  BY <1>2 DEF HandleInvoice, Fresh
<1>3. ASSUME NEW i \in Invoices, TimerStep(i) PROVE TxNamedOnce'
  <2>1. CASE FireTimer(i) BY <2>1 DEF FireTimer
  <2>2. CASE StopTimer(i) BY <2>2 DEF StopTimer
  <2> QED BY <1>3, <2>1, <2>2 DEF TimerStep
<1>4. ASSUME NEW w \in Workers, Spawn(w) PROVE TxNamedOnce'
  <2>1. PICK i \in Invoices : SpawnOnBlock(w, i) \/ \E t \in Txs : SpawnOnTx(w, i, t)
    BY <1>4 DEF Spawn
  <2>2. CASE SpawnOnBlock(w, i) BY <2>2 DEF SpawnOnBlock
  <2>3. ASSUME NEW t \in Txs, SpawnOnTx(w, i, t) PROVE TxNamedOnce'
    BY <2>3 DEF SpawnOnTx
  <2> QED BY <2>1, <2>2, <2>3
<1>5. ASSUME NEW w \in Workers, WorkerStep(w) PROVE TxNamedOnce'
  <2>1. CASE VerifyTx(w)
    <3>1. \A k \in Invoices, t \in Txs : Names(k, t)' => Names(k, t)
      BY <2>1, SMTT(30) DEF VerifyTx, Return
    <3> QED BY <3>1
  <2>2. CASE ConfirmPendingMempool(w)
    BY <2>2 DEF ConfirmPendingMempool, LockedByOther, TxContended, TxTaken
  <2>3. CASE ConfirmPendingMempoolFails(w) BY <2>3 DEF ConfirmPendingMempoolFails
  <2>4. CASE LoadTxId(w) BY <2>4 DEF LoadTxId
  <2>5. CASE FetchRejected(w) \/ FetchConfirmed(w) \/ FetchNotYet(w)
    BY <2>5 DEF FetchRejected, FetchConfirmed, FetchNotYet, Answered
  <2>6. CASE RemoveConfirmed(w) BY <2>6 DEF RemoveConfirmed, Deleted, Loaded
  <2>7. CASE ConfirmInvoice(w) BY <2>7 DEF ConfirmInvoice, WithStatus
  <2>8. CASE ConfirmInvoiceFails(w) BY <2>8 DEF ConfirmInvoiceFails
  <2>9. CASE CommitWorker(w)
    <3>1. \A k \in Invoices, t \in Txs : Names(k, t)' => Names(k, t)
      BY <2>9 DEF CommitWorker, Return
    <3> QED BY <3>1
  <2> QED BY <1>5, <2>1, <2>2, <2>3, <2>4, <2>5, <2>6, <2>7, <2>8, <2>9 DEF WorkerStep
<1>6. ASSUME NEW j \in Jobs, ExpireStep(j) PROVE TxNamedOnce'
  <2>1. CASE RemoveExpired(j) BY <2>1 DEF RemoveExpired, AfterExpire, Deleted, Loaded
  <2>2. CASE ExpireInvoice(j) BY <2>2 DEF ExpireInvoice, WithStatus, Locked
  <2>3. CASE ExpireInvoiceFails(j) BY <2>3 DEF ExpireInvoiceFails, AfterExpire
  <2>4. CASE CommitExpired(j)
    <3>1. \A k \in Invoices, t \in Txs : Names(k, t)' => Names(k, t)
      BY <2>4 DEF CommitExpired, AfterExpire
    <3> QED BY <3>1
  <2>5. CASE CommitExpiredFails(j) BY <2>5 DEF CommitExpiredFails, AfterExpire
  <2> QED BY <1>6, <2>1, <2>2, <2>3, <2>4, <2>5 DEF ExpireStep
<1>7. ASSUME NEW a \in Addresses, ReleaseStep(a) PROVE TxNamedOnce'
  BY <1>7 DEF ReleaseStep, ReleaseAddress, ReleaseFails
<1>8. ASSUME NEW t \in Txs, Bury(t) \/ Reject(t) PROVE TxNamedOnce'
  BY <1>8 DEF Bury, Reject
<1>9. CASE UNCHANGED vars
  BY <1>9 DEF vars
<1> QED
  BY <1>1, <1>2, <1>3, <1>4, <1>5, <1>6, <1>7, <1>8, <1>9 DEF Next

\* The row locks and the UNIQUE index in every state, whatever fails.
LEMMA LockInvariant == Spec => [](Settled /\ Sound /\ RowLock /\ TxNamedOnce)
<1>1. Init => Settled /\ Sound /\ RowLock /\ TxNamedOnce
  BY InitSettled, InitSound, InitLocked
<1>2. /\ Base /\ Settled /\ Sound /\ RowLock /\ TxNamedOnce
      /\ [Next]_vars
      => (Settled /\ Sound /\ RowLock /\ TxNamedOnce)'
  BY SettledStep, SoundStep, LockStep, OnceStep
<1> QED BY <1>1, <1>2, BaseInvariant, PTL DEF Spec

\* A transaction two rows name is named twice.
LEMMA NamedOnceIsCreditedOnce ==
  ASSUME TypeOK, TxNamedOnce
  PROVE  TxCreditedOnce
BY Apart DEF TypeOK, Rows, TxNamedOnce, Names, TxCreditedOnce

\* Whatever fails, no transaction is credited to two invoices: the check of the
\* UNIQUE index sees the updates that are not committed yet.
THEOREM TxsAreCreditedOnce == Spec => []TxCreditedOnce
<1>1. Base /\ TxNamedOnce => TxCreditedOnce
  BY NamedOnceIsCreditedOnce DEF Base
<1> QED BY <1>1, BaseInvariant, LockInvariant, PTL

\* One step lets no second goroutine resolve an invoice.
LEMMA ResolverStep ==
  ASSUME Base, Settled, OneResolver, [Next]_vars
  PROVE  OneResolver'
<1> USE Apart
    DEF Base, TypeOK, Assigned, WatchedHasTimer, Jobs, table, memory, local, Goto,
        Writing, Settled, Quiet, Unwatched, ResolvedNotWatched, Watched, Resolved,
        Absent, OneResolver, Resolves, HasOwnAddress
<1>1. ASSUME NEW i \in Invoices, Create(i) PROVE OneResolver'
  <2>1. CASE FindAddress(i)
    <3>1. \A m \in Invoices \ {i} : HasOwnAddress(m)' => HasOwnAddress(m)
      BY <2>1 DEF FindAddress
    <3>2. \A j \in Jobs, m \in Invoices : Resolves(j, m)' => Resolves(j, m)
      BY <2>1 DEF FindAddress
    <3>3. \A j \in Jobs : ~Resolves(j, i)
      BY <2>1 DEF FindAddress
    <3>4. UNCHANGED row
      BY <2>1 DEF FindAddress
    <3> HIDE DEF Resolves, HasOwnAddress
    <3> QED BY <3>1, <3>2, <3>3, <3>4
  <2>2. CASE CreateInvoice(i) BY <2>2 DEF CreateInvoice, Fresh
  <2>3. CASE CreateFails(i)
    <3>1. \A m \in Invoices \ {i} : HasOwnAddress(m)' => HasOwnAddress(m)
      BY <2>3 DEF CreateFails
    <3>2. \A j \in Jobs, m \in Invoices : Resolves(j, m)' => Resolves(j, m)
      BY <2>3 DEF CreateFails
    <3>3. \A j \in Jobs : ~Resolves(j, i)
      BY <2>3 DEF CreateFails
    <3>4. UNCHANGED row
      BY <2>3 DEF CreateFails
    <3> HIDE DEF Resolves, HasOwnAddress
    <3> QED BY <3>1, <3>2, <3>3, <3>4
  <2> QED BY <1>1, <2>1, <2>2, <2>3 DEF Create
<1>2. ASSUME NEW i \in Invoices, HandleInvoice(i) PROVE OneResolver'
 
  <2>1. /\ pc[i] = "created" /\ \E next \in {"done", "armed"} : Goto(i, next)
        /\ UNCHANGED <<row, address, inv, write>>
    BY <1>2 DEF HandleInvoice
  <2> QED BY <2>1
<1>3. ASSUME NEW i \in Invoices, TimerStep(i) PROVE OneResolver'
  <2>1. CASE FireTimer(i) BY <2>1 DEF FireTimer
  <2>2. CASE StopTimer(i) BY <2>2 DEF StopTimer
  <2> QED BY <1>3, <2>1, <2>2 DEF TimerStep
<1>4. ASSUME NEW w \in Workers, Spawn(w) PROVE OneResolver'
  <2>1. PICK i \in Invoices : SpawnOnBlock(w, i) \/ \E t \in Txs : SpawnOnTx(w, i, t)
    BY <1>4 DEF Spawn
  <2>2. CASE SpawnOnBlock(w, i) BY <2>2 DEF SpawnOnBlock
  <2>3. ASSUME NEW t \in Txs, SpawnOnTx(w, i, t) PROVE OneResolver'
    BY <2>3 DEF SpawnOnTx
  <2> QED BY <2>1, <2>2, <2>3
<1>5. ASSUME NEW w \in Workers, WorkerStep(w) PROVE OneResolver'
  <2>1. CASE VerifyTx(w) BY <2>1, SMTT(30) DEF VerifyTx, Return
  <2>2. CASE ConfirmPendingMempool(w) BY <2>2 DEF ConfirmPendingMempool
  <2>3. CASE ConfirmPendingMempoolFails(w) BY <2>3 DEF ConfirmPendingMempoolFails
  <2>4. CASE LoadTxId(w) BY <2>4 DEF LoadTxId
  <2>5. CASE FetchRejected(w) \/ FetchConfirmed(w) \/ FetchNotYet(w)
    <3>1. /\ pc[w] = "fetch"
          /\ \E next \in {"expire", "remove", "commit"} : Goto(w, next)
          /\ UNCHANGED <<row, address, inv, write>>
      BY <2>5 DEF FetchRejected, FetchConfirmed, FetchNotYet, Answered
    <3> QED BY <3>1
  <2>6. CASE RemoveConfirmed(w)
    <3>1. CASE Loaded(address[inv[w]])
      <4>1. /\ pc[w] = "remove" /\ Goto(w, "confirm") /\ inv[w] \in Invoices
            /\ pendingInvoices[address[inv[w]]] # None
            /\ UNCHANGED <<row, address, inv, write>>
        BY <2>6, <3>1 DEF RemoveConfirmed, Loaded
      <4>2. HasOwnAddress(inv[w]) => Watched(inv[w])
        BY <4>1
      <4>3. \A m \in Invoices : HasOwnAddress(m)' => HasOwnAddress(m)
        BY <4>1
      <4>4. \A k \in Jobs, m \in Invoices : Resolves(k, m)' =>
               Resolves(k, m) \/ (k = w /\ m = inv[w])
        BY <4>1
      <4>5. HasOwnAddress(inv[w]) =>
               /\ \A k \in Jobs : ~Resolves(k, inv[w])
               /\ row[inv[w]].status \notin Resolved
        BY <4>1, <4>2
      <4> QED BY <4>1, <4>3, <4>4, <4>5 DEF OneResolver
    <3>2. CASE ~Loaded(address[inv[w]])
      BY <2>6, <3>2, SMTT(30) DEF RemoveConfirmed, AfterExpire
    <3> QED BY <3>1, <3>2
  <2>7. CASE ConfirmInvoice(w) BY <2>7 DEF ConfirmInvoice, WithStatus
  <2>8. CASE ConfirmInvoiceFails(w) BY <2>8 DEF ConfirmInvoiceFails
  <2>9. CASE CommitWorker(w) BY <2>9, SMTT(30) DEF CommitWorker, Return
  <2> QED BY <1>5, <2>1, <2>2, <2>3, <2>4, <2>5, <2>6, <2>7, <2>8, <2>9 DEF WorkerStep
<1>6. ASSUME NEW j \in Jobs, ExpireStep(j) PROVE OneResolver'
  <2>1. CASE RemoveExpired(j)
    <3>1. CASE Loaded(address[inv[j]])
      <4>1. /\ pc[j] = "expire" /\ Goto(j, "expiring") /\ inv[j] \in Invoices
            /\ pendingInvoices[address[inv[j]]] # None
            /\ UNCHANGED <<row, address, inv, write>>
        BY <2>1, <3>1 DEF RemoveExpired, Loaded
      <4>2. HasOwnAddress(inv[j]) => Watched(inv[j])
        BY <4>1
      <4>3. \A m \in Invoices : HasOwnAddress(m)' => HasOwnAddress(m)
        BY <4>1
      <4>4. \A k \in Jobs, m \in Invoices : Resolves(k, m)' =>
               Resolves(k, m) \/ (k = j /\ m = inv[j])
        BY <4>1
      <4>5. HasOwnAddress(inv[j]) =>
               /\ \A k \in Jobs : ~Resolves(k, inv[j])
               /\ row[inv[j]].status \notin Resolved
        BY <4>1, <4>2
      <4> QED BY <4>1, <4>3, <4>4, <4>5 DEF OneResolver
    <3>2. CASE ~Loaded(address[inv[j]])
      BY <2>1, <3>2 DEF RemoveExpired, AfterExpire
    <3> QED BY <3>1, <3>2
  <2>2. CASE ExpireInvoice(j) BY <2>2 DEF ExpireInvoice, WithStatus, Locked
  <2>3. CASE ExpireInvoiceFails(j) BY <2>3 DEF ExpireInvoiceFails, AfterExpire
  <2>4. CASE CommitExpired(j) BY <2>4 DEF CommitExpired, AfterExpire
  <2>5. CASE CommitExpiredFails(j) BY <2>5 DEF CommitExpiredFails, AfterExpire
  <2> QED BY <1>6, <2>1, <2>2, <2>3, <2>4, <2>5 DEF ExpireStep
<1>7. ASSUME NEW a \in Addresses, ReleaseStep(a) PROVE OneResolver'
  BY <1>7 DEF ReleaseStep, ReleaseAddress, ReleaseFails
<1>8. ASSUME NEW t \in Txs, Bury(t) \/ Reject(t) PROVE OneResolver'
  BY <1>8 DEF Bury, Reject
<1>9. CASE UNCHANGED vars
  BY <1>9 DEF vars
<1> QED
  BY <1>1, <1>2, <1>3, <1>4, <1>5, <1>6, <1>7, <1>8, <1>9 DEF Next

\* Only a goroutine that resolves i changes one verdict on i into another.
LEMMA FlipStep ==
  ASSUME Base, Settled, OneResolver, [Next]_vars,
         NEW i \in Invoices,
         row[i].status \in Resolved, row'[i].status \in Resolved \ {row[i].status}
  PROVE  \E k \in Invoices \ {i} : address[k] = address[i]
<1> USE Apart DEF Base, TypeOK, Assigned, Jobs, table, memory, local
<1>1. SUFFICES \E j \in Jobs : Resolves(j, i)
  BY <1>1 DEF OneResolver, HasOwnAddress
<1>2. ~UNCHANGED row
  OBVIOUS
<1>3. ASSUME NEW k \in Invoices, CreateInvoice(k) PROVE FALSE
  <2>1. row'[i].status = "PENDING" \/ row'[i] = row[i]
    BY <1>3 DEF CreateInvoice, Fresh
  <2> QED BY <2>1 DEF Resolved
<1>4. ASSUME NEW w \in Workers, CommitWorker(w) PROVE \E j \in Jobs : Resolves(j, i)
  <2>1. inv[w] = i /\ write[w].status = row'[i].status
    BY <1>2, <1>4 DEF CommitWorker
  <2> QED BY <2>1 DEF Resolves
<1>5. ASSUME NEW j \in Jobs, CommitExpired(j) PROVE \E k \in Jobs : Resolves(k, i)
  <2>1. inv[j] = i /\ pc[j] = "expired"
    BY <1>2, <1>5 DEF CommitExpired
  <2> QED BY <2>1 DEF Resolves
<1>6. \/ \E k \in Invoices : CreateInvoice(k)
      \/ \E w \in Workers : CommitWorker(w)
      \/ \E j \in Jobs : CommitExpired(j)
      \/ UNCHANGED row
  <2>1. ASSUME NEW k \in Invoices, Create(k) \/ HandleInvoice(k) \/ TimerStep(k),
               ~CreateInvoice(k)
        PROVE  UNCHANGED row
    BY <2>1 DEF Create, FindAddress, CreateFails, HandleInvoice, TimerStep, FireTimer,
                StopTimer
  <2>2. ASSUME NEW w \in Workers, Spawn(w) \/ WorkerStep(w), ~CommitWorker(w)
        PROVE  UNCHANGED row
    <3>1. CASE Spawn(w) BY <3>1 DEF Spawn, SpawnOnTx, SpawnOnBlock
    <3>2. CASE WorkerStep(w)
      BY <2>2, <3>2 DEF WorkerStep, VerifyTx, ConfirmPendingMempool,
            ConfirmPendingMempoolFails, LoadTxId, FetchRejected, FetchConfirmed,
            FetchNotYet, Answered, RemoveConfirmed, ConfirmInvoice,
               ConfirmInvoiceFails
    <3> QED BY <2>2, <3>1, <3>2
  <2>3. ASSUME NEW j \in Jobs, ExpireStep(j), ~CommitExpired(j) PROVE UNCHANGED row
    BY <2>3 DEF ExpireStep, RemoveExpired, ExpireInvoice, ExpireInvoiceFails,
                CommitExpiredFails
  <2>4. ASSUME NEW a \in Addresses, ReleaseStep(a) PROVE UNCHANGED row
    BY <2>4 DEF ReleaseStep, ReleaseAddress, ReleaseFails
  <2>5. ASSUME NEW t \in Txs, Bury(t) \/ Reject(t) PROVE UNCHANGED row
    BY <2>5 DEF Bury, Reject
  <2>6. CASE UNCHANGED vars BY <2>6 DEF vars
  <2> QED BY <2>1, <2>2, <2>3, <2>4, <2>5, <2>6 DEF Next
<1> QED BY <1>2, <1>3, <1>4, <1>5, <1>6

\* Whatever fails, a verdict on an invoice changes only when its address has been
\* given to another invoice: LoadAndDelete lets one goroutine resolve it.
THEOREM OnlyReuseFlips == Spec => NoFlipWithoutReuse
<1>1. Init => Settled /\ OneResolver
  BY InitSettled, InitLocked
<1>2. Base /\ Settled /\ OneResolver /\ [Next]_vars => (Settled /\ OneResolver)'
  BY SettledStep, ResolverStep
<1>3. Base /\ Settled /\ OneResolver /\ [Next]_vars =>
         [\A i \in Invoices :
            row[i].status \in Resolved /\ row'[i].status \in Resolved \
               {row[i].status} =>
                \E k \in Invoices \ {i} : address[k] = address[i]]_vars
  BY FlipStep
<1> QED BY <1>1, <1>2, <1>3, BaseInvariant, PTL DEF Spec, NoFlipWithoutReuse

-----------------------------------------------------------------------------
(* One verdict, across what comes between.                                   *)

\* Nobody can resolve i any more, and its verdict, if it has one, is s.
Closed(i, s) ==
    /\ pc[i] \notin {"absent", "reserved", "created"}
    /\ HasOwnAddress(i) =>
          /\ ~Watched(i)
          /\ \A j \in Jobs : ~Resolves(j, i)
          /\ row[i].status \notin Resolved \ {s}

\* An entry that is loaded at the address of i is not there for a closed i.
LEMMA ClosedNotLoaded ==
  ASSUME Base, NEW i \in Invoices, NEW s, Closed(i, s), HasOwnAddress(i),
         NEW j \in Jobs, inv[j] = i
  PROVE  ~Loaded(address[inv[j]])
BY Apart DEF Base, TypeOK, Assigned, WatchedHasTimer, Jobs, Closed, HasOwnAddress, Watched,
             Loaded

\* A closed invoice stays closed, whatever its goroutines still do.
LEMMA ClosedStep ==
  ASSUME Base, Settled, [Next]_vars, NEW i \in Invoices, NEW s \in Resolved, Closed(i, s)
  PROVE  Closed(i, s)'
<1> USE Apart
    DEF Base, TypeOK, Assigned, WatchedHasTimer, Jobs, table, memory, local, Goto,
        Writing, Settled, Quiet, Watched, Resolved, Absent, Resolves, HasOwnAddress, Closed
<1>1. ASSUME NEW k \in Invoices, Create(k) PROVE Closed(i, s)'
  <2>1. CASE FindAddress(k) BY <2>1 DEF FindAddress
  <2>2. CASE CreateInvoice(k) BY <2>2 DEF CreateInvoice, Fresh
  <2>3. CASE CreateFails(k) BY <2>3 DEF CreateFails
  <2> QED BY <1>1, <2>1, <2>2, <2>3 DEF Create
<1>2. ASSUME NEW k \in Invoices, HandleInvoice(k) PROVE Closed(i, s)'
  BY <1>2 DEF HandleInvoice
<1>3. ASSUME NEW k \in Invoices, TimerStep(k) PROVE Closed(i, s)'
  <2>1. CASE FireTimer(k) BY <2>1 DEF FireTimer
  <2>2. CASE StopTimer(k) BY <2>2 DEF StopTimer
  <2> QED BY <1>3, <2>1, <2>2 DEF TimerStep
<1>4. ASSUME NEW w \in Workers, Spawn(w) PROVE Closed(i, s)'
  <2>1. PICK k \in Invoices : SpawnOnBlock(w, k) \/ \E t \in Txs : SpawnOnTx(w, k, t)
    BY <1>4 DEF Spawn
  <2>2. CASE SpawnOnBlock(w, k) BY <2>2 DEF SpawnOnBlock
  <2>3. ASSUME NEW t \in Txs, SpawnOnTx(w, k, t) PROVE Closed(i, s)'
    BY <2>3 DEF SpawnOnTx
  <2> QED BY <2>1, <2>2, <2>3
<1>5. ASSUME NEW w \in Workers, WorkerStep(w) PROVE Closed(i, s)'
  <2>1. CASE VerifyTx(w) BY <2>1 DEF VerifyTx, Return
  <2>2. CASE ConfirmPendingMempool(w) BY <2>2 DEF ConfirmPendingMempool
  <2>3. CASE ConfirmPendingMempoolFails(w) BY <2>3 DEF ConfirmPendingMempoolFails
  <2>4. CASE LoadTxId(w) BY <2>4 DEF LoadTxId
  <2>5. CASE FetchRejected(w) \/ FetchConfirmed(w) \/ FetchNotYet(w)
    <3>1. /\ pc[w] = "fetch"
          /\ \E next \in {"expire", "remove", "commit"} : Goto(w, next)
          /\ UNCHANGED <<row, address, pendingInvoices, inv, write>>
      BY <2>5 DEF FetchRejected, FetchConfirmed, FetchNotYet, Answered
    <3> QED BY <3>1
  <2>6. CASE RemoveConfirmed(w)
    <3>1. inv[w] = i /\ HasOwnAddress(i) => ~Loaded(address[inv[w]])
      <4> HIDE DEF Base, Jobs, Closed, HasOwnAddress
      <4> QED BY ClosedNotLoaded DEF Jobs
    <3>2. CASE Loaded(address[inv[w]])
      BY <2>6, <3>1, <3>2, SMTT(30) DEF RemoveConfirmed, Deleted
    <3>3. CASE ~Loaded(address[inv[w]])
      BY <2>6, <3>3, SMTT(30) DEF RemoveConfirmed, AfterExpire, Deleted
    <3> QED BY <3>2, <3>3
  <2>7. CASE ConfirmInvoice(w) BY <2>7 DEF ConfirmInvoice, WithStatus
  <2>8. CASE ConfirmInvoiceFails(w) BY <2>8 DEF ConfirmInvoiceFails
  <2>9. CASE CommitWorker(w) BY <2>9, SMTT(30) DEF CommitWorker, Return
  <2> QED BY <1>5, <2>1, <2>2, <2>3, <2>4, <2>5, <2>6, <2>7, <2>8, <2>9 DEF WorkerStep
<1>6. ASSUME NEW j \in Jobs, ExpireStep(j) PROVE Closed(i, s)'
  <2>1. CASE RemoveExpired(j)
    <3>1. inv[j] = i /\ HasOwnAddress(i) => ~Loaded(address[inv[j]])
      <4> HIDE DEF Base, Jobs, Closed, HasOwnAddress
      <4> QED BY ClosedNotLoaded
    <3>2. CASE Loaded(address[inv[j]])
      BY <2>1, <3>1, <3>2, SMTT(30) DEF RemoveExpired, Deleted
    <3>3. CASE ~Loaded(address[inv[j]])
      BY <2>1, <3>3, SMTT(30) DEF RemoveExpired, AfterExpire, Deleted
    <3> QED BY <3>2, <3>3
  <2>2. CASE ExpireInvoice(j) BY <2>2 DEF ExpireInvoice, WithStatus, Locked
  <2>3. CASE ExpireInvoiceFails(j) BY <2>3 DEF ExpireInvoiceFails, AfterExpire
  <2>4. CASE CommitExpired(j) BY <2>4, SMTT(30) DEF CommitExpired, AfterExpire
  <2>5. CASE CommitExpiredFails(j) BY <2>5 DEF CommitExpiredFails, AfterExpire
  <2> QED BY <1>6, <2>1, <2>2, <2>3, <2>4, <2>5 DEF ExpireStep
<1>7. ASSUME NEW a \in Addresses, ReleaseStep(a) PROVE Closed(i, s)'
  BY <1>7 DEF ReleaseStep, ReleaseAddress, ReleaseFails
<1>8. ASSUME NEW t \in Txs, Bury(t) \/ Reject(t) PROVE Closed(i, s)'
  BY <1>8 DEF Bury, Reject
<1>9. CASE UNCHANGED vars
  BY <1>9 DEF vars
<1> QED
  BY <1>1, <1>2, <1>3, <1>4, <1>5, <1>6, <1>7, <1>8, <1>9 DEF Next

\* Whatever fails, an invoice is not expired and confirmed in one life of the process,
\* not even if a late update of the mempool comes in between, unless its address has been
\* taken by another invoice.
THEOREM VerdictIsGivenOnce == Spec => OneVerdict
<1>1. Init => Settled /\ OneResolver
  BY InitSettled, InitLocked
<1>2. Base /\ Settled /\ OneResolver /\ [Next]_vars => (Settled /\ OneResolver)'
  BY SettledStep, ResolverStep
<1>3. ASSUME NEW i \in Invoices, NEW s \in Resolved
      PROVE  Spec => [](row[i].status = s =>
                          [](row[i].status \in Resolved \ {s} => ~HasOwnAddress(i)))
  <2>1. Base /\ Settled /\ OneResolver /\ row[i].status = s => Closed(i, s)
    BY <1>3 DEF Settled, Quiet, ResolvedNotWatched, OneResolver, Closed
  <2>2. Base /\ Settled /\ Closed(i, s) /\ [Next]_vars => Closed(i, s)'
    BY <1>3, ClosedStep
  <2>3. Closed(i, s) => (row[i].status \in Resolved \ {s} => ~HasOwnAddress(i))
    BY DEF Closed
  <2> QED BY <1>1, <1>2, <2>1, <2>2, <2>3, BaseInvariant, PTL DEF Spec
<1> QED BY <1>3 DEF OneVerdict

-----------------------------------------------------------------------------
(* Refinement of AddressLease.                                               *)

Stays == \A a \in Addresses : Phase(a)' = Phase(a)

Moves(a, from, to) ==
    /\ a \in Addresses
    /\ Phase(a) = from /\ Phase(a)' = to
    /\ \A b \in Addresses \ {a} : Phase(b)' = Phase(b)

Leases ==
    \/ Stays
    \/ \E a \in Addresses :
          \/ Moves(a, "free", "handed") \/ Moves(a, "handed", "watched")
          \/ Moves(a, "watched", "taken") \/ Moves(a, "taken", "releasing")
          \/ Moves(a, "releasing", "free")
          \/ Moves(a, "taken", "lost") \/ Moves(a, "releasing", "lost")

LEMMA MoveLeases ==
  ASSUME NEW a,
         \/ Moves(a, "free", "handed") \/ Moves(a, "handed", "watched")
         \/ Moves(a, "watched", "taken") \/ Moves(a, "taken", "releasing")
         \/ Moves(a, "releasing", "free")
         \/ Moves(a, "taken", "lost") \/ Moves(a, "releasing", "lost")
  PROVE  Leases
BY DEF Leases, Moves

\* The step of a worker that holds no address, before and after, moves none.
LEMMA EmptyHands ==
  ASSUME TypeOK, NEW w \in Workers,
         \A j \in Jobs \ {w} : pc'[j] = pc[j] /\ inv'[j] = inv[j],
         pc[w] \in {"idle", "commit"}, pc'[w] \in {"idle", "verify"},
         UNCHANGED <<address, occupancy, pendingInvoices, releases>>
  PROVE  Stays
<1>1. \A j \in Jobs, a \in Addresses : Holds(j, a)' <=> Holds(j, a)
  BY DEF Holds
<1>2. \A i \in Invoices : pc'[i] = pc[i] /\ i \in Jobs
  BY Apart DEF Jobs
<1>3. ASSUME NEW a \in Addresses PROVE Phase(a)' = Phase(a)
  <2>1. NoJobHolds(a)' <=> NoJobHolds(a)
    BY <1>1 DEF NoJobHolds
  <2>2. \A i \in Invoices :
           (Holds(i, a) /\ pc[i] = "created")' <=> (Holds(i, a) /\ pc[i] = "created")
    BY <1>1, <1>2
  <2> QED BY <2>1, <2>2 DEF Phase
<1> QED BY <1>3 DEF Stays

\* A step leaves every address in its phase, or takes one address to the next.
LEMMA StepLeases ==
  ASSUME "createCommit" \notin Faults, Base, Claims, [Next]_vars
  PROVE  Leases
<1> USE Apart
    DEF Base, TypeOK, Assigned, WatchedHasTimer, Claims, OneClaim, ReservedAlone, Holds,
        NoJobHolds, Phase, Stays, Jobs, table, memory, local, Goto
<1>1. ASSUME NEW i \in Invoices, Create(i) PROVE Leases
  <2>1. CASE FindAddress(i)
    <3> Stays BY <2>1 DEF FindAddress
    <3> QED BY DEF Leases
  <2>2. CASE CreateInvoice(i)
    <3> PICK a \in Addresses : a = address[i]
      BY <2>2 DEF CreateInvoice
    <3> Moves(a, "free", "handed") BY <2>2 DEF CreateInvoice, Moves
    <3> QED BY MoveLeases
  <2>3. CASE CreateFails(i)
    <3> Stays BY <2>3 DEF CreateFails
    <3> QED BY DEF Leases
  <2> QED BY <1>1, <2>1, <2>2, <2>3 DEF Create
<1>2. ASSUME NEW i \in Invoices, HandleInvoice(i) PROVE Leases
  <2>1. Holds(i, address[i]) /\ address[i] \in Addresses
    BY <1>2 DEF HandleInvoice
  <2>2. pendingInvoices[address[i]] = None
    BY <2>1
  <2>3. /\ pc[i] = "created" /\ Goto(i, "armed")
        /\ pendingInvoices' = [pendingInvoices EXCEPT ![address[i]] = i]
        /\ UNCHANGED <<address, occupancy, releases, inv>>
    BY <1>2, <2>2 DEF HandleInvoice
  <2> PICK a \in Addresses : a = address[i]
    BY <2>1, <2>2, <2>3
  <2>4. Moves(a, "handed", "watched")
    BY <2>1, <2>2, <2>3 DEF Moves
  <2> QED BY <2>4, MoveLeases
<1>3. ASSUME NEW i \in Invoices, TimerStep(i) PROVE Leases
  <2> Stays
    <3>1. CASE FireTimer(i) BY <3>1 DEF FireTimer
    <3>2. CASE StopTimer(i) BY <3>2 DEF StopTimer
    <3> QED BY <1>3, <3>1, <3>2 DEF TimerStep
  <2> QED BY DEF Leases
<1>4. ASSUME NEW w \in Workers, Spawn(w) PROVE Leases
  <2>1. PICK i \in Invoices : SpawnOnBlock(w, i) \/ \E t \in Txs : SpawnOnTx(w, i, t)
    BY <1>4 DEF Spawn
  <2>2. CASE SpawnOnBlock(w, i)
    <3> Stays BY <2>2 DEF SpawnOnBlock
    <3> QED BY DEF Leases
  <2>3. ASSUME NEW t \in Txs, SpawnOnTx(w, i, t) PROVE Leases
    <3>1. /\ \A j \in Jobs \ {w} : pc'[j] = pc[j] /\ inv'[j] = inv[j]
          /\ pc[w] = "idle" /\ pc'[w] = "verify"
          /\ UNCHANGED <<address, occupancy, pendingInvoices, releases>>
      BY <2>3 DEF SpawnOnTx
    <3> Stays
      <4> HIDE DEF TypeOK, Stays, Phase, Holds, NoJobHolds, Jobs
      <4> QED BY <3>1, EmptyHands DEF Base
    <3> QED BY DEF Leases
  <2> QED BY <2>1, <2>2, <2>3
<1>5. ASSUME NEW w \in Workers, WorkerStep(w) PROVE Leases
  <2>1. CASE VerifyTx(w)
    <3>1. pc[w] = "verify" /\ UNCHANGED <<address, occupancy, pendingInvoices, releases>>
      BY <2>1 DEF VerifyTx
    <3>2. CASE Goto(w, "mempool") /\ UNCHANGED inv
      BY <3>1, <3>2 DEF Leases
    <3>3. CASE Goto(w, "idle") /\ inv' = [inv EXCEPT ![w] = None]
      BY <3>1, <3>3 DEF Leases
    <3> QED BY <2>1, <3>2, <3>3 DEF VerifyTx, Return
  <2>2. CASE \/ ConfirmPendingMempool(w) \/ ConfirmPendingMempoolFails(w)
             \/ LoadTxId(w)
             \/ FetchRejected(w) \/ FetchConfirmed(w) \/ FetchNotYet(w)
    <3>1. UNCHANGED <<address, occupancy, pendingInvoices, releases, inv>>
      BY <2>2 DEF ConfirmPendingMempool, ConfirmPendingMempoolFails, LoadTxId,
                  FetchRejected, FetchConfirmed, FetchNotYet, Answered
    <3>2. /\ pc[w] \in {"mempool", "load", "fetch"}
          /\ \E next \in {"load", "commit", "fetch", "expire", "remove"} : Goto(w, next)
      BY <2>2 DEF ConfirmPendingMempool, ConfirmPendingMempoolFails, LoadTxId,
                  FetchRejected, FetchConfirmed, FetchNotYet, Answered
    <3>3. Stays
      BY <3>1, <3>2
    <3> QED BY <3>3 DEF Leases
  <2>3. CASE RemoveConfirmed(w)
    <3>1. CASE Loaded(address[inv[w]])
      <4>1. /\ pc[w] = "remove" /\ Goto(w, "confirm")
            /\ pendingInvoices' = [pendingInvoices EXCEPT ![address[inv[w]]] = None]
            /\ pendingInvoices[address[inv[w]]] # None
            /\ UNCHANGED <<address, occupancy, releases, inv>>
        BY <2>3, <3>1 DEF RemoveConfirmed, Deleted, Loaded
      <4> PICK a \in Addresses : a = address[inv[w]]
        BY <4>1
      <4> Moves(a, "watched", "taken")
        BY <4>1 DEF Moves
      <4> QED BY MoveLeases
    <3>2. CASE ~Loaded(address[inv[w]])
      <4>1. /\ pc[w] = "remove" /\ Goto(w, "commit")
            /\ pendingInvoices' = [pendingInvoices EXCEPT ![address[inv[w]]] = None]
            /\ pendingInvoices[address[inv[w]]] = None
            /\ UNCHANGED <<address, occupancy, releases, inv>>
        BY <2>3, <3>2 DEF RemoveConfirmed, Deleted, Loaded
      <4> Stays BY <4>1
      <4> QED BY DEF Leases
    <3> QED BY <3>1, <3>2
  <2>4. CASE ConfirmInvoice(w)
    <3> PICK a \in Addresses : a = address[inv[w]]
      BY <2>4 DEF ConfirmInvoice
    <3> Moves(a, "taken", "releasing") BY <2>4 DEF ConfirmInvoice, Moves
    <3> QED BY MoveLeases
  <2>5. CASE ConfirmInvoiceFails(w)
    <3> PICK a \in Addresses : a = address[inv[w]]
      BY <2>5 DEF ConfirmInvoiceFails
    <3> Moves(a, "taken", "lost") BY <2>5 DEF ConfirmInvoiceFails, Moves
    <3> QED BY MoveLeases
  <2>6. CASE CommitWorker(w)
    <3>1. /\ pc[w] = "commit" /\ Goto(w, "idle") /\ inv' = [inv EXCEPT ![w] = None]
          /\ UNCHANGED <<address, occupancy, pendingInvoices, releases>>
      BY <2>6 DEF CommitWorker, Return
    <3>2. /\ \A j \in Jobs \ {w} : pc'[j] = pc[j] /\ inv'[j] = inv[j]
          /\ pc'[w] = "idle"
      BY <3>1
    <3>3. Stays
      <4> HIDE DEF TypeOK, Stays, Phase, Holds, NoJobHolds, Jobs
      <4> QED BY <3>1, <3>2, EmptyHands DEF Base
    <3> QED BY <3>3 DEF Leases
  <2> QED BY <1>5, <2>1, <2>2, <2>3, <2>4, <2>5, <2>6 DEF WorkerStep
<1>6. ASSUME NEW j \in Jobs, ExpireStep(j) PROVE Leases
  <2>1. CASE RemoveExpired(j)
    <3>1. CASE Loaded(address[inv[j]])
      <4> PICK a \in Addresses : a = address[inv[j]]
        BY <2>1, <3>1 DEF RemoveExpired, Deleted, Loaded
      <4> Moves(a, "watched", "taken")
        BY <2>1, <3>1 DEF RemoveExpired, Deleted, Loaded, Moves
      <4> QED BY MoveLeases
    <3>2. CASE ~Loaded(address[inv[j]])
      <4> Stays BY <2>1, <3>2 DEF RemoveExpired, Deleted, Loaded, AfterExpire
      <4> QED BY DEF Leases
    <3> QED BY <3>1, <3>2
  <2>2. CASE ExpireInvoice(j)
    <3> PICK a \in Addresses : a = address[inv[j]]
      BY <2>2 DEF ExpireInvoice
    <3> Moves(a, "taken", "releasing") BY <2>2 DEF ExpireInvoice, Moves
    <3> QED BY MoveLeases
  <2>3. CASE ExpireInvoiceFails(j)
    <3> PICK a \in Addresses : a = address[inv[j]]
      BY <2>3 DEF ExpireInvoiceFails, AfterExpire
    <3> Moves(a, "taken", "lost")
      BY <2>3 DEF ExpireInvoiceFails, Moves, AfterExpire
    <3> QED BY MoveLeases
  <2>4. CASE CommitExpired(j) \/ CommitExpiredFails(j)
    <3>1. /\ pc[j] = "expired" /\ Goto(j, AfterExpire(j))
          /\ UNCHANGED <<address, occupancy, pendingInvoices, releases, inv>>
      BY <2>4 DEF CommitExpired, CommitExpiredFails
    <3>2. Stays
      BY <3>1 DEF AfterExpire
    <3> QED BY <3>2 DEF Leases
  <2> QED BY <1>6, <2>1, <2>2, <2>3, <2>4 DEF ExpireStep
<1>7. ASSUME NEW a \in Addresses, ReleaseStep(a) PROVE Leases
  <2>1. CASE ReleaseAddress(a)
    <3> Moves(a, "releasing", "free") BY <2>1 DEF ReleaseAddress, Moves
    <3> QED BY DEF Leases
  <2>2. CASE ReleaseFails(a)
    <3> Moves(a, "releasing", "lost") BY <2>2 DEF ReleaseFails, Moves
    <3> QED BY DEF Leases
  <2> QED BY <1>7, <2>1, <2>2 DEF ReleaseStep
<1>8. ASSUME NEW t \in Txs, Bury(t) \/ Reject(t) PROVE Leases
  <2> Stays BY <1>8 DEF Bury, Reject
  <2> QED BY DEF Leases
<1>9. CASE UNCHANGED vars
  <2> Stays BY <1>9 DEF vars
  <2> QED BY DEF Leases
<1> QED
  BY <1>1, <1>2, <1>3, <1>4, <1>5, <1>6, <1>7, <1>8, <1>9 DEF Next

\* When no commit of createInvoice is lost, the processor implements
\* AddressLease: nothing but the release of an address makes it free again.
THEOREM ProcessorLeasesAddresses ==
  ASSUME "createCommit" \notin Faults
  PROVE  Spec => ImplementsLease
<1>1. ASSUME Init PROVE Lease!Init
  <2>1. \A a \in Addresses : Phase(a) = "free"
    BY <1>1 DEF Init, Phase
  <2> QED BY <2>1 DEF Lease!Init
<1>2. ASSUME Base, Claims, [Next]_vars
      PROVE  [Lease!Next]_([a \in Addresses |-> Phase(a)])
  <2>1. Leases
    BY <1>2, StepLeases
  <2>2. CASE Stays
    BY <2>2 DEF Stays
  <2>3. ASSUME NEW a \in Addresses, NEW from, NEW to, Moves(a, from, to)
        PROVE  Lease!Move(a, from, to)
    BY <2>3 DEF Moves, Lease!Move
  <2> QED BY <2>1, <2>2, <2>3
          DEF Leases, Lease!Next, Lease!Hand, Lease!Watch, Lease!Take, Lease!Retire,
              Lease!Release, Lease!Lose
<1>3. Init => Claims
  BY InitClaims
<1>4. Base /\ Claims /\ [Next]_vars => Claims'
  BY ClaimsStep
<1> QED BY <1>1, <1>2, <1>3, <1>4, BaseInvariant, PTL DEF Spec, Lease!Spec, ImplementsLease

-----------------------------------------------------------------------------
(* The transaction a CONFIRMED invoice names.                                *)

\* What is behind the tx_id a goroutine finds in a snapshot.
Backed == SnapshotBacked /\ NamesInFlight /\ ConfirmedNamesTx

\* An address that is lost stays lost.
LEMMA LostStays ==
  ASSUME "createCommit" \notin Faults, Base, Claims, [Next]_vars
  PROVE  \A a \in Addresses : Phase(a) = "lost" => Phase(a)' = "lost"
<1>1. Leases
  BY StepLeases
<1> QED BY <1>1 DEF Leases, Moves, Stays

\* A goroutine that holds the address of an invoice keeps it from being lost.
LEMMA HolderNotLost ==
  ASSUME NEW w \in Jobs, NEW i \in Invoices, inv[w] = i, pc[w] = "confirm"
  PROVE  Phase(address[i]) # "lost"
BY DEF Phase, NoJobHolds, Holds

\* ConfirmInvoice that fails loses the address.
LEMMA FailureLoses ==
  ASSUME Base, Claims, NEW w \in Workers, ConfirmInvoiceFails(w)
  PROVE  Phase(address[inv[w]])' = "lost"
BY Apart DEF Base, TypeOK, Assigned, Claims, OneClaim, Phase, Holds, NoJobHolds,
         Jobs, table, memory, local, Goto, ConfirmInvoiceFails

\* One step publishes no transaction that is not backed, and confirms nothing
\* without one.
LEMMA BackedStep ==
  ASSUME "commit" \notin Faults, "createCommit" \notin Faults,
         Base, Claims, Settled, Sound, RowLock, Backed, [Next]_vars
  PROVE  Backed'
<1> USE Apart
    DEF Base, TypeOK, Assigned, Jobs, table, memory, local, Goto, Writing, Settled,
        Quiet, RowLock, LockedByOther, Absent, Backed, SnapshotBacked, NamesInFlight,
        ConfirmedNamesTx
<1>0. \A a \in Addresses : Phase(a) = "lost" => Phase(a)' = "lost"
  BY LostStays
<1>1. ASSUME NEW i \in Invoices, Create(i) PROVE Backed'
  <2>1. CASE FindAddress(i) BY <2>1, <1>0 DEF FindAddress
  <2>2. CASE CreateInvoice(i) BY <2>2, <1>0, SMTT(30) DEF CreateInvoice, Fresh
  <2>3. CASE CreateFails(i) BY <2>3, <1>0 DEF CreateFails
  <2> QED BY <1>1, <2>1, <2>2, <2>3 DEF Create
<1>2. ASSUME NEW i \in Invoices, HandleInvoice(i) PROVE Backed'
 
  <2>1. CASE UNCHANGED snapshot BY <1>0, <1>2, <2>1 DEF HandleInvoice
  <2>2. CASE snapshot' = [snapshot EXCEPT ![i] = Fresh] /\ Goto(i, "armed")
    <3>1. \A k \in Invoices : snapshot'[k].tx # None => k # i /\ snapshot'[k] =
       snapshot[k]
      BY <1>2, <2>2 DEF Fresh
    <3>2. \A w \in Workers : pc[w] # "idle" => inv[w] # i
      BY <1>2 DEF HandleInvoice
    <3> QED BY <1>0, <1>2, <2>2, <3>1, <3>2 DEF HandleInvoice
  <2> QED BY <1>2, <2>1, <2>2 DEF HandleInvoice
<1>3. ASSUME NEW i \in Invoices, TimerStep(i) PROVE Backed'
  <2>1. CASE FireTimer(i) BY <2>1, <1>0 DEF FireTimer
  <2>2. CASE StopTimer(i) BY <2>2, <1>0 DEF StopTimer
  <2> QED BY <1>3, <2>1, <2>2 DEF TimerStep
<1>4. ASSUME NEW w \in Workers, Spawn(w) PROVE Backed'
  <2>1. PICK i \in Invoices : SpawnOnBlock(w, i) \/ \E t \in Txs : SpawnOnTx(w, i, t)
    BY <1>4 DEF Spawn
  <2>2. CASE SpawnOnBlock(w, i) BY <2>2, <1>0 DEF SpawnOnBlock
  <2>3. ASSUME NEW t \in Txs, SpawnOnTx(w, i, t) PROVE Backed'
    BY <2>3, <1>0 DEF SpawnOnTx
  <2> QED BY <2>1, <2>2, <2>3
<1>5. ASSUME NEW w \in Workers, WorkerStep(w) PROVE Backed'
  <2>1. CASE VerifyTx(w)
    <3>1. CASE Goto(w, "mempool") /\ UNCHANGED local BY <1>0, <2>1, <3>1 DEF VerifyTx
    <3>2. CASE Return(w) BY <1>0, <2>1, <3>2 DEF VerifyTx, Return
    <3> QED BY <2>1, <3>1, <3>2 DEF VerifyTx
  <2>2. CASE ConfirmPendingMempool(w)
    <3>1. txId[w] \in Txs
      BY <2>2 DEF ConfirmPendingMempool, Sound, PaidInFlight
    <3> QED BY <1>0, <2>2, <3>1 DEF ConfirmPendingMempool
  <2>3. CASE ConfirmPendingMempoolFails(w)
    BY <2>3, <1>0 DEF ConfirmPendingMempoolFails
  <2>4. CASE LoadTxId(w) BY <2>4, <1>0 DEF LoadTxId
  <2>5. CASE FetchRejected(w) \/ FetchConfirmed(w) \/ FetchNotYet(w)
    BY <2>5, <1>0 DEF FetchRejected, FetchConfirmed, FetchNotYet, Answered
  <2>6. CASE RemoveConfirmed(w) BY <2>6, <1>0 DEF RemoveConfirmed, Deleted, Loaded
  <2>7. CASE ConfirmInvoice(w)
    <3>1. Phase(address[inv[w]]) # "lost"
      BY <2>7, HolderNotLost DEF ConfirmInvoice
    <3>2. WithStatus(w, "CONFIRMED").tx # None
      BY <2>7, <3>1 DEF ConfirmInvoice, WithStatus
    <3> QED BY <1>0, <2>7, <3>2 DEF ConfirmInvoice, WithStatus
  <2>8. CASE ConfirmInvoiceFails(w)
    <3>1. Phase(address[inv[w]])' = "lost"
      BY <2>8, FailureLoses
    <3> QED BY <1>0, <2>8, <3>1 DEF ConfirmInvoiceFails
  <2>9. CASE CommitWorker(w)
    <3>1. CASE Writing(w)
      <4>1. row' = [row EXCEPT ![inv[w]] = write[w]]
        BY <2>9, <3>1 DEF CommitWorker
      <4> QED BY <1>0, <2>9, <3>1, <4>1 DEF CommitWorker, Return
    <3>2. CASE ~Writing(w)
      BY <1>0, <2>9, <3>2 DEF CommitWorker, Return
    <3> QED BY <3>1, <3>2
  <2> QED BY <1>5, <2>1, <2>2, <2>3, <2>4, <2>5, <2>6, <2>7, <2>8, <2>9 DEF WorkerStep
<1>6. ASSUME NEW j \in Jobs, ExpireStep(j) PROVE Backed'
  <2>1. CASE RemoveExpired(j)
    BY <2>1, <1>0 DEF RemoveExpired, AfterExpire, Deleted, Loaded
  <2>2. CASE ExpireInvoice(j) BY <2>2, <1>0 DEF ExpireInvoice, WithStatus, Locked
  <2>3. CASE ExpireInvoiceFails(j) BY <2>3, <1>0 DEF ExpireInvoiceFails, AfterExpire
  <2>4. CASE CommitExpired(j) BY <2>4, <1>0 DEF CommitExpired, AfterExpire
  <2>5. CASE CommitExpiredFails(j) BY <2>5, <1>0 DEF CommitExpiredFails, AfterExpire
  <2> QED BY <1>6, <2>1, <2>2, <2>3, <2>4, <2>5 DEF ExpireStep
<1>7. ASSUME NEW a \in Addresses, ReleaseStep(a) PROVE Backed'
  BY <1>7, <1>0, SMTT(30) DEF ReleaseStep, ReleaseAddress, ReleaseFails
<1>8. ASSUME NEW t \in Txs, Bury(t) \/ Reject(t) PROVE Backed'
 
  <2>1. UNCHANGED <<row, address, snapshot, inv, write, pc>>
    BY <1>8 DEF Bury, Reject
  <2> QED BY <1>0, <2>1
<1>9. CASE UNCHANGED vars
  BY <1>9, <1>0 DEF vars
<1> QED
  BY <1>1, <1>2, <1>3, <1>4, <1>5, <1>6, <1>7, <1>8, <1>9 DEF Next

\* Initially no snapshot names a transaction.
LEMMA InitBacked == Init => Backed
<1> SUFFICES ASSUME Init PROVE Backed
  OBVIOUS
<1>1. \A j \in Jobs : pc[j] \in {"absent", "idle"} /\ write[j] = Absent
  BY DEF Init
<1>2. \A i \in Invoices : row[i] = Absent /\ snapshot[i] = Absent
  BY DEF Init
<1> QED BY <1>1, <1>2 DEF Backed, SnapshotBacked, NamesInFlight, ConfirmedNamesTx,
                          Absent, Jobs

\* When no commit is lost, a CONFIRMED invoice names a transaction and no other
\* invoice names the same: the snapshot confirmCONFIRMED trusts may be that of an
\* update still to be committed, but then no other goroutine can confirm.
THEOREM ConfirmedCreditTheirTx ==
  ASSUME "commit" \notin Faults, "createCommit" \notin Faults
  PROVE  Spec => []ConfirmedCreditsOneTx
<1>1. Init => Claims /\ Backed
  BY InitClaims, InitBacked
<1>2. Base /\ Claims /\ [Next]_vars => Claims'
  BY ClaimsStep
<1>3. /\ Base /\ Claims /\ (Settled /\ Sound /\ RowLock /\ TxNamedOnce) /\ Backed
      /\ [Next]_vars
      => Backed'
  BY BackedStep
<1>4. Base /\ (Settled /\ Sound /\ RowLock /\ TxNamedOnce) /\ Backed =>
   ConfirmedCreditsOneTx
  BY NamedOnceIsCreditedOnce DEF Base, Backed, ConfirmedCreditsOneTx
<1> QED BY <1>1, <1>2, <1>3, <1>4, BaseInvariant, LockInvariant, PTL DEF Spec
=============================================================================
