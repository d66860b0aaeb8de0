------------------------- MODULE InvoiceRecoveryProofs -------------------------
(* What InvoiceProcessorProofs shows of one lifetime of the process holds over *)
(* any number of crashes and restarts: the reload of the open invoices starts  *)
(* from a state the invariants allow.                                          *)
EXTENDS InvoiceRecovery, InvoiceProcessorProofs

\* An invoice has no row before it is created, and a row that names a transaction
\* is paid by it: so is the snapshot of a reloaded invoice.
RowsPaid ==
    /\ \A i \in Invoices :
          pc[i] \in {"absent", "reserved"} \/ row[i].status = "absent" => row[i] = Absent
    /\ \A i \in Invoices : row[i].tx # None => address[i] \in Pays[row[i].tx]
    /\ \A j \in Jobs : Writing(j) /\ write[j].tx # None =>
                           address[inv[j]] \in Pays[write[j].tx]
    /\ \A j \in Jobs : pc[j] = "expired" => Writing(j)

Recoverable == Base /\ Settled /\ Sound /\ RowsPaid

\* No step of a goroutine writes a transaction that does not pay the invoice.
LEMMA RowsPaidStep ==
  ASSUME Base, Settled, Sound, RowsPaid, [Next]_vars
  PROVE  RowsPaid'
<1> USE Apart DEF Base, TypeOK, Assigned, RowsPaid, Writing, Jobs, table, memory, local, Goto
<1>1. ASSUME NEW i \in Invoices, Create(i) PROVE RowsPaid'
  <2>1. \A j \in Jobs : Writing(j) => pc[inv[j]] \notin {"absent", "reserved"}
    BY DEF Settled, Quiet
  <2>2. CASE FindAddress(i) BY <2>1, <2>2 DEF FindAddress, Absent
  <2>3. CASE CreateInvoice(i) BY <2>1, <2>3 DEF CreateInvoice, Fresh
  <2>4. CASE CreateFails(i) BY <2>1, <2>4 DEF CreateFails, Absent
  <2> QED BY <1>1, <2>2, <2>3, <2>4 DEF Create
<1>2. ASSUME NEW i \in Invoices, HandleInvoice(i) PROVE RowsPaid'
  BY <1>2 DEF HandleInvoice
<1>3. ASSUME NEW i \in Invoices, TimerStep(i) PROVE RowsPaid'
  BY <1>3 DEF TimerStep, FireTimer, StopTimer
<1>4. ASSUME NEW w \in Workers, Spawn(w) PROVE RowsPaid'
  BY <1>4 DEF Spawn, SpawnOnBlock, SpawnOnTx, Settled, Quiet
<1>5. ASSUME NEW w \in Workers, WorkerStep(w) PROVE RowsPaid'
  <2>1. CASE VerifyTx(w) BY <2>1 DEF VerifyTx, Return, Absent
  <2>2. CASE ConfirmPendingMempool(w)
    BY <2>2 DEF ConfirmPendingMempool, Sound, PaidInFlight
  <2>3. CASE ConfirmPendingMempoolFails(w) BY <2>3 DEF ConfirmPendingMempoolFails
  <2>4. CASE LoadTxId(w) BY <2>4 DEF LoadTxId
  <2>5. CASE FetchRejected(w) \/ FetchConfirmed(w) \/ FetchNotYet(w)
    BY <2>5 DEF FetchRejected, FetchConfirmed, FetchNotYet, Answered
  <2>6. CASE RemoveConfirmed(w) BY <2>6 DEF RemoveConfirmed
  <2>7. CASE ConfirmInvoice(w) BY <2>7 DEF ConfirmInvoice, WithStatus
  <2>8. CASE ConfirmInvoiceFails(w) BY <2>8 DEF ConfirmInvoiceFails, Absent
  <2>9. CASE CommitWorker(w) BY <2>9, SMTT(30) DEF CommitWorker, Return, Absent
  <2> QED BY <1>5, <2>1, <2>2, <2>3, <2>4, <2>5, <2>6, <2>7, <2>8, <2>9
             DEF WorkerStep
<1>6. ASSUME NEW j \in Jobs, ExpireStep(j) PROVE RowsPaid'
  <2>1. CASE RemoveExpired(j) BY <2>1 DEF RemoveExpired, AfterExpire
  <2>2. CASE ExpireInvoice(j) BY <2>2 DEF ExpireInvoice, WithStatus
  <2>3. CASE ExpireInvoiceFails(j) BY <2>3 DEF ExpireInvoiceFails, AfterExpire
  <2>4. CASE CommitExpired(j)
    <3>1. inv[j] \in Invoices /\ Writing(j)
      BY <2>4 DEF CommitExpired
    <3> QED BY <2>4, <3>1 DEF CommitExpired, AfterExpire, Absent
  <2>5. CASE CommitExpiredFails(j)
    BY <2>5 DEF CommitExpiredFails, AfterExpire, Absent
  <2> QED BY <1>6, <2>1, <2>2, <2>3, <2>4, <2>5 DEF ExpireStep
<1>7. ASSUME NEW a \in Addresses, ReleaseStep(a) PROVE RowsPaid'
  BY <1>7 DEF ReleaseStep, ReleaseAddress, ReleaseFails
<1>8. ASSUME NEW t \in Txs, Bury(t) \/ Reject(t) PROVE RowsPaid'
  BY <1>8 DEF Bury, Reject
<1>9. CASE UNCHANGED vars
  BY <1>9 DEF vars
<1> QED
  BY <1>1, <1>2, <1>3, <1>4, <1>5, <1>6, <1>7, <1>8, <1>9 DEF Next

\* The reload meets the invariants, whatever the goroutines were doing.
LEMMA CrashStep ==
  ASSUME Base, Settled, Sound, RowsPaid, Crash
  PROVE  Base' /\ Settled' /\ Sound' /\ RowsPaid'
<1> USE Apart DEF Base, TypeOK
<1>1. PICK kept \in FirstOfEachAddress :
        /\ pendingInvoices' =
              [a \in Addresses |->
                  IF \E i \in kept : address[i] = a
                  THEN CHOOSE i \in kept : address[i] = a
                  ELSE None]
        /\ snapshot' = [i \in Invoices |-> IF i \in kept THEN row[i] ELSE Absent]
        /\ pc' = [j \in Jobs |->
                     IF j \in Workers THEN "idle"
                     ELSE IF row[j].status = "absent" THEN "absent"
                     ELSE IF j \in kept THEN "armed" ELSE "done"]
  BY DEF Crash
<1>2. /\ address' = [i \in Invoices |->
                        IF row[i].status = "absent" THEN None ELSE address[i]]
      /\ cancelled' = {} /\ aborted' = {}
      /\ releases' = [a \in Addresses |-> 0]
      /\ inv' = [j \in Jobs |-> IF j \in Invoices THEN j ELSE None]
      /\ txId' = [w \in Workers |-> None]
      /\ write' = [j \in Jobs |-> Absent]
      /\ UNCHANGED <<row, occupancy, chain>>
  BY DEF Crash, NoneCancelled
<1>3. /\ kept \subseteq Invoices
      /\ \A i \in kept : row[i].status \in {"PENDING", "PENDING_MEMPOOL"}
  BY <1>1 DEF FirstOfEachAddress, PendingRows
<1>4. \A i \in Invoices : row[i].status # "absent" => address[i] \in Addresses
  BY DEF Assigned, RowsPaid, Absent
<1>5. \A a \in Addresses : pendingInvoices'[a] = None \/
         \E i \in kept : pendingInvoices'[a] = i /\ address[i] = a
  BY <1>1
<1>6. Base'
  <2>1. Absent \in Rows /\ \A i \in Invoices : row[i] \in Rows
    BY DEF Absent, Rows, Statuses
  <2>2. pendingInvoices' \in [Addresses -> Invoices \cup {None}]
    BY <1>1, <1>3, <1>5
  <2>3. snapshot' \in [Invoices -> Rows]
    BY <1>1, <2>1
  <2>4. address' \in [Invoices -> Addresses \cup {None}]
    BY <1>2, <1>4
  <2>5. /\ \A i \in Invoices : pc'[i] \in {"absent", "armed", "done"} /\ inv'[i] = i
        /\ \A w \in Workers : pc'[w] = "idle"
        /\ pc' \in [Jobs -> InvoicePcs \cup WorkerPcs]
    BY <1>1, <1>2 DEF Jobs, InvoicePcs, WorkerPcs
  <2>6. inv' \in [Jobs -> Invoices \cup {None}]
    BY <1>2
  <2>7. TypeOK'
    BY <1>2, <2>1, <2>2, <2>3, <2>4, <2>5, <2>6 DEF InvoicePcs, WorkerPcs
  <2>8. Assigned'
    BY <1>1, <1>2, <1>4, <2>5 DEF Assigned, Jobs
  <2>9. WatchedHasTimer'
    BY <1>1, <1>2, <1>3, <1>5, SMTT(30) DEF WatchedHasTimer, Jobs
  <2> QED BY <2>7, <2>8, <2>9
<1>7. Settled'
  <2>1. Quiet'
    BY <1>1, <1>2, <1>3 DEF Quiet, Writing, Jobs, Absent, Resolved
  <2>2. Unwatched'
    BY <1>1, <1>2 DEF Unwatched, Jobs, Absent, Resolved
  <2>3. ResolvedNotWatched'
    BY <1>2, <1>3, <1>5 DEF ResolvedNotWatched, Watched, Resolved
  <2> QED BY <2>1, <2>2, <2>3 DEF Settled
<1>8. \A i \in Invoices : row[i].status # "absent" => address'[i] = address[i]
  BY <1>2
<1>9. Sound'
  <2>1. ConfirmedWasPaid'
    BY <1>2, <1>8 DEF Sound, ConfirmedWasPaid, Paid
  <2>2. \A i \in Invoices : snapshot'[i].tx # None => address'[i] \in Pays[snapshot'[i].tx]
    BY <1>1, <1>3, <1>8 DEF RowsPaid, Absent
  <2>3. PaidInFlight'
    BY <1>1, <1>2, <2>2 DEF PaidInFlight, Jobs, Absent
  <2> QED BY <2>1, <2>3 DEF Sound
<1>10. RowsPaid'
  BY <1>1, <1>2, <1>8 DEF RowsPaid, Writing, Jobs, Absent
<1> QED BY <1>6, <1>7, <1>9, <1>10

\* An update of the keys touches nothing but the addresses.
LEMMA KeysStep ==
  ASSUME Base, Settled, Sound, RowsPaid, UpdateCryptoKeys
  PROVE  Base' /\ Settled' /\ Sound' /\ RowsPaid'
<1>1. /\ occupancy' = [a \in Addresses |-> "none"]
      /\ UNCHANGED <<row, address, memory, local, pc, chain>>
  BY DEF UpdateCryptoKeys
<1> USE <1>1 DEF memory, local
<1>2. Base'
  BY DEF Base, TypeOK, Assigned, WatchedHasTimer
<1>3. Settled'
  BY DEF Settled, Quiet, Unwatched, ResolvedNotWatched, Writing, Watched
<1>4. Sound'
  BY DEF Sound, ConfirmedWasPaid, PaidInFlight, Paid
<1>5. RowsPaid'
  BY DEF RowsPaid, Writing
<1> QED BY <1>2, <1>3, <1>4, <1>5

\* Recoverable holds in every state of every lifetime.
LEMMA RecoveryInvariant == RecoverySpec => []Recoverable
<1>1. RecoveryInit => Recoverable
  <2> SUFFICES ASSUME Init PROVE RowsPaid
    BY BaseInit, InitSettled, InitSound DEF RecoveryInit, Recoverable
  <2>1. \A j \in Jobs : write[j] = Absent /\ pc[j] \in {"absent", "idle"}
    BY DEF Init
  <2>2. \A i \in Invoices : row[i] = Absent
    BY DEF Init
  <2> QED BY <2>1, <2>2 DEF RowsPaid, Writing, Absent
<1>2. Recoverable /\ [RecoveryNext]_recoveryVars => Recoverable'
  <2> SUFFICES ASSUME Recoverable, [RecoveryNext]_recoveryVars PROVE Recoverable'
    OBVIOUS
  <2>1. CASE [Next]_vars
    BY <2>1, BaseStep, SettledStep, SoundStep, RowsPaidStep DEF Recoverable
  <2>2. CASE Crash
    BY <2>2, CrashStep DEF Recoverable
  <2>3. CASE UpdateCryptoKeys
    BY <2>3, KeysStep DEF Recoverable
  <2> QED BY <2>1, <2>2, <2>3 DEF RecoveryNext, Run, recoveryVars
<1> QED BY <1>1, <1>2, PTL DEF RecoverySpec

\* Across crashes an entry of pendingInvoices has a running timer.
THEOREM RecoveredEntriesHaveTimers == RecoverySpec => []WatchedHasTimer
<1>1. Recoverable => WatchedHasTimer
  BY DEF Recoverable, Base
<1> QED BY <1>1, RecoveryInvariant, PTL

\* Across crashes an invoice the database has as EXPIRED or CONFIRMED is not
\* watched: loadPersistedPendingInvoices brings none back.
THEOREM RecoveredResolvedAreNotWatched == RecoverySpec => []ResolvedNotWatched
<1>1. Recoverable => ResolvedNotWatched
  BY DEF Recoverable, Settled
<1> QED BY <1>1, RecoveryInvariant, PTL

\* Across crashes a CONFIRMED invoice was paid: the transaction id a restart
\* finds in the row is that of a payment of the invoice.
THEOREM RecoveredConfirmedArePaid == RecoverySpec => []ConfirmedWasPaid
<1>1. Recoverable => ConfirmedWasPaid
  BY DEF Recoverable, Sound
<1> QED BY <1>1, RecoveryInvariant, PTL

-----------------------------------------------------------------------------
\* One writer of a row, one row of a transaction, one goroutine that resolves.
Serial == RowLock /\ TxNamedOnce /\ OneResolver

\* A restart leaves no update and no goroutine behind, an update of the keys touches
\* neither: what the rows name is what they named before.
LEMMA SerialStep ==
  ASSUME Base, Settled, Sound, Serial, [RecoveryNext]_recoveryVars
  PROVE  Serial'
<1> USE DEF Serial
<1>1. CASE [Next]_vars
  BY <1>1, LockStep, OnceStep, ResolverStep
<1>2. CASE Crash
  <2>1. \A j \in Jobs : /\ write'[j] = Absent
                       /\ pc'[j] \in {"idle", "absent", "armed", "done"}
    BY <1>2 DEF Crash
  <2>2. UNCHANGED row
    BY <1>2 DEF Crash
  <2>3. RowLock'
    BY <2>1 DEF RowLock, Writing, Absent, Jobs
  <2>4. TxNamedOnce'
    <3>1. \A i \in Invoices, t \in Txs : Names(i, t)' => Names(i, t)
      BY <2>1, <2>2 DEF Names, Writing, Absent
    <3> QED BY <3>1 DEF TxNamedOnce
  <2>5. OneResolver'
    BY <2>1 DEF OneResolver, Resolves, Absent, Resolved
  <2> QED BY <2>3, <2>4, <2>5
<1>3. CASE UpdateCryptoKeys
  <2>1. UNCHANGED <<row, address, pc, inv, write>>
    BY <1>3 DEF UpdateCryptoKeys, local
  <2> QED BY <2>1 DEF RowLock, TxNamedOnce, Names, OneResolver, Resolves,
                      HasOwnAddress, Writing
<1> QED BY <1>1, <1>2, <1>3 DEF RecoveryNext, Run, recoveryVars

\* Serial holds in every state of every lifetime.
LEMMA SerialInvariant == RecoverySpec => []Serial
<1>1. RecoveryInit => Serial
  BY InitLocked DEF RecoveryInit, Serial
<1>2. Recoverable /\ Serial /\ [RecoveryNext]_recoveryVars => Serial'
  BY SerialStep DEF Recoverable
<1> QED BY <1>1, <1>2, RecoveryInvariant, PTL DEF RecoverySpec

\* Across crashes and updates of the keys no transaction is credited to two
\* invoices, although a restart finds transactions only in the rows.
THEOREM RecoveredTxsAreCreditedOnce == RecoverySpec => []TxCreditedOnce
<1>1. Recoverable /\ Serial => TxCreditedOnce
  BY NamedOnceIsCreditedOnce DEF Recoverable, Base, Serial
<1> QED BY <1>1, RecoveryInvariant, SerialInvariant, PTL

\* Across crashes and updates of the keys too, a verdict on an invoice changes only
\* when its address has been given to another invoice: the reload watches none that
\* is resolved.
THEOREM RecoveryFlipsOnReuse == RecoverySpec => NoFlipWithoutReuse
<1>1. Recoverable /\ Serial /\ [RecoveryNext]_recoveryVars =>
         [\A i \in Invoices :
            row[i].status \in Resolved /\ row'[i].status \in Resolved \ {row[i].status} =>
                \E k \in Invoices \ {i} : address[k] = address[i]]_vars
  <2> SUFFICES ASSUME Recoverable, Serial, [RecoveryNext]_recoveryVars,
                      NEW i \in Invoices,
                      row[i].status \in Resolved,
                      row'[i].status \in Resolved \ {row[i].status}
               PROVE  \E k \in Invoices \ {i} : address[k] = address[i]
    OBVIOUS
  <2>1. CASE [Next]_vars
    BY <2>1, FlipStep DEF Recoverable, Serial
  <2>2. CASE Crash \/ UpdateCryptoKeys
    BY <2>2 DEF Crash, UpdateCryptoKeys
  <2> QED BY <2>1, <2>2 DEF RecoveryNext, Run, recoveryVars
<1> QED BY <1>1, RecoveryInvariant, SerialInvariant, PTL DEF RecoverySpec, NoFlipWithoutReuse
=============================================================================
