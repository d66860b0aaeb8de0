---------------------------- MODULE InvoiceProcessor ----------------------------
(***************************************************************************)
(* One coin's baseCryptoProcessor (internal/processor/base.go) during one  *)
(* lifetime of the process: the invoices it creates, the address each of   *)
(* them is paid to, the map pendingInvoices of the invoices it watches,    *)
(* and the goroutines that confirm and expire them.                        *)
(*                                                                         *)
(* A job is a goroutine.  The job of an invoice is first the request       *)
(* handler that creates it and then the timer goroutine handleInvoice      *)
(* starts for it.  A worker is a goroutine started by Range over           *)
(* pendingInvoices for a transaction (verifyTxOnMempool) or a block        *)
(* (verifyTxOnNewBlock); it keeps the map value it was started with.       *)
(*                                                                         *)
(* Each statement a job sends to PostgreSQL is one step.  A row a job has  *)
(* updated stays locked and invisible until its transaction ends (READ     *)
(* COMMITTED), and the UPDATEs of invoices are by id, with no condition on *)
(* the status.  InvoiceRecovery adds crashes, InvoiceStream what the       *)
(* subscribers see.                                                        *)
(***************************************************************************)
EXTENDS Naturals

CONSTANTS
    Invoices,   \* the invoices that may be created
    Tokens,     \* those whose coin is a token of the processor's chain
    Addresses,  \* the addresses the user's keys can derive
    Txs,        \* blockchain transactions that pay some of the addresses
    Workers,    \* slots for goroutines started by Range
    Pays,       \* Pays[t]: the addresses t pays at least the required amount
    Rejectable, \* the transactions that may be dropped or double spent
    Faults,     \* the kinds of database failure that may happen
    None        \* no invoice, address, transaction or row

FaultKinds == {"begin", "update", "commit", "create", "createCommit", "release"}

ASSUME ProcessorAssumption ==
    /\ None \notin Invoices \cup Addresses \cup Txs
    /\ Invoices \cap Workers = {}
    /\ Tokens \subseteq Invoices
    /\ Pays \in [Txs -> SUBSET Addresses]
    /\ Rejectable \subseteq Txs
    /\ Faults \subseteq FaultKinds

VARIABLES
    row,              \* invoices table, as committed
    address,          \* the crypto_address of an invoice
    occupancy,        \* crypto_addresses table: is_occupied, or not derived yet
    pendingInvoices,  \* the sync.Map: address -> invoice
    snapshot,         \* the row an entry's atomic pointer points to
    cancelled,        \* invoices whose timer context was cancelled
    releases,         \* releaseAddressHelper goroutines under way, per address
    pc,               \* the next step of a job
    inv,              \* the invoice it works on
    txId,             \* the transaction delivered to it or looked up by it
    write,            \* the row version it has not committed yet
    aborted,          \* workers whose transaction PostgreSQL has aborted
    chain             \* what the daemon knows of a transaction

table  == <<row, address, occupancy>>
memory == <<pendingInvoices, snapshot, cancelled, releases>>
local  == <<inv, txId, write, aborted>>
vars   == <<table, memory, local, pc, chain>>

Jobs     == Invoices \cup Workers
Statuses == {"PENDING", "PENDING_MEMPOOL", "EXPIRED", "CONFIRMED"}
Resolved == {"EXPIRED", "CONFIRMED"}
Rows     == [status : Statuses \cup {"absent"}, tx : Txs \cup {None}]
Absent   == [status |-> "absent", tx |-> None]
Fresh    == [status |-> "PENDING", tx |-> None]

InvoicePcs == {"absent", "reserved", "created", "armed", "expire", "expiring",
               "expired", "done"}
WorkerPcs  == {"idle", "verify", "mempool", "load", "fetch", "remove", "confirm",
               "expire", "expiring", "expired", "commit"}

Init ==
    /\ row = [i \in Invoices |-> Absent]
    /\ address = [i \in Invoices |-> None]
    /\ occupancy = [a \in Addresses |-> "none"]
    /\ pendingInvoices = [a \in Addresses |-> None]
    /\ snapshot = [i \in Invoices |-> Absent]
    /\ cancelled = {}
    /\ releases = [a \in Addresses |-> 0]
    /\ pc = [j \in Jobs |-> IF j \in Invoices THEN "absent" ELSE "idle"]
    /\ inv = [j \in Jobs |-> IF j \in Invoices THEN j ELSE None]
    /\ txId = [w \in Workers |-> None]
    /\ write = [j \in Jobs |-> Absent]
    /\ aborted = {}
    /\ chain = [t \in Txs |-> "seen"]

Goto(j, next) == pc' = [pc EXCEPT ![j] = next]

\* The goroutine of worker w returns.
Return(w) ==
    /\ Goto(w, "idle")
    /\ inv' = [inv EXCEPT ![w] = None]
    /\ txId' = [txId EXCEPT ![w] = None]
    /\ write' = [write EXCEPT ![w] = Absent]
    /\ aborted' = aborted \ {w}

-----------------------------------------------------------------------------
(* Row locks and the UNIQUE index on tx_id.                                *)

Writing(j) == write[j].status # "absent"

LockedByOther(j, i) == \E k \in Jobs \ {j} : inv[k] = i /\ Writing(k)

\* expireInvoice opens a transaction of its own: a row its caller has updated
\* is locked for it like any other.
Locked(i) == \E k \in Jobs : inv[k] = i /\ Writing(k)

\* The index check waits for a transaction that may still remove or add t.
TxContended(i, t) ==
    \E k \in Jobs : Writing(k) /\ inv[k] # i /\ t \in {write[k].tx, row[inv[k]].tx}

\* Slip: no UNIQUE index on tx_id.
TxNeverTaken(i, t) == FALSE

TxTaken(i, t) == \E k \in Invoices \ {i} : row[k].tx = t

\* READ COMMITTED: an UPDATE of the status keeps the tx_id of the transaction's
\* own version of the row, or of the one committed last.
WithStatus(j, status) ==
    [status |-> status, tx |-> IF Writing(j) THEN write[j].tx ELSE row[inv[j]].tx]

-----------------------------------------------------------------------------
(* createInvoice: one transaction that takes an address, derives one when  *)
(* none is free, and inserts the invoice.                                  *)

\* Slip: a plain SELECT instead of FOR UPDATE SKIP LOCKED.
NotReserved(a) == FALSE

Reserved(a) == \E i \in Invoices : pc[i] = "reserved" /\ address[i] = a

\* FOR UPDATE SKIP LOCKED
FreeAddresses == {a \in Addresses : occupancy[a] = "free" /\ ~Reserved(a)}
NewAddresses  == {a \in Addresses : occupancy[a] = "none" /\ ~Reserved(a)}

\* Every address is stored under the chain's own coin and looked for under the
\* invoice's: a token invoice finds none.
FreeFor(i) == IF i \in Tokens THEN {} ELSE FreeAddresses

FindAddress(i) ==
    /\ pc[i] = "absent"
    /\ \E a \in Addresses :
          /\ a \in FreeFor(i) \/ (FreeFor(i) = {} /\ a \in NewAddresses)
          /\ address' = [address EXCEPT ![i] = a]
    /\ Goto(i, "reserved")
    /\ UNCHANGED <<row, occupancy, memory, local, chain>>

\* The error of Commit is ignored: the invoice is returned all the same.
CreateInvoice(i) ==
    /\ pc[i] = "reserved"
    /\ \/ /\ row' = [row EXCEPT ![i] = Fresh]
          /\ occupancy' = [occupancy EXCEPT ![address[i]] = "occupied"]
       \/ "createCommit" \in Faults /\ UNCHANGED <<row, occupancy>>
    /\ Goto(i, "created")
    /\ UNCHANGED <<address, memory, local, chain>>

\* The INSERT fails: the deferred Rollback gives the address back.
CreateFails(i) ==
    /\ "create" \in Faults
    /\ pc[i] = "reserved"
    /\ Goto(i, "absent")
    /\ address' = [address EXCEPT ![i] = None]
    /\ UNCHANGED <<row, occupancy, memory, local, chain>>

\* handleInvoice: an address that has an entry keeps it and the invoice is
\* not watched.  Its Load and its Store are one step: between them another
\* request would have to come with an invoice of the same address.
HandleInvoice(i) ==
    /\ pc[i] = "created"
    /\ IF pendingInvoices[address[i]] # None
       THEN /\ Goto(i, "done")
            /\ UNCHANGED <<pendingInvoices, snapshot>>
       ELSE /\ Goto(i, "armed")
            /\ pendingInvoices' = [pendingInvoices EXCEPT ![address[i]] = i]
            /\ snapshot' = [snapshot EXCEPT ![i] = Fresh]
    /\ UNCHANGED <<table, cancelled, releases, local, chain>>

-----------------------------------------------------------------------------
(* verifyTxOnMempool and verifyTxOnNewBlock: a goroutine per entry of      *)
(* pendingInvoices.  A transaction may be delivered any number of times:   *)
(* by the pool, by a block, by both.  A goroutine whose begin or           *)
(* verifyTxHandler fails has changed nothing, and is one not started.      *)

Watched(i) == \E a \in Addresses : address[i] = a /\ pendingInvoices[a] = i

SpawnOnTx(w, i, t) ==
    /\ pc[w] = "idle"
    /\ Watched(i)
    /\ chain[t] # "rejected"
    /\ Goto(w, "verify")
    /\ inv' = [inv EXCEPT ![w] = i]
    /\ txId' = [txId EXCEPT ![w] = t]
    /\ UNCHANGED <<table, memory, write, aborted, chain>>

SpawnOnBlock(w, i) ==
    /\ pc[w] = "idle"
    /\ Watched(i)
    /\ Goto(w, "load")
    /\ inv' = [inv EXCEPT ![w] = i]
    /\ UNCHANGED <<table, memory, txId, write, aborted, chain>>

\* The snapshot is read here, and the UPDATE it leads to is a later step.
VerifyTx(w) ==
    /\ pc[w] = "verify"
    /\ IF /\ address[inv[w]] \in Pays[txId[w]]
          /\ snapshot[inv[w]].status = "PENDING"
       THEN Goto(w, "mempool") /\ UNCHANGED local
       ELSE Return(w)
    /\ UNCHANGED <<table, memory, chain>>

\* confirmPENDING_MEMPOOL: UPDATE, then Store into the atomic pointer.
ConfirmPendingMempool(w) ==
    LET i == inv[w]
        new == [status |-> "PENDING_MEMPOOL", tx |-> txId[w]]
    IN  /\ pc[w] = "mempool"
        /\ row[i].status # "absent"
        /\ ~LockedByOther(w, i)
        /\ ~TxContended(i, txId[w])
        /\ ~TxTaken(i, txId[w])
        /\ Goto(w, "load")
        /\ write' = [write EXCEPT ![w] = new]
        /\ snapshot' = [snapshot EXCEPT ![i] = new]
        /\ UNCHANGED <<table, pendingInvoices, cancelled, releases, inv, txId, aborted,
                       chain>>

\* The UPDATE is refused, or finds no row: confirmPENDING_MEMPOOL returns and
\* confirmCONFIRMED is called all the same.
ConfirmPendingMempoolFails(w) ==
    LET i == inv[w]
    IN  /\ pc[w] = "mempool"
        /\ \/ "update" \in Faults
           \/ row[i].status = "absent"
           \/ ~LockedByOther(w, i) /\ ~TxContended(i, txId[w]) /\ TxTaken(i, txId[w])
        /\ Goto(w, "load")
        /\ aborted' = IF row[i].status = "absent" THEN aborted ELSE aborted \cup {w}
        /\ UNCHANGED <<table, memory, inv, txId, write, chain>>

-----------------------------------------------------------------------------
(* confirmCONFIRMED                                                        *)

LoadTxId(w) ==
    /\ pc[w] = "load"
    /\ Goto(w, IF snapshot[inv[w]].tx = None THEN "commit" ELSE "fetch")
    /\ txId' = [txId EXCEPT ![w] = snapshot[inv[w]].tx]
    /\ UNCHANGED <<table, memory, inv, write, aborted, chain>>

\* GetTransactions has answered and confirmCONFIRMED goes on at `next`.
Answered(w, next) ==
    /\ pc[w] = "fetch"
    /\ Goto(w, next)
    /\ txId' = [txId EXCEPT ![w] = None]
    /\ UNCHANGED <<table, memory, inv, write, aborted, chain>>

FetchRejected(w) == Answered(w, "expire") /\ chain[txId[w]] = "rejected"

\* Slip: the two sides of the comparison swapped.
UnderConfirmed(t) == chain[t] # "rejected"

Confirmed(t) == chain[t] = "buried"

\* Slip: no LoadAndDelete before ConfirmInvoiceById.
FetchConfirmedAtOnce(w) == Answered(w, "confirm") /\ Confirmed(txId[w])

FetchConfirmed(w) == Answered(w, "remove") /\ Confirmed(txId[w])

\* Too few confirmations, or GetTransactions failed.
FetchNotYet(w) == Answered(w, "commit")

\* pendingInvoices.LoadAndDelete(a): whether there was an entry, and the map
\* without it.  Slips: the answer is ignored; Load instead of LoadAndDelete.
AlwaysLoaded(a) == TRUE
Loaded(a) == pendingInvoices[a] # None

NotDeleted(a) == pendingInvoices
Deleted(a) == [pendingInvoices EXCEPT ![a] = None]

\* By address: whose entry it is, is not looked at.
RemoveConfirmed(w) ==
    LET a == address[inv[w]]
    IN  /\ pc[w] = "remove"
        /\ pendingInvoices' = Deleted(a)
        /\ IF Loaded(a)
           THEN Goto(w, "confirm") /\ cancelled' = cancelled \cup {inv[w]}
           ELSE Goto(w, "commit") /\ UNCHANGED cancelled
        /\ UNCHANGED <<table, snapshot, releases, local, chain>>

\* ConfirmInvoiceById, then `go releaseAddressHelper` before the commit.
ConfirmInvoice(w) ==
    LET i == inv[w]
    IN  /\ pc[w] = "confirm"
        /\ w \notin aborted
        /\ row[i].status # "absent"
        /\ ~LockedByOther(w, i)
        /\ Goto(w, "commit")
        /\ write' = [write EXCEPT ![w] = WithStatus(w, "CONFIRMED")]
        /\ releases' = [releases EXCEPT ![address[i]] = @ + 1]
        /\ UNCHANGED <<table, pendingInvoices, snapshot, cancelled, inv, txId, aborted,
                       chain>>

\* The entry is gone and the address stays occupied.
ConfirmInvoiceFails(w) ==
    /\ pc[w] = "confirm"
    /\ w \in aborted \/ "update" \in Faults \/ row[inv[w]].status = "absent"
    /\ Goto(w, "commit")
    /\ write' = [write EXCEPT ![w] = Absent]
    /\ UNCHANGED <<table, memory, inv, txId, aborted, chain>>

\* The commit that ends a worker's transaction, whose error is ignored; PostgreSQL
\* turns the commit of an aborted transaction into a rollback.
CommitWorker(w) ==
    /\ pc[w] = "commit"
    /\ \/ row' = IF Writing(w) THEN [row EXCEPT ![inv[w]] = write[w]] ELSE row
       \/ "commit" \in Faults /\ UNCHANGED row
    /\ Return(w)
    /\ UNCHANGED <<address, occupancy, memory, chain>>

-----------------------------------------------------------------------------
(* handleInvoiceHelper and expireInvoice.  The context of the timer, which *)
(* the timer's own expireInvoice uses for its queries, is cancelled by a   *)
(* confirmation.                                                           *)

\* Slip: the timer lets an invoice with a transaction be.
FireTimerUnpaid(i) ==
    /\ pc[i] = "armed"
    /\ i \notin cancelled
    /\ snapshot[i].status = "PENDING"
    /\ Goto(i, "expire")
    /\ UNCHANGED <<table, memory, local, chain>>

FireTimer(i) ==
    /\ pc[i] = "armed"
    /\ i \notin cancelled
    /\ Goto(i, "expire")
    /\ UNCHANGED <<table, memory, local, chain>>

StopTimer(i) ==
    /\ pc[i] = "armed"
    /\ i \in cancelled
    /\ Goto(i, "done")
    /\ UNCHANGED <<table, memory, local, chain>>

\* Slip: the timer goroutine goes on to commit its caller's transaction.
CommitAfterExpire(j) == "commit"

\* Where the caller of expireInvoice goes on.
AfterExpire(j) == IF j \in Workers THEN "commit" ELSE "done"

RemoveExpired(j) ==
    LET a == address[inv[j]]
    IN  /\ pc[j] = "expire"
        /\ pendingInvoices' = Deleted(a)
        /\ Goto(j, IF Loaded(a) THEN "expiring" ELSE AfterExpire(j))
        /\ UNCHANGED <<table, snapshot, cancelled, releases, local, chain>>

\* Only the timer runs on the context that is cancelled.
ContextDone(j) == j \in cancelled

\* ExpireInvoiceById in a transaction of its own, then `go
\* releaseAddressHelper` before the commit.
ExpireInvoice(j) ==
    LET i == inv[j]
    IN  /\ pc[j] = "expiring"
        /\ ~ContextDone(j)
        /\ row[i].status # "absent"
        /\ ~Locked(i)
        /\ Goto(j, "expired")
        /\ write' = [write EXCEPT ![j] = WithStatus(j, "EXPIRED")]
        /\ releases' = [releases EXCEPT ![address[i]] = @ + 1]
        /\ UNCHANGED <<table, pendingInvoices, snapshot, cancelled, inv, txId, aborted,
                       chain>>

ExpireInvoiceFails(j) ==
    /\ pc[j] = "expiring"
    /\ \/ ContextDone(j)
       \/ Faults \cap {"begin", "update"} # {}
       \/ row[inv[j]].status = "absent"
    /\ Goto(j, AfterExpire(j))
    /\ UNCHANGED <<table, memory, local, chain>>

CommitExpired(j) ==
    /\ pc[j] = "expired"
    /\ ~ContextDone(j)
    /\ row' = [row EXCEPT ![inv[j]] = write[j]]
    /\ write' = [write EXCEPT ![j] = Absent]
    /\ Goto(j, AfterExpire(j))
    /\ UNCHANGED <<address, occupancy, memory, inv, txId, aborted, chain>>

CommitExpiredFails(j) ==
    /\ pc[j] = "expired"
    /\ ContextDone(j) \/ "commit" \in Faults
    /\ write' = [write EXCEPT ![j] = Absent]
    /\ Goto(j, AfterExpire(j))
    /\ UNCHANGED <<table, memory, inv, txId, aborted, chain>>

-----------------------------------------------------------------------------
(* releaseAddressHelper                                                    *)

\* Slip: no Commit.
ReleaseRollback(a) ==
    /\ releases[a] > 0
    /\ releases' = [releases EXCEPT ![a] = @ - 1]
    /\ UNCHANGED <<table, pendingInvoices, snapshot, cancelled, local, pc, chain>>

ReleaseAddress(a) ==
    /\ releases[a] > 0
    /\ releases' = [releases EXCEPT ![a] = @ - 1]
    /\ occupancy' = IF occupancy[a] = "none" THEN occupancy
                    ELSE [occupancy EXCEPT ![a] = "free"]
    /\ UNCHANGED <<row, address, pendingInvoices, snapshot, cancelled, local, pc, chain>>

ReleaseFails(a) ==
    /\ "release" \in Faults
    /\ releases[a] > 0
    /\ releases' = [releases EXCEPT ![a] = @ - 1]
    /\ UNCHANGED <<table, pendingInvoices, snapshot, cancelled, local, pc, chain>>

-----------------------------------------------------------------------------
(* The blockchain, as GetTransactions reports it: a transaction reaches    *)
(* the required confirmations, or is dropped or double spent before it     *)
(* does.                                                                   *)

Bury(t) ==
    /\ chain[t] = "seen"
    /\ chain' = [chain EXCEPT ![t] = "buried"]
    /\ UNCHANGED <<table, memory, local, pc>>

Reject(t) ==
    /\ t \in Rejectable
    /\ chain[t] = "seen"
    /\ chain' = [chain EXCEPT ![t] = "rejected"]
    /\ UNCHANGED <<table, memory, local, pc>>

-----------------------------------------------------------------------------

Create(i) ==
    FindAddress(i) \/ CreateInvoice(i) \/ CreateFails(i)

Spawn(w) ==
    \E i \in Invoices : SpawnOnBlock(w, i) \/ \E t \in Txs : SpawnOnTx(w, i, t)

WorkerStep(w) ==
    \/ VerifyTx(w)
    \/ ConfirmPendingMempool(w) \/ ConfirmPendingMempoolFails(w)
    \/ LoadTxId(w)
    \/ FetchRejected(w) \/ FetchConfirmed(w) \/ FetchNotYet(w)
    \/ RemoveConfirmed(w)
    \/ ConfirmInvoice(w) \/ ConfirmInvoiceFails(w)
    \/ CommitWorker(w)

TimerStep(i) == FireTimer(i) \/ StopTimer(i)

ExpireStep(j) ==
    \/ RemoveExpired(j)
    \/ ExpireInvoice(j) \/ ExpireInvoiceFails(j)
    \/ CommitExpired(j) \/ CommitExpiredFails(j)

ReleaseStep(a) == ReleaseAddress(a) \/ ReleaseFails(a)

Next ==
    \/ \E i \in Invoices : Create(i) \/ HandleInvoice(i) \/ TimerStep(i)
    \/ \E w \in Workers : Spawn(w) \/ WorkerStep(w)
    \/ \E j \in Jobs : ExpireStep(j)
    \/ \E a \in Addresses : ReleaseStep(a)
    \/ \E t \in Txs : Bury(t) \/ Reject(t)

Spec == Init /\ [][Next]_vars

\* The Go scheduler runs every goroutine that can run, the timers fire, and
\* PostgreSQL grants a lock that is free.  Nothing is promised of requests,
\* deliveries or the blockchain.
Fairness ==
    /\ \A i \in Invoices : WF_vars(HandleInvoice(i)) /\ WF_vars(TimerStep(i))
    /\ \A w \in Workers : WF_vars(WorkerStep(w))
    /\ \A j \in Jobs : WF_vars(ExpireStep(j))
    /\ \A a \in Addresses : WF_vars(ReleaseStep(a))

FairSpec == Spec /\ Fairness

-----------------------------------------------------------------------------
(* Properties                                                              *)

\* The type of every variable of the processor.
TypeOK ==
    /\ row \in [Invoices -> Rows]
    /\ address \in [Invoices -> Addresses \cup {None}]
    /\ occupancy \in [Addresses -> {"none", "free", "occupied"}]
    /\ pendingInvoices \in [Addresses -> Invoices \cup {None}]
    /\ snapshot \in [Invoices -> Rows]
    /\ cancelled \subseteq Invoices
    /\ releases \in [Addresses -> Nat]
    /\ pc \in [Jobs -> InvoicePcs \cup WorkerPcs]
    /\ inv \in [Jobs -> Invoices \cup {None}]
    /\ \A i \in Invoices : pc[i] \in InvoicePcs /\ inv[i] = i
    /\ \A w \in Workers : /\ pc[w] \in WorkerPcs
                          /\ pc[w] # "idle" => inv[w] \in Invoices
    /\ txId \in [Workers -> Txs \cup {None}]
    /\ write \in [Jobs -> Rows]
    /\ aborted \subseteq Workers
    /\ chain \in [Txs -> {"seen", "buried", "rejected"}]

\* A request has an address before it goes on, and a worker was started for an
\* invoice that was watched by then,
\* as was an invoice whose timer has been cancelled.
Assigned ==
    /\ \A i \in Invoices : pc[i] # "absent" => address[i] \in Addresses
    /\ \A w \in Workers : pc[w] # "idle" =>
          pc[inv[w]] \notin {"absent", "reserved", "created"}
    /\ \A i \in cancelled : pc[i] \notin {"absent", "reserved", "created"}

\* A job that has the say over address a: the handler between its commit and
\* handleInvoice, or a goroutine between LoadAndDelete and its UPDATE.
Holds(j, a) ==
    /\ inv[j] \in Invoices /\ address[inv[j]] = a
    /\ pc[j] \in {"created", "confirm", "expiring"}

NoJobHolds(a) == \A j \in Jobs : ~Holds(j, a)

\* The transaction of a request that has found an address and not committed
\* keeps it from every other request.
ReservedAlone ==
    \A i \in Invoices : pc[i] = "reserved" =>
        /\ occupancy[address[i]] # "occupied"
        /\ \A k \in Invoices \ {i} : pc[k] = "reserved" => address[k] # address[i]

\* An address is free, or in one pair of hands: the handler that is about to
\* watch it, the entry of pendingInvoices, the goroutine that took the entry
\* away, or the release under way.  This is what the locking of createInvoice
\* and the LoadAndDelete of confirmCONFIRMED and expireInvoice are for; it says
\* that no free address is watched, that none is released twice, and that
\* handleInvoice never meets an entry of another invoice.
OneClaim ==
    \A a \in Addresses :
        /\ occupancy[a] # "occupied" =>
              pendingInvoices[a] = None /\ releases[a] = 0 /\ NoJobHolds(a)
        /\ pendingInvoices[a] # None => releases[a] = 0 /\ NoJobHolds(a)
        /\ releases[a] > 0 => releases[a] = 1 /\ NoJobHolds(a)
        /\ \A j, k \in Jobs : Holds(j, a) /\ Holds(k, a) => j = k

\* Every entry of pendingInvoices belongs to an invoice paid to that address
\* whose timer still runs, so that something will remove it, although any
\* goroutine of an earlier invoice of the address may remove it too.
WatchedHasTimer ==
    \A a \in Addresses : \A i \in Invoices :
        pendingInvoices[a] = i =>
            /\ address[i] = a
            /\ pc[i] \in {"armed", "expire"}
            /\ i \notin cancelled

\* Nothing is written for an invoice before it is handed to handleInvoice, and
\* only goroutines between an UPDATE and the end of their transaction write.
Quiet ==
    /\ \A i \in Invoices :
          pc[i] \in {"absent", "reserved", "created"} =>
              row[i].status \notin Resolved /\ snapshot[i].tx = None
    /\ \A i \in Invoices : Writing(i) => pc[i] = "expired"
    /\ \A w \in Workers : Writing(w) => pc[w] # "idle"

\* A goroutine that has taken an entry away for an invoice, or updated its row,
\* is one of an invoice that is no longer watched.
Unwatched ==
    \A j \in Jobs :
        \/ pc[j] \in {"confirm", "expiring", "expired"}
        \/ write[j].status \in Resolved
        => ~Watched(inv[j])

\* No invoice that the database has as EXPIRED or CONFIRMED is watched: what
\* goroutines started earlier still do to the row never puts it back in the map.
ResolvedNotWatched ==
    \A i \in Invoices : row[i].status \in Resolved => ~Watched(i)

Paid(i) == \E t \in Txs : address[i] \in Pays[t] /\ chain[t] = "buried"

\* A CONFIRMED invoice was paid: some transaction that covers its amount has
\* the confirmations.  confirmCONFIRMED looks up the snapshot's transaction and
\* updates the row two lookups later.
ConfirmedWasPaid ==
    \A i \in Invoices : row[i].status = "CONFIRMED" => Paid(i)

\* What a goroutine has read of a transaction stays true while it acts on it.
PaidInFlight ==
    /\ \A i \in Invoices :
          snapshot[i].tx # None => address[i] \in Pays[snapshot[i].tx]
    /\ \A w \in Workers :
          /\ pc[w] \in {"verify", "mempool", "fetch"} => txId[w] \in Txs
          /\ pc[w] \in {"mempool", "fetch"} => address[inv[w]] \in Pays[txId[w]]
          /\ pc[w] \in {"remove", "confirm"} => Paid(inv[w])
    /\ \A j \in Jobs : write[j].status = "CONFIRMED" => Paid(inv[j])

\* The row of a CONFIRMED invoice names a transaction, although snapshots are
\* published before the transaction commits.
ConfirmedNamesTx ==
    \A i \in Invoices : row[i].status = "CONFIRMED" => row[i].tx # None

\* No transaction is credited to two invoices.
TxCreditedOnce ==
    \A i, k \in Invoices : row[i].tx # None /\ row[i].tx = row[k].tx => i = k

ConfirmedCreditsOneTx == ConfirmedNamesTx /\ TxCreditedOnce

\* The row of i has t, or a version of it that is not committed yet.
Names(i, t) ==
    row[i].tx = t \/ \E j \in Jobs : inv[j] = i /\ Writing(j) /\ write[j].tx = t

TxNamedOnce ==
    \A t \in Txs : \A i, k \in Invoices : Names(i, t) /\ Names(k, t) => i = k

\* One goroutine at a time writes a row, and only after its UPDATE; no version drops
\* the transaction of the one committed before it.
RowLock ==
    /\ \A j, k \in Jobs : Writing(j) /\ Writing(k) /\ inv[j] = inv[k] => j = k
    /\ \A w \in Workers : pc[w] \in {"verify", "mempool"} => ~Writing(w)
    /\ \A j \in Jobs : Writing(j) /\ row[inv[j]].tx # None => write[j].tx # None
    /\ \A j \in Jobs : pc[j] = "expired" => Writing(j) /\ write[j].tx = row[inv[j]].tx

\* The life of an address, as AddressLease promises it.
Phase(a) ==
    IF occupancy[a] # "occupied" THEN "free"
    ELSE IF pendingInvoices[a] # None THEN "watched"
    ELSE IF releases[a] > 0 THEN "releasing"
    ELSE IF \E i \in Invoices : Holds(i, a) /\ pc[i] = "created" THEN "handed"
    ELSE IF ~NoJobHolds(a) THEN "taken"
    ELSE "lost"

\* A snapshot may name a transaction before the row does; then a goroutine still has
\* to commit it, or has failed to and taken the address with it for good.
SnapshotBacked ==
    \A i \in Invoices : snapshot[i].tx # None =>
        \/ row[i].tx # None
        \/ \E w \in Workers : inv[w] = i /\ Writing(w) /\ write[w].tx # None
        \/ Phase(address[i]) = "lost"

\* A goroutine confirms only what has a transaction.
NamesInFlight ==
    /\ \A w \in Workers :
          pc[w] \in {"fetch", "remove", "confirm"} => snapshot[inv[w]].tx # None
    /\ \A j \in Jobs : write[j].status = "CONFIRMED" => write[j].tx # None

\* A goroutine that has taken the entry of i away, or written its verdict.
Resolves(j, i) ==
    /\ inv[j] = i
    /\ pc[j] \in {"confirm", "expiring", "expired"} \/ write[j].status \in Resolved

\* No other invoice that has been created has the address of i.
HasOwnAddress(i) ==
    \A k \in Invoices \ {i} :
        address[k] = address[i] => pc[k] \in {"absent", "reserved"}

\* What LoadAndDelete is for: while an invoice has its address to itself one
\* goroutine resolves it, and none does once it is resolved.
OneResolver ==
    \A i \in Invoices : HasOwnAddress(i) =>
        /\ \A j, k \in Jobs : Resolves(j, i) /\ Resolves(k, i) => j = k
        /\ row[i].status \in Resolved => \A j \in Jobs : ~Resolves(j, i)

\* A committed EXPIRED becomes CONFIRMED, or CONFIRMED EXPIRED, only when the
\* address has been taken by another invoice since: without reuse LoadAndDelete
\* lets one goroutine resolve an invoice.
NoFlipWithoutReuse ==
    [][\A i \in Invoices :
          row[i].status \in Resolved /\ row'[i].status \in Resolved \ {row[i].status} =>
              \E k \in Invoices \ {i} : address[k] = address[i]]_vars

\* While the process lives an invoice is given one verdict at most, unless its address
\* has been taken by another: a late ConfirmPendingMempool may put it back to
\* PENDING_MEMPOOL, but nobody is left to confirm or expire it then.
OneVerdict ==
    \A i \in Invoices : \A s \in Resolved :
        [](row[i].status = s =>
              [](row[i].status \in Resolved \ {s} => ~HasOwnAddress(i)))

Lease == INSTANCE AddressLease WITH phase <- [a \in Addresses |-> Phase(a)]

\* The processor implements AddressLease: between two uses of an address lie
\* the LoadAndDelete of its entry, the UPDATE of an invoice and one release.
ImplementsLease == Lease!Spec

\* The timer sees to it that no address is watched for ever.
WatchEnds == \A i \in Invoices : Watched(i) ~> ~Watched(i)

\* Every invoice the database has is expired or confirmed in the end.
InvoiceResolves ==
    \A i \in Invoices : row[i].status = "PENDING" ~> row[i].status \in Resolved
=============================================================================
