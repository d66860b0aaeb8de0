# goipay in TLA+

Models, model-checking runs and machine-checked proofs for goipay, a service that
takes cryptocurrency payments: a client registers its public keys and creates
invoices over gRPC; the service gives each invoice an address derived from the keys,
watches the coin's blockchain through a daemon, and moves the invoice from PENDING
to PENDING_MEMPOOL, CONFIRMED or EXPIRED.

Paths are relative to `src/`; "base.go" without a directory is
`internal/processor/base.go`.

## 1. Inventory

| component | state | operations |
|---|---|---|
| invoice processor, one per coin (base.go) | `pendingInvoices`, a sync.Map from address to invoice with its timer's cancel function; a snapshot of the row behind an atomic pointer | createInvoice, handleInvoice, verifyTxOnMempool, verifyTxOnNewBlock, confirmPENDING_MEMPOOL, confirmCONFIRMED, expireInvoice, handleInvoiceHelper (the timer), releaseAddressHelper, persistCryptoCache, broadcastUpdatedInvoice |
| payment processor (`internal/processor/main.go`) | the map of processors, `invoiceCn`, `newInvoicesCns` | load, loadPersistedPendingInvoices, HandleNewInvoice, NewInvoicesChan |
| listener, one per coin (`internal/listener/base.go`) | the next block to fetch, the last tick's pool, the channels of its subscribers | sync, syncBlock, syncTransactionPool, broadcastNewBlock, broadcastNewTx, NewBlockChan, NewTxPoolChan, LastSyncedBlockHeight |
| coin adapters (`internal/processor/{xmr,btc,ltc,eth,bnb,eth_base}.go`, `internal/listener/{xmr,btc,ltc,eth,bnb}.go`) | none | verifyTxHandler, generateNextAddressHandler, the calls of the daemon |
| gRPC handlers (`internal/handler/v1`) | none of their own | RegisterUser, UpdateCryptoKeys, CreateInvoice, InvoiceStatusStream |
| PostgreSQL schema and queries (`sql`, `internal/db`) | invoices, crypto_addresses, crypto_data and one keys table per coin, crypto_cache, users | the statements of `sql/queries` |
| conversions (`internal/util`, `internal/dto`) | none | enums, requests and invoices, integer widths |
| shell (`cmd`, `internal/app`) | the pool of database connections, the gRPC and health servers, the contexts | Start, the health check, GracefulStop, Close |

How they interact. A request handler of CreateInvoice calls createInvoice, which
takes an address and inserts the row in one transaction, and handleInvoice, which
puts an entry in `pendingInvoices` and starts the timer goroutine. The listener's
loops hand every block and every new pool transaction to the processor through
unbuffered channels, each in a goroutine of its own; the processor starts a
goroutine per transaction, and that one a goroutine per entry of `pendingInvoices`.
Those goroutines, the timers and the releases they start meet in the map, in the
snapshots and in the rows of the database; each runs transactions of its own, from
a pool of connections shared with the handlers. What they update is broadcast to
the subscribers of InvoiceStatusStream through two more unbuffered channels.

What is hard about it: goroutines act on an entry they read some time ago, on an
address that may have been given to another invoice since; memory is changed before
the transaction it reports commits, and the error of Commit is ignored; an address
is released in another transaction than the one that resolves its invoice; the
process may stop between any two of these steps and reloads only open invoices;
blocks and transactions arrive late, twice, out of order or not at all; requests hold
one connection while they wait for another; numbers are narrowed, multiplied and
subtracted in types that wrap around.
`PROJECT.json` lists each such hazard at its line with the properties about it.

What makes each part correct:

- processor: an address is in one pair of hands; an entry of the map is always taken
  away by something, and never by two goroutines for one invoice; what is CONFIRMED was
  paid, with one transaction to one invoice; what is resolved is not watched; every
  invoice is resolved and its address comes back;
- recovery: the same over restarts, and an invoice given to a client is watched;
- listener: no block is passed over, but those that a restart jumps over while no height
  has been stored yet; no stored height is ahead of what has been announced; no pool
  transaction is missed, or announced twice in one stay;
- broadcast: no subscriber is told twice, none misses an update while it is registered;
- terms: a client is told of the invoice it asked for, on the chain of its coin; what is
  credited was paid, what was paid is seen, and confirmed means confirmed often enough;
- service: connections come back, requests end, what is answered is stored, the health
  check follows the database, and the service stops when it is told to.

## 2. Plan

Written in this order, the money first:

1. `InvoiceProcessor`, one lifetime of one coin's processor, with `AddressLease`, the
   promise about addresses it is shown to implement. Proofs: `InvoiceProcessorProofs`.
2. `InvoiceRecovery`, which composes it with crashes, the reload of main.go and
   UpdateCryptoKeys. Proofs: `InvoiceRecoveryProofs`.
3. `BlockListener` and `PoolListener`, how the processor learns of transactions.
   Proofs: `BlockListenerProofs`, `PoolListenerProofs`.
4. `InvoiceStream`, how the clients learn of updates. Proofs: `InvoiceStreamProofs`.
5. `CryptoKeys`, where addresses come from: registration, key updates and derivation
   with a step per statement. Proofs: `CryptoKeysProofs`.

6. `Application`, the service around them: the shared pool of connections, the health
   check, start and stop. Proofs: `ApplicationProofs`.
7. `Conversions` and `InvoiceTerms`: coins, amounts, confirmations and timeouts with
   their types, and the chain as the daemons answer for it. Proofs: `InvoiceTermsProofs`.

Still to do:

8. An abstract specification of an invoice's life (open, resolved, reopened by a late
   update or a restart) that `InvoiceRecovery` implements when addresses are not reused,
   with its refinement proof on top of RecoveryFlipsOnReuse and VerdictIsGivenOnce.

## 3. Modules

| module | extends or instances | models |
|---|---|---|
| `InvoiceProcessor` | `AddressLease` (INSTANCE) | base.go without its loops |
| `AddressLease` | | the abstract life of an address |
| `InvoiceRecovery` | `InvoiceProcessor` | crash, main.go:36-67, user.go:225-283 |
| `BlockListener` | | `listener/base.go` syncBlock, base.go load and persistCryptoCache |
| `PoolListener` | | `listener/base.go` syncTransactionPool |
| `InvoiceStream` | | base.go:368-382, main.go:69-95 and 121-125, `handler/v1/invoice.go` InvoiceStatusStream |
| `Application` | | app.go, `handler/v1/invoice.go` CreateInvoice, `util/util.go`, who holds which connection in base.go |
| `Conversions` | | `util/mapping.go`, verify...TxHandler and the token table, integer conversions |
| `InvoiceTerms` | `Conversions` | main.go:110-165, the numbers in base.go, GetTransactions of the adapters |
| `CryptoKeys` | | `handler/v1/user.go`, generateNextAddressHandler of each coin, `db/crypto_data.sql.go` |
| `MCInvoiceProcessor`, `MCInvoiceRecovery`, `MCCryptoKeys`, `MCInvoiceTerms` | their module | values of structured constants for TLC |
| `...Proofs` | their module, TLAPS | theorems |

`PROJECT.json` maps each definition to the lines it models. Definitions whose
comment begins with "Slip" are not the code: each is a plausible mistake next to the
definition it would replace, named in `PROJECT.json` under "mutants" with the property
that tells the two apart.

### InvoiceProcessor

State: `row`, `address` and `occupancy` are the tables invoices and crypto_addresses
as committed; `pendingInvoices`, `snapshot`, `cancelled` and `releases` the memory
shared by goroutines (the sync.Map, what each entry's atomic pointer points to, the
timer contexts that were cancelled, the `go releaseAddressHelper` under way); `pc`,
`inv`, `txId`, `write` and `aborted` what a goroutine knows and its open
transaction; `chain` what GetTransactions says of a transaction.

A goroutine is a *job*: each invoice has one (the request that creates it, then its
timer), and `Workers` are slots for the goroutines that Range starts for a pool
transaction or a block. Code between two accesses to what is shared is one step;
the steps of confirmCONFIRMED, for example, are LoadTxId (the pointer), Fetch...
(the daemon), RemoveConfirmed (LoadAndDelete and cancel), ConfirmInvoice (UPDATE
and `go releaseAddressHelper`) and the caller's CommitWorker.

PostgreSQL at READ COMMITTED is: an UPDATE waits while another transaction has an
uncommitted version of the row (`LockedByOther`, `Locked`); the UNIQUE index on tx_id
refuses a committed duplicate (`TxTaken`) and waits for an uncommitted one
(`TxContended`); after a refused statement the transaction does nothing and its
commit is a rollback (`aborted`). A SELECT ... FOR UPDATE SKIP LOCKED skips what
another request has `Reserved`. Faults lists which of begin, statement, commit,
and release may fail; every failure does what the code's error path does, which is
often to carry on. handleInvoice looks the address up and stores the entry in one step
(base.go:418 and 426): two requests that share an address are not interleaved between the
two.

`Tokens` are the invoices in a token of the chain: addresses are stored under the
chain's own coin (eth.go:38) and looked up under the invoice's (base.go:303), so a
token invoice never finds a released address and always derives one.

Abstracted: amounts and confirmation counts (Pays, and "buried" in `chain`; they are in
`InvoiceTerms`); time (a
timer may fire whenever it is armed); goroutines whose begin or verification fails,
which have changed nothing.

### InvoiceRecovery

`Crash` stops every job, drops what is uncommitted and loads the rows that
FindAllPendingInvoices selects through handleInvoice, which keeps one row per
address, in whatever order they come. ShiftExpiresAtForNonConfirmedInvoices gives
them five minutes, so no timer fires during the reload. `UpdateCryptoKeys` deletes the
addresses and resets the index: an address may be derived again if the keys are
ones used before.

### BlockListener and PoolListener

A block is its height, a transaction its identity. `BlockListener` has the sync loop
(StartSync, BroadcastNewBlock, Advance, BlockFails, Synced), the goroutines between it
and verifyTxOnMempool, the goroutines of persistCryptoCache and the daemon's tip, which
goes up and down. `PoolListener` has a tick (ListPool, BroadcastNewTx or TxFails for each
new transaction, EndTick). `first` (the height of the very first start), `announced`, `lost`,
`skipped`, `entered`, `sent` and `missed` are history the code does not keep; the properties
are about them. A restart that finds no height in crypto_cache begins at the tip
(base.go:213-216): what it jumps over is in `skipped`, whether it had been announced or not.

### InvoiceStream

An update is its number in the order of broadcastUpdatedInvoice. Its goroutine offers
it to the loop, the loop ranges over the channels, a goroutine per channel sends, and
the handler receives, sends to the client, or has ended. A handler that ends leaves its
channel in `newInvoicesCns` until a send times out (`SendTimesOut`). The goroutine of
broadcastUpdatedInvoice gives up after the same time (base.go:377), which is not modelled:
the loop it offers to only starts goroutines and comes back at once, so that the timeout
runs out only where the process has no time to run. `Delivered` rests on that.

### Application

State: `server` is where App.Start is, `ctxDone` the cancelled context, `open` the calls of
InvoiceStatusStream that have not returned, `step` where
each user of the pool is, `conns` the connections in use, `stored` the invoices that
were committed, `database` whether PostgreSQL answers, `status` what the health server
says. A user is a call of CreateInvoice, which takes a connection, checks the user,
waits in createInvoice for a second one and commits that first; a goroutine of a processor,
which does the same when it expires an invoice from inside a transaction and otherwise
takes one; or the health check.

A goroutine that expires the invoice it has just updated itself waits for the lock its
own first transaction holds (base.go:88, 111, 134, 396; run *rejected*): that is the step
"own", which only the cancelled context or a lost connection ends (OwnLockEnds). Other
goroutines may come to wait for the row, or the tx_id, of one that has not committed
(MeetRow, RowFree), and keep their own connection meanwhile. Both BeginSecond outcomes are
there, as whether the row is the goroutine's own is a question of `InvoiceProcessor`.

A call waits for its first connection on its own context
(`ClientLeaves`), and for the second on that of the processors (`Cancelled`). Every
failure the code handles is there: Begin, a query, a commit that is lost because the
database is down or the context cancelled, Ping, Listen and Serve.

Abstracted: the statements between taking and giving back a connection, which are those
of `InvoiceProcessor` and `CryptoKeys`; a call of UserService, which holds one connection
as a refused CreateInvoice does.

### Conversions and InvoiceTerms

A coin is its name, an amount a number of the smallest units. `Conversions` has the two
enums and the mappings between them, the table of tokens, what each verifyTxHandler
credits for a transaction and the conversions of integers, whose widths are constants.
`InvoiceTerms` follows one invoice: `request` and `answer`, the `row`, the transaction
(`payment`) and where the chain has it (`place`, `tip`), and confirmCONFIRMED (`pc`,
`readTip`, `confirmations`). GetTransactions is one step for XMR, BTC and LTC and two for
ETH and BNB, which read the height first (listener/eth.go:76) and subtract without looking
(listener/eth.go:95). What a transaction the daemon does not know, or one without a
receipt, means differs by coin: monerod returns nothing, which expires the invoice; the
others return an error, which waits for the next block.

A listener comes to each place of the transaction (the pool, a block) once: `ahead` says
that it has yet to, `handed` has the places whose goroutine is in verifyTxOnMempool, and a
failure there or in the fetch before it loses the delivery (LoseDelivery, into `missed`)
with nothing to repeat it. A reorganisation may put the transaction at a height
the listener has been at. `caller` is who called confirmCONFIRMED: the goroutine that
has credited the invoice (base.go:88) or one for a block. A rejection answered to the first
is the self-deadlock of section 6: `pc` is "stuck", the row PENDING for everyone else,
and the timer gone. UpdateCryptoKeys matters only for XMR, whose outputs are read with the
keys the user has. `depth`, `moved` and `missed` are history.

Abstracted: the other goroutines and the database, which are `InvoiceProcessor`'s; the
rounding of float64 (tokens, BTC and LTC are summed as floats, eth_base.go:106-114 and
btc.go:24-29, and every coin is compared as one; here they are whole numbers, and two
transfers that add up to the amount are always enough); UUIDs and timestamps.

### CryptoKeys

State: `registered`, `cryptoData` (which keys row each coin of a user has), `keysTable`
and `addresses` are what is committed; for each handler `pc`, `user`, `keys`, `todo` and
`read` are its request and the row of crypto_data as read at the start, and `found`,
`removed`, `write`, `linked` and `derived` what its transaction has written. `survivors`
is history: the addresses a committed UpdateCryptoKeys left behind. The id of a keys
row is its maker, which stands for a fresh UUID.

`WaitsFor` says whose transaction a statement needs the end of: a row lock, an
uncommitted UNIQUE key or address. A statement runs when it is `Granted`; it fails if it
then `Violates` a constraint; of those that wait for each other (`Deadlocked`) one is
ended. The DELETE of addresses is two steps (FindAddresses, DeleteAddresses), because
its snapshot never sees rows committed while it waits; an UPDATE by id is one, because it
rereads the row it waited for.

Abstracted: XMR's two keys are one; a failed parse, derivation, statement, connection or
Commit is one action (Fail), as a failed Commit differs only in the answer; reuse of
free addresses is in `InvoiceProcessor`.

## 4. Runs

| run | instance | shows |
|---|---|---|
| reuse | 2 invoices (one a token), 2 addresses, 1 transaction that may be rejected, 2 workers, failing statements | TypeOK, OneClaim, ConfirmedCreditsOneTx, NoFlipWithoutReuse, ImplementsLease |
| restart | 2 invoices, 1 address, 2 transactions of which one pays, every failure, 2 crashes, 1 key update | WatchedHasTimer, ResolvedNotWatched, ConfirmedWasPaid, NoFlipWithoutReuse |
| resume | 1 invoice, 2 transactions, 2 workers, 2 crashes, 1 key update | InvoiceResolves, WatchEnds, AddressReleased |
| sync | heights 0..2, 2 crashes, 2 persisting goroutines, every failure | TypeOK, NoGap, CacheReached, BlocksExamined |
| pool | 2 transactions that enter twice, every failure | TypeOK, OncePerStay, NewTxSent |
| stream | 2 clients, 2 updates, a shutdown | AtMostOnce, Delivered |
| service | 1 call, 2 workers, the health check, 1 stream, 2 connections, 1 outage | AppTypeOK, NoLeak, AnsweredIsStored, RequestsEnd, ShutdownEnds, HealthTold |
| terms | every coin, 4 of 5 processors, 6 payments, heights 1..3, 1 reorganisation, 1 failed call or lost delivery | TypeOK, ToldAsAsked, OnItsChain, CreditedIsPaid, ConfirmedIsBuried, EnoughIsSeen, DeepIsConfirmed |
| keys | 2 users, 2 coins that encode addresses alike, 2 keys, 2 handlers, 4 updates or derivations, a minor index that wraps at 1 | TypeOK, KeyIsOwn, DerivedIsNew, AcceptedKeysAreUsed, RequestsEnd |
| rejected, stale_entry, handed | the smallest instances | section 6 |

The bounds: the invariants of the processor speak of an invoice, an address and one
or two goroutines, and every interleaving hazard of section 1 is a race of two goroutines
over one entry; two workers besides two timers give each race and one bystander. `restart`, which
has every failure, has one worker: the races there are its with the timers, the requests, the
releases and the crashes. Two
invoices make an address change hands; a third would only repeat the second. Two
crashes let a reloaded invoice be interrupted again. Heights 0..2 let the tip go down
below the next block and up again. Two stays in the pool let a transaction be seen,
forgotten and seen again. Four requests in `keys` let a key be set, used, replaced and
set by the other user, or be set twice with a derivation between the DELETE and the
reset; three derivations wrap the minor index. In `service` two holders of a first connection
fill the pool of two, which is the standoff; one worker that waits for itself fills it
alone; a second worker may wait for the first one's row; one holder and the health check
fill it without any; more holders on more connections repeat these, and the safety theorems
are for any number. In `terms` int16 is 3 bits and int64 5, so that confirmations of 0, 1, 2, 6 and 8
and timeouts of 0, 1 and 20 lie on both sides of what they hold, and a payment of 33 is
2^64 + 1; LTC is left unconfigured, which lets a supported coin be refused; heights 1..3
let a transaction be mined between the two calls, be buried, and be moved by a
reorganisation above, to or below where the listener is. CHECK_DEADLOCK is off where the system stops when all invoices
are resolved and every bound is spent; the listeners never stop, and theirs is on.

What does *not* hold, and is therefore not claimed: with a lost commit a CONFIRMED row
may have no tx_id (ConfirmedCreditsOneTx is checked without lost commits), and an address
may be shared (OneClaim likewise); an invoice whose address is reused may not be
resolved (section 6) nor its address released; when two transactions pay an invoice,
the one its row names need not be the one that has the confirmations.

Nor does a resolved row stay resolved. A goroutine that has read the snapshot PENDING
(base.go:78) updates the row by id later (base.go:111), and ConfirmInvoiceStatusMempoolById
(sql/queries/invoice.sql:25) does not look at the status: when the timer has expired the
invoice in between, the row goes from EXPIRED to PENDING_MEMPOOL, with nobody watching it
until a restart reloads it. InvoiceResolves therefore promises of a PENDING invoice that it
is resolved, not that it stays so; what is left of "resolved once" are NoFlipWithoutReuse
and, while the process lives, OneVerdict (section 7).

Updates of one invoice may reach a client in another order than they were made: each
travels in goroutines of its own (base.go:369, main.go:75). The end-to-end test
(test/e2e/golang/test/main_test.go:208-232) waits for PENDING_MEMPOOL and then for
CONFIRMED, which the time between blocks makes likely and nothing makes sure.

The pool may stand still for ever (`Standoff`): all connections are held by calls and
workers that wait for a second one, by workers that wait for their own row, or by workers
that wait for the row of such a one. With the default pool a single worker that waits for
itself keeps two connections until the context is cancelled. RequestsEnd and HealthTold
except a standoff. ShutdownEnds promises more after an interrupt, which ends both by the
cancelled context, and less after a failure of Serve (app.go:200), which cancels nothing: there a
standoff or one worker that waits for itself keeps the pool from closing.

A restart before the first height is stored jumps over blocks (NoGap, BlocksExamined:
`skipped`), and a block whose transactions could not be fetched is not fetched again
(`lost`). In `InvoiceTerms` the same makes a payment unseen: EnoughIsSeen excepts a place
whose delivery was lost, and says nothing of a reorganisation that puts the transaction
where the listener has been. DeepIsConfirmed excepts the invoice whose goroutine waits for
itself.

 README.md:18 lists BTCB among the
tokens of BNB; the table of eth_base.go has no BTCB_BEP20 and every such invoice is refused:
OnItsChain excepts it. A token invoice is credited the native value of a transaction
without events, which CreditedIsPaid excepts, and a native payment with events is not
seen, which EnoughIsSeen excepts (`Readable`). Confirmations that int16 does not hold
and timeouts that wrap around are not what was asked for (ToldAsAsked, ConfirmedIsBuried).
An Ethereum transaction that comes into a block between the two calls has 2^64 - 1
confirmations and is CONFIRMED at once (`moved` in ConfirmedIsBuried).

Nor does an answered UpdateCryptoKeys always take effect: when two first updates of a
user were under way with it, it may have updated a keys row that crypto_data no longer
names (AcceptedKeysAreUsed excepts it; it takes three handlers, one more than the run
has). Two such first updates also leave a keys row that belongs to nobody, whose key
cannot be registered again. A derivation may be refused, and again at every retry, after
an update raced with one, or when ETH and BNB share a key (DerivedIsNew excepts both).

## 5. Fairness

Weak fairness per goroutine: the Go scheduler runs what can run, PostgreSQL grants a
lock that is free and answers, timers fire. Requests, deliveries, payments, rejections,
crashes, key updates and failures are never promised: an invoice has to be resolved by
its timer alone. In `BlockListener` BroadcastNewBlock is strongly fair: a daemon
asked for the same block at every tick answers in the end; GetTransactions need not, and
the listener's properties say so. In `InvoiceStream` nothing is promised of clients: one
that stops reading is dropped by SendTimesOut, a timer. In `CryptoKeys` the steps of a
handler are strongly fair: PostgreSQL wakes those who wait for a transaction in the order
in which they came, so none is passed over for ever. In `Application` the steps of a user
of the pool are strongly fair for the same reason: pgxpool serves its waiters in turn. A
client never promises to leave or to cancel, the database never promises to come back, no
failure is promised. The health check, the start and the stop are weakly fair; Ping
waits like the rest, but is behind at most the calls and workers there are. In `InvoiceTerms` blocks
keep coming, the listener comes to a place it is still to come to, and the goroutines
they start run; no lost delivery is repeated, and the payer, the chain's order and the
timer promise nothing.

## 6. Where the code and its tests disagree

- *rejected*: base.go:134 expires an invoice from inside a transaction that has
  locked its row, when the daemon says at once that the transaction was double spent.
  expireInvoice waits for its own caller, the entry is gone, the invoice stays PENDING.
  What it does to the pool of connections is the step "own" of `Application`, what it does
  to the invoice "stuck" in `InvoiceTerms`.
- *stale_entry*: LoadAndDelete is by address. A goroutine of an invoice resolved
  earlier takes the entry of the one that reuses the address, which is then neither
  confirmed nor expired. The same mechanism may lose the address.
- *handed*: the release of an address may commit before the row is resolved; if the
  process stops in between, the address is free while its invoice is reloaded, and the
  next invoice on it is returned to its client without being watched. UpdateCryptoKeys
  with keys used before, while an invoice is open, leads to the same without a crash:
  with MaxCrashes = 0 and MaxKeyUpdates = 1 the run ends in that behaviour.

## 7. Proofs

Assumptions are those of the modules (`ProcessorAssumption`, `RecoveryAssumption`,
`ListenerAssumption`, `PoolAssumption`, `StreamAssumption`, `KeysAssumption`,
`ApplicationAssumption`, `WidthAssumption`, `TermsAssumption`): the constants are sets of the
expected kind, `None` is none of the values it stands beside, bounds are naturals.
The number of invoices, addresses, transactions, workers, crashes, clients, connections,
heights and bits is arbitrary.

- **`InvoiceProcessorProofs`**. TypeOK is inductive with Assigned (a job past its first
  step has an address, a worker's invoice was handed to handleInvoice). WatchedHasTimer
  needs no more, since an entry is written only by handleInvoice for an invoice whose
  timer starts with it. OneClaim is inductive with ReservedAlone, under the
  assumption that commits of createInvoice are not lost. ResolvedNotWatched needs Quiet
  (nothing is written for an invoice before handleInvoice) and Unwatched (a goroutine that
  has taken the entry, or holds a resolved version of the row, works on an invoice no
  longer in the map): LoadAndDelete establishes it, and handleInvoice cannot break it
  because it runs once per invoice. ConfirmedWasPaid needs PaidInFlight: what a goroutine
  has read of a transaction stays true, as `chain` only leaves "seen".
  ProcessorLeasesAddresses proves the refinement step by step from the same invariant:
  every step of Next moves the phase of one address along AddressLease or leaves all.

  Three more invariants say who may write what. RowLock: one goroutine at a time has an
  uncommitted version of a row, and the version keeps the transaction the committed row
  names. TxNamedOnce: no transaction is named by two rows, *uncommitted versions counted*
  (Names); without them the property is not inductive, as a commit may publish the
  duplicate. ConfirmPendingMempool keeps it because its guard looks at both (TxTaken,
  TxContended), and TxsAreCreditedOnce follows whatever fails. OneResolver: of an invoice
  whose address no other has, at most one goroutine is past LoadAndDelete, and none when the
  row is resolved; OnlyReuseFlips is that invariant and a case for each commit.
  VerdictIsGivenOnce goes further than an action: an invoice that has been EXPIRED is never
  CONFIRMED in the same life of the process, nor the other way round, also if the row has
  been put back to PENDING_MEMPOOL meanwhile, unless the address has been reused. With a
  verdict the invoice becomes Closed (not watched, no goroutine past LoadAndDelete), which
  ClosedStep shows to be for ever; TLC has looked at OneVerdict on two invoices only as a
  help for the proof, and no run checks it.
  ConfirmedCreditTheirTx also needs to know that the snapshot confirmCONFIRMED reads is true
  although it is published before the commit: SnapshotBacked (if it names a transaction,
  so does the row or a version a goroutine is to commit; or the update failed and the
  address is lost, so that nobody loads the snapshot again) and NamesInFlight (a goroutine on
  its way to confirm has loaded a snapshot that names one, and a CONFIRMED version names
  one). A lost commit breaks both and, in fact, the property; so the theorem assumes that
  "commit" and "createCommit" are not in Faults, as run *reuse* does. It is stated for one
  lifetime of the process.
- **`InvoiceRecoveryProofs`** reuses those steps for Run and adds a lemma for Crash and
  one for UpdateCryptoKeys. A reload fills the snapshots from the rows, so the invariant
  gains RowsPaid: the transaction a row, or an uncommitted version of it, names pays the
  invoice's address. OneClaim is not part of it: over crashes and key updates it is false
  (run handed), and the five theorems do without. Serial joins RowLock, TxNamedOnce and
  OneResolver: a crash drops every uncommitted version, and the reload watches only rows that
  are not resolved, so that no transaction is credited twice
  (RecoveredTxsAreCreditedOnce) and a verdict changes only on reuse (RecoveryFlipsOnReuse)
  over any number of crashes and updates of the keys.
- **`BlockListenerProofs`**: NoGap and CacheReached are inductive with Within: the block
  being advanced over was announced and is below the target. OnlyUncachedRestartsSkip is
  NoGap: a restart that finds a stored height goes back to one the listener has reached
  (CacheReached), so that only a restart that finds none leaves blocks out, and those are
  `skipped`; the start is never moved.
- **`PoolListenerProofs`**: OncePerStay is inductive with OwedEntered: a transaction that
  may still be broadcast (not looked at yet in this tick, or in the pool and not in the
  listing that counts) has entered the pool once more than it was sent.
- **`InvoiceStreamProofs`**: AtMostOnce is inductive with OnePlace (an update is offered,
  or with the loop and still to be given to the stream, or in one goroutine for it, or
  received) and NotCalled (nothing is on its way to a stream not called yet).
- **`ApplicationProofs`**: NoLeak is an
  equation between `conns` and `step` that every action keeps, with the bound from the
  guard of Begin; AnsweredIsStored is inductive because an outage and a cancelled
  context, once there, stay. That no connection is lost says nothing of how long it is
  kept; that is RequestsEnd and the exceptions to it.
- **`InvoiceTermsProofs`**: the invariant says what the row has of the request (Terms), why
  a request was refused (Refusal), where the transaction and its deliveries are (OnChain), and
  what has been read of the chain (Reading: the
  confirmations are at most the depth unless the transaction moved). ConfirmedIsBuried is
  the arithmetic of the widths on top of it: int16 and uint64 return what fits them, and the
  difference of heights does not wrap when the block is not above the tip. ToldAsAsked and
  OnItsChain need the table of coins case by case. TypeOK needs that the sum of a
  transaction's transfers is a natural number: the loop is a recursive function, whose
  existence and range are proved by the smallest index at which they would fail.
  CreditsArePaid compares what the loop credits with PaidInCoin, a sum over the set of the
  events that pay in the coin. TransferredIsSum proves the two equal for any sequence of
  events: leaving one place out takes its amount from the running total (OneLess), so the
  totals satisfy the recursion of MapThenSumSet whichever element it takes first, and a
  smallest set on which another solution differed would be none (SummedIsTotal). The
  invariant TokenCreditIsExact carries the equality from ConfirmPendingMempool to the end:
  nothing credits again, and what becomes of the transaction leaves its events alone.
- **`CryptoKeysProofs`**: KeyIsOwn follows from Exclusive (what one handler has written,
  row or key, no other has, committed or not), Owned (a keys row has one user for ever)
  and UniqueKeys. A statement that is Granted and does not violate a constraint
  establishes Exclusive for what it writes; the commit turns that into UniqueKeys. Progress
  says what a handler knows at each step; that its coins have a first one is the
  well-foundedness of the naturals. DerivedAddressesAreNew is the invariant Counted: the
  index of a keys row is not below that of any address committed for its key, except the
  addresses an update left behind (`survivors`); it compares a new address with those still
  in the table, of its own coin: an update of the keys deletes addresses, and with the same
  key they are derived, and returned, again; with Incremented (a handler that has
  derived holds the row, one step beyond what is committed) and Replaced and Updated (what
  an update that is under way has written). Without the row lock of the increment it is not
  inductive: two handlers would derive from one index. AcceptedKeysAreInUse reads the same
  invariant at the commit of UpdateCryptoKeys.

Only model-checked: the liveness properties (InvoiceResolves, WatchEnds, AddressReleased,
BlocksExamined, NewTxSent, Delivered, RequestsEnd of both modules, ShutdownEnds, HealthTold,
EnoughIsSeen, DeepIsConfirmed), which need fairness and ENABLED, out of reach of the provers
here; and, as a violation, ReturnedIsWatched. Every other property of a passing run is
stated by a theorem. ConfirmedCreditsOneTx is not claimed across crashes and updates of the
keys: what RecoverySpec promises of it is its second half, TxCreditedOnce.

## 8. Not modelled

The listener's Stop and restart within a process are not: nothing calls them. Left out for
good: key derivation, output decryption, the rounding of float64, TLS, configuration,
logging and the generated serialisation, which are library calls, data or I/O. That a
lost Commit of RegisterUser or UpdateCryptoKeys is answered as a success (user.go:280) is in
`CryptoKeys` as a request that did nothing; no document says what the answer promises. In
`InvoiceProcessor` coins are modelled one at a time: their processors share only the pool of
connections and the subscribers, which are in `Application`.
