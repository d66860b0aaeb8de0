------------------------------ MODULE InvoiceTerms ------------------------------
(***************************************************************************)
(* One invoice from the request to its end, with the numbers that          *)
(* InvoiceProcessor leaves out: the coin, the amount, the confirmations,   *)
(* the transaction that may pay it and the chain that carries it, as the   *)
(* daemon of the coin answers for it (internal/listener).                  *)
(*                                                                         *)
(* GetTransactions is one call of the daemon for XMR, BTC and LTC.  For    *)
(* ETH and BNB it is two, the height of the chain and then the receipt,    *)
(* and the chain goes on in between.                                       *)
(*                                                                         *)
(* The listeners come to a place of the transaction once: they hand it to  *)
(* a goroutine that credits the invoice, and what that goroutine or the    *)
(* fetch before it fails to do is lost.  The interleavings of the other    *)
(* goroutines, their faults and the reuse of addresses are those of        *)
(* InvoiceProcessor; here the steps of one goroutine at a time are taken   *)
(* together.                                                               *)
(***************************************************************************)
EXTENDS Conversions, FiniteSetsExt

CONSTANTS
    Configured,   \* the processors whose daemon has a URL
    Requests,     \* the requests CreateInvoice may receive
    Payments,     \* the transactions that may come
    MaxHeight,    \* bound on the height of the chain
    MaxReorgs,    \* bound on the number of reorganisations
    MaxFailures,  \* bound on the number of failed calls and lost deliveries
    None          \* no request, no transaction, no place on the chain

PbRequests ==
    [coin : PbCoins \cup {"unknown"}, amount : Int, confirmations : 0..(Mod32 - 1),
     timeout : Nat]

\* What the daemon answers for a transaction.
Events == [coin : DbCoins, paid : BOOLEAN, amount : Nat]
ChainTxs == [ok : BOOLEAN, value : Nat, logs : Seq(Events)]

ASSUME TermsAssumption ==
    /\ Configured \subseteq Processors
    /\ Requests \subseteq PbRequests
    /\ Payments \subseteq ChainTxs
    /\ MaxHeight \in Nat /\ MaxReorgs \in Nat /\ MaxFailures \in Nat
    /\ None \notin Int /\ None \notin Requests /\ None \notin ChainTxs

VARIABLES
    request,        \* of CreateInvoice
    answer,         \* to it
    row,            \* of the invoices table, with the processor that has it
    payment,        \* the transaction, once it has been sent
    place,          \* the block it is in, 0 for the pool, None if unknown
    tip,            \* the height of the chain
    keysChanged,    \* the user has other keys than at the time of the request
    ahead,          \* the listener has yet to come to the place it is in
    handed,         \* the places whose goroutine is in verifyTxOnMempool
    missed,         \* history: the places whose delivery a failure has lost
    due,            \* what calls for confirmCONFIRMED: a block, the delivery
    pc,             \* where confirmCONFIRMED is, "stuck" once it never returns
    caller,         \* the one of them that has called it
    readTip,        \* the height it has read
    confirmations,  \* what GetTransactions has returned
    depth,          \* history: how deep the transaction was then
    moved,          \* history: it came into a block while it was read
    reorgs, failures

chain    == <<payment, place, tip, reorgs>>
delivery == <<ahead, handed, missed>>
reader   == <<pc, caller, readTip, confirmations, depth, moved>>
vars     == <<request, answer, row, chain, keysChanged, delivery, due, reader, failures>>

NoRow == [processor |-> "", coin |-> "", requiredAmount |-> 0, actualAmount |-> 0,
          confirmationsRequired |-> 0, lifetime |-> 0, status |-> "absent", tx |-> FALSE]

Init ==
    /\ request = None /\ answer = "none" /\ row = NoRow
    /\ payment = None /\ place = None /\ tip = 1 /\ reorgs = 0
    /\ keysChanged = FALSE /\ due = {} /\ failures = 0
    /\ ahead = FALSE /\ handed = {} /\ missed = {}
    /\ pc = "idle" /\ caller = "block" /\ readTip = 0 /\ confirmations = 0 /\ depth = 0
    /\ moved = FALSE

Open     == row.status \in {"PENDING", "PENDING_MEMPOOL"}
TwoCalls == row.processor \in {"ETH", "BNB"}
Mined    == place \notin {None, 0}

\* How often the chain has confirmed the transaction, as the daemons count: ETH
\* and BNB leave its own block out.
Depth == IF ~Mined THEN 0 ELSE IF TwoCalls THEN tip - place ELSE tip - place + 1

-----------------------------------------------------------------------------
(* CreateInvoice, HandleNewInvoice and createInvoice                       *)

RefuseInvoice(q) ==
    /\ request = None
    /\ q.amount < 0 \/ \A p \in Configured :
          ~SupportsCoin(p, PbNewInvoiceToProcessorNewInvoice(q).coin)
    /\ request' = q
    /\ answer' = "refused"
    /\ UNCHANGED <<row, chain, keysChanged, delivery, due, reader, failures>>

CreateInvoice(q, p) ==
    LET req == PbNewInvoiceToProcessorNewInvoice(q)
    IN  /\ request = None
        /\ q.amount >= 0
        /\ SupportsCoin(p, req.coin)
        /\ request' = q
        /\ answer' = "accepted"
        /\ row' = [processor |-> p, coin |-> req.coin, requiredAmount |-> req.amount,
                   actualAmount |-> 0,
                   confirmationsRequired |-> Int16(req.confirmations),
                   lifetime |-> Lifetime(req.timeout), status |-> "PENDING", tx |-> FALSE]
        /\ UNCHANGED <<chain, keysChanged, delivery, due, reader, failures>>

\* Only a payment in XMR is read with the keys: for the others nothing here changes.
UpdateCryptoKeys ==
    /\ row.processor = "XMR"
    /\ keysChanged' = TRUE
    /\ UNCHANGED <<request, answer, row, chain, delivery, due, reader, failures>>

-----------------------------------------------------------------------------
(* The chain                                                               *)

\* Only ETH and BNB have events.  The listener of the pool is ahead of it, but for ETH
\* and BNB, whose GetTransactionPool is empty.
Send(t) ==
    /\ answer = "accepted"
    /\ payment = None
    /\ t.logs = <<>> \/ TwoCalls
    /\ payment' = t
    /\ place' = 0
    /\ ahead' = ~TwoCalls
    /\ UNCHANGED <<request, answer, row, tip, reorgs, keysChanged, handed, missed, due,
                   reader, failures>>

\* Slip: new blocks do not reach the pending invoices.
Unheard == UNCHANGED due

\* verifyTxOnNewBlock
Heard == due' = due \cup {"block"}

\* The listener of the blocks has not come to a new one.
Mine ==
    /\ place = 0
    /\ tip < MaxHeight
    /\ tip' = tip + 1
    /\ place' = tip + 1
    /\ moved' = (pc # "idle")
    /\ ahead' = TRUE
    /\ Heard
    /\ UNCHANGED <<request, answer, row, payment, reorgs, keysChanged, handed, missed, pc,
                   caller, readTip, confirmations, depth, failures>>

\* Beyond the bound blocks come without being counted.
NewBlock ==
    /\ answer = "accepted"
    /\ tip' = IF tip < MaxHeight THEN tip + 1 ELSE tip
    /\ Heard
    /\ UNCHANGED <<request, answer, row, payment, place, reorgs, keysChanged, delivery,
                   reader, failures>>

\* A longer branch has the transaction in another block, or not yet.  The listeners
\* may be past that place: they do not go back to a height they have been at, nor to
\* a transaction that the last tick saw in the pool.
Reorg ==
    /\ Mined
    /\ reorgs < MaxReorgs
    /\ tip < MaxHeight
    /\ tip' = tip + 1
    /\ \E h \in 0..(tip + 1) :
          /\ place' = h
          /\ ahead' \in (IF h = tip + 1 \/ (ahead /\ h >= place) THEN {TRUE}
                         ELSE IF h = 0 /\ TwoCalls THEN {FALSE} ELSE BOOLEAN)
    /\ reorgs' = reorgs + 1
    /\ moved' = (pc # "idle")
    /\ Heard
    /\ UNCHANGED <<request, answer, row, payment, keysChanged, handed, missed, pc, caller,
                   readTip, confirmations, depth, failures>>

\* The daemon drops a transaction of the pool.
Drop ==
    /\ place = 0
    /\ place' = None
    /\ UNCHANGED <<request, answer, row, payment, tip, reorgs, keysChanged, delivery, due,
                   reader, failures>>

\* monerod comes to know of a double spend.
SeeDoubleSpend ==
    /\ place = 0
    /\ row.processor = "XMR"
    /\ payment' = [payment EXCEPT !.ok = FALSE]
    /\ UNCHANGED <<request, answer, row, place, tip, reorgs, keysChanged, delivery, due,
                   reader, failures>>

-----------------------------------------------------------------------------
(* The listeners, verifyTxOnMempool and confirmPENDING_MEMPOOL             *)

\* The listener of the pool or of the blocks comes to the transaction: once, and with
\* what the daemon knew of it then.  verifyTxOnMempool leaves a double spend alone.
HandOver ==
    /\ ahead
    /\ place # None
    /\ ahead' = FALSE
    /\ handed' = IF DoubleSpendSeen(row.processor, payment) THEN handed
                 ELSE handed \cup {place}
    /\ UNCHANGED <<request, answer, row, chain, keysChanged, missed, due, reader, failures>>

\* The goroutine that came from place h ends.
HandedEnds(h) == h \in handed /\ handed' = handed \ {h}

AmountOf == Credited(row.processor, row.coin, payment, keysChanged)

\* Once confirmCONFIRMED is stuck the entry of the invoice is PENDING_MEMPOOL in memory.
Enough == row.status = "PENDING" /\ pc # "stuck" /\ row.requiredAmount <= AmountOf

ConfirmPendingMempool ==
    /\ \E h \in handed : HandedEnds(h)
    /\ Enough
    /\ row' = [row EXCEPT !.status = "PENDING_MEMPOOL", !.actualAmount = AmountOf,
                          !.tx = TRUE]
    /\ due' = due \cup {"delivery"}
    /\ UNCHANGED <<request, answer, chain, keysChanged, ahead, missed, reader, failures>>

NotEnough ==
    /\ \E h \in handed : HandedEnds(h)
    /\ ~Enough
    /\ UNCHANGED <<request, answer, row, chain, keysChanged, ahead, missed, due, reader,
                   failures>>

\* The transaction of the block or of the pool cannot be fetched, the database has no
\* transaction to give or verifyTxHandler fails: nothing comes back to this place.
LoseDelivery ==
    /\ failures < MaxFailures
    /\ failures' = failures + 1
    /\ \E h \in handed : HandedEnds(h) /\ missed' = missed \cup {h}
    /\ UNCHANGED <<request, answer, row, chain, keysChanged, ahead, due, reader>>

-----------------------------------------------------------------------------
(* confirmCONFIRMED                                                        *)

\* Called for a block, or by the goroutine that has just credited the invoice and has
\* not committed yet.
Asks(c) ==
    /\ pc = "idle" /\ row.status = "PENDING_MEMPOOL"
    /\ c \in due /\ due' = due \ {c}

\* The call ends, or never does: what it has read is gone.
Leaves(p) ==
    /\ pc' = p /\ caller' = "block"
    /\ readTip' = 0 /\ confirmations' = 0 /\ depth' = 0 /\ moved' = FALSE

Verdict == IF DoubleSpendSeen(row.processor, payment) THEN "reject" ELSE "decide"

\* XMR, BTC, LTC.  A transaction the daemon does not know is an empty answer of
\* monerod and an error of bitcoind and litecoind.
GetTransactions ==
    /\ \E c \in due : Asks(c) /\ caller' = c
    /\ ~TwoCalls
    /\ pc' = IF place # None THEN Verdict
             ELSE IF row.processor = "XMR" THEN "reject" ELSE "idle"
    /\ confirmations' = Depth
    /\ depth' = Depth
    /\ moved' = FALSE
    /\ UNCHANGED <<request, answer, row, chain, keysChanged, delivery, readTip, failures>>

\* ETH, BNB: GetLastBlockHeight, then TransactionByHash and TransactionReceipt.
GetLastBlockHeight ==
    /\ \E c \in due : Asks(c) /\ caller' = c
    /\ TwoCalls
    /\ pc' = "receipt"
    /\ readTip' = tip
    /\ moved' = FALSE
    /\ UNCHANGED <<request, answer, row, chain, keysChanged, delivery, confirmations, depth,
                   failures>>

\* Slip: the block of the transaction is counted as well.
CountsOwnBlock == Uint64(readTip - place + 1)

Difference == Uint64(readTip - place)

\* A transaction that is in no block has no receipt.
TransactionReceipt ==
    /\ pc = "receipt"
    /\ pc' = IF Mined THEN Verdict ELSE "idle"
    /\ confirmations' = IF Mined THEN Difference ELSE 0
    /\ depth' = Depth
    /\ UNCHANGED <<request, answer, row, chain, keysChanged, delivery, due, caller, readTip,
                   moved, failures>>

\* A call of the daemon fails: the next block asks again.
CallFails ==
    /\ failures < MaxFailures
    /\ failures' = failures + 1
    /\ (\E c \in due : Asks(c)) \/ (pc = "receipt" /\ UNCHANGED due)
    /\ Leaves("idle")
    /\ UNCHANGED <<request, answer, row, chain, keysChanged, delivery>>

TooFew == Uint64(row.confirmationsRequired) > confirmations

\* Nothing is done for an invoice that has expired meanwhile.
Decide ==
    /\ pc = "decide"
    /\ Leaves("idle")
    /\ row' = IF TooFew \/ ~Open THEN row ELSE [row EXCEPT !.status = "CONFIRMED"]
    /\ UNCHANGED <<request, answer, chain, keysChanged, delivery, due, failures>>

\* expireInvoice writes in a transaction of its own.  The goroutine that has credited the
\* invoice holds the lock of its row in the other one, and waits for itself: what it
\* wrote is not committed, the entry and the timer are gone, and no other goroutine has
\* the invoice.
Reject ==
    LET hangs == Open /\ caller = "delivery"
    IN  /\ pc = "reject"
        /\ Leaves(IF hangs THEN "stuck" ELSE "idle")
        /\ row' = IF hangs THEN [row EXCEPT !.status = "PENDING", !.actualAmount = 0,
                                            !.tx = FALSE]
                  ELSE IF Open THEN [row EXCEPT !.status = "EXPIRED"]
                  ELSE row
        /\ UNCHANGED <<request, answer, chain, keysChanged, delivery, due, failures>>

FireTimer ==
    /\ Open
    /\ pc # "stuck"
    /\ row' = [row EXCEPT !.status = "EXPIRED"]
    /\ UNCHANGED <<request, answer, chain, keysChanged, delivery, due, reader, failures>>

-----------------------------------------------------------------------------

Asking == GetTransactions \/ GetLastBlockHeight

Next ==
    \/ \E q \in Requests : RefuseInvoice(q) \/ \E p \in Configured : CreateInvoice(q, p)
    \/ UpdateCryptoKeys
    \/ \E t \in Payments : Send(t)
    \/ Mine \/ NewBlock \/ Reorg \/ Drop \/ SeeDoubleSpend
    \/ HandOver \/ ConfirmPendingMempool \/ NotEnough \/ LoseDelivery
    \/ Asking \/ TransactionReceipt \/ CallFails \/ Decide \/ Reject
    \/ FireTimer

Spec == Init /\ [][Next]_vars

\* Blocks keep coming, the listeners come to the place of the transaction, and the
\* goroutines they start run; nothing is promised of the payer, of the transaction or of
\* the timer, and no delivery that has been lost is made again.
Fairness ==
    /\ WF_vars(NewBlock)
    /\ WF_vars(HandOver) /\ WF_vars(ConfirmPendingMempool)
    /\ WF_vars(Asking) /\ WF_vars(TransactionReceipt)
    /\ WF_vars(Decide) /\ WF_vars(Reject)

FairSpec == Spec /\ Fairness

-----------------------------------------------------------------------------
(* Properties                                                              *)

Statuses == {"absent", "PENDING", "PENDING_MEMPOOL", "CONFIRMED", "EXPIRED"}

\* The type of every variable.
TypeOK ==
    /\ request \in Requests \cup {None}
    /\ answer \in {"none", "accepted", "refused"}
    /\ row \in [processor : Processors \cup {""}, coin : DbCoins \cup {""},
                requiredAmount : Nat, actualAmount : Nat,
                confirmationsRequired : (-Half16)..(Half16 - 1), lifetime : Int,
                status : Statuses, tx : BOOLEAN]
    /\ payment \in ChainTxs \cup {None}
    /\ place \in Nat \cup {None} /\ tip \in Nat
    /\ keysChanged \in BOOLEAN
    /\ ahead \in BOOLEAN /\ handed \subseteq Nat /\ missed \subseteq Nat
    /\ due \subseteq {"delivery", "block"} /\ caller \in {"delivery", "block"}
    /\ pc \in {"idle", "receipt", "decide", "reject", "stuck"}
    /\ readTip \in Nat /\ confirmations \in Nat /\ depth \in Nat /\ moved \in BOOLEAN
    /\ reorgs \in Nat /\ failures \in Nat

Accepted == answer = "accepted"

\* A number of confirmations the column of the database can hold.
Fits == request.confirmations < Half16

\* The invoice the clients are told of is the one that was asked for: its coin and
\* amount always, its confirmations and its time as long as they fit their types.
ToldAsAsked ==
    Accepted =>
        LET told == DbInvoiceToPbInvoice(row)
        IN  /\ told.coin = request.coin
            /\ told.requiredAmount = request.amount
            /\ Fits => told.confirmationsRequired = request.confirmations
            /\ 2 * request.timeout * Second < Mod64 - 1 =>
                  told.lifetime >= request.timeout * Second

\* The chain of a coin of the protocol.
ChainOf(coin) ==
    IF coin \in ERC20 THEN "ETH"
    ELSE IF coin \in BEP20 \cup {"BSCUSD_BEP20"} THEN "BNB"
    ELSE coin

\* The processor that has the invoice is the one of the chain of its coin, whatever
\* the order in which HandleNewInvoice comes to the processors; and a request is
\* refused only if that processor is not configured, or for its amount.  BTCB_BEP20,
\* which README.md lists as supported, is always refused.
OnItsChain ==
    /\ Accepted => row.processor = ChainOf(request.coin)
    /\ answer = "refused" =>
          \/ request.amount < 0
          \/ ChainOf(request.coin) \notin Configured
          \/ request.coin = "BTCB_BEP20"

\* What the transaction pays to the address in the coin of the invoice.
PaidInCoin ==
    IF row.coin \in Tokens
    THEN MapThenSumSet(LAMBDA i : payment.logs[i].amount,
                       {i \in DOMAIN payment.logs :
                            payment.logs[i].coin = row.coin /\ payment.logs[i].paid})
    ELSE payment.value

\* An invoice is credited what was paid for it in its coin, and that is enough; but
\* an invoice of a token is also credited the value of a transaction without events.
CreditedIsPaid ==
    row.tx =>
        /\ row.requiredAmount <= row.actualAmount
        /\ \/ row.actualAmount <= PaidInCoin
           \/ row.coin \in Tokens /\ payment.logs = <<>>

\* The payment that verifyTxHandler can read: a native payment without events and of
\* less than 2^64 units, and for XMR one to the keys the user still has.
Readable ==
    /\ payment # None /\ payment.ok
    /\ TwoCalls /\ row.coin \notin Tokens => payment.logs = <<>> /\ payment.value < Mod64
    /\ row.processor = "XMR" => ~keysChanged

\* A payment that is enough is seen once the listener comes to its place, if the chain
\* keeps it there and neither the timer nor a failure comes first.  A place is delivered
\* once: of a delivery that a failure has lost, and of a reorganisation that puts the
\* transaction where the listener has been, nothing is said.  Amounts are whole numbers
\* here, while the code adds float64: a sum that rounding leaves below the required
\* amount is not seen in the code.
EnoughIsSeen ==
    \A h \in 0..MaxHeight :
        (/\ row.status = "PENDING" /\ place = h /\ ahead
         /\ Readable /\ row.requiredAmount <= PaidInCoin)
        ~> row.status # "PENDING" \/ place # h \/ ~Readable \/ h \in missed

\* An invoice becomes CONFIRMED on an answer that gave its transaction as many
\* confirmations as the client had asked for, if the column could hold the number
\* and the transaction did not come into a block between the two calls.
ConfirmedIsBuried ==
    [][row.status # "CONFIRMED" /\ row'.status = "CONFIRMED" /\ Fits =>
          request.confirmations <= depth \/ moved]_vars

\* An invoice whose transaction stays deep enough is CONFIRMED, unless the timer comes
\* first: no failed call and no reorganisation in between makes it wait for ever.  What
\* does is the answer that rejects the transaction to the goroutine that has credited
\* it: that one waits for its own lock, and its row is PENDING for the others.
DeepIsConfirmed ==
    row.status = "PENDING_MEMPOOL" /\ Fits /\ Mined /\ request.confirmations <= Depth
        ~> \/ row.status \in {"CONFIRMED", "EXPIRED"} \/ pc = "stuck"
           \/ ~Mined \/ request.confirmations > Depth
=============================================================================
