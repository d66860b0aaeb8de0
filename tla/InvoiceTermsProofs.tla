---------------------------- MODULE InvoiceTermsProofs ----------------------------
(* Proofs about InvoiceTerms, for every set of requests, payments and configured  *)
(* processors, every width of the integers and every height of the chain.         *)
EXTENDS InvoiceTerms, FiniteSetTheorems, TLAPS

-----------------------------------------------------------------------------
(* What the conversions and the dispatch compute.                          *)

LEMMA Widths ==
  /\ Half16 \in Nat \ {0} /\ Mod32 \in Nat \ {0} /\ Mod64 \in Nat \ {0}
  /\ Half16 < Mod32 /\ Mod32 < Mod64
BY WidthAssumption

\* int16 of any integer is in its range, and is the number itself if that fits.
LEMMA Int16Value ==
  ASSUME NEW n \in Int
  PROVE  /\ Int16(n) \in (-Half16)..(Half16 - 1)
         /\ n \in 0..(Half16 - 1) => Int16(n) = n
<1>1. /\ (n + Half16) % (2 * Half16) \in 0..(2 * Half16 - 1)
      /\ n \in 0..(Half16 - 1) => (n + Half16) % (2 * Half16) = n + Half16
  BY Widths
<1> QED BY <1>1, Widths DEF Int16

\* uint64 never makes a natural number larger, and keeps one that fits.
LEMMA Uint64Value ==
  ASSUME NEW n \in Int
  PROVE  /\ Uint64(n) \in Nat
         /\ n \in Nat => Uint64(n) <= n
         /\ n \in 0..(Mod64 - 1) => Uint64(n) = n
BY Widths DEF Uint64

LEMMA Uint32Value ==
  ASSUME NEW n \in 0..(Mod32 - 1)
  PROVE  Uint32(n) = n
BY Widths DEF Uint32

\* A time that does not overflow is at least what was asked for.
LEMMA LifetimeValue ==
  ASSUME NEW timeout \in Nat
  PROVE  /\ Lifetime(timeout) \in Int
         /\ 2 * timeout * Second < Mod64 - 1 => Lifetime(timeout) >= timeout * Second
<1> DEFINE d == timeout * Second
<1>1. d \in Nat /\ MinSyncTimeout \in Nat
  BY WidthAssumption
<1>2. 2 * timeout * Second = 2 * d
  BY WidthAssumption
<1> HIDE DEF d
<1>3. Int64(d) \in Int /\ (2 * d < Mod64 - 1 => Int64(d) = d)
  <2> DEFINE h == Mod64 \div 2
  <2>1. h \in Nat /\ Mod64 - 1 <= 2 * h
    BY Widths
  <2>2. (d + h) % Mod64 \in Nat /\ (d + h < Mod64 => (d + h) % Mod64 = d + h)
    BY <1>1, <2>1, Widths
  <2>3. 2 * h <= Mod64
    BY Widths
  <2>4. Int64(d) = ((d + h) % Mod64) - h
    BY DEF Int64
  <2> HIDE DEF h
  <2>5. 2 * d < Mod64 - 1 => d + h < Mod64
    BY <1>1, <2>1, <2>3, Widths
  <2> QED BY <1>1, <2>1, <2>2, <2>4, <2>5
<1>4. Lifetime(timeout) = IF Int64(d) < MinSyncTimeout THEN MinSyncTimeout ELSE Int64(d)
  BY DEF Lifetime, d
<1> QED BY <1>1, <1>2, <1>3, <1>4 DEF d

\* A coin of the protocol comes back as it was, if a processor supports it, and the
\* processor is the one of its chain.
LEMMA CoinSupported ==
  ASSUME NEW coin \in PbCoins \cup {"unknown"}, NEW p \in Processors,
         SupportsCoin(p, PbCoinToDbCoin(coin))
  PROVE  /\ PbCoinToDbCoin(coin) \in DbCoins
         /\ DbCoinToPbCoin(PbCoinToDbCoin(coin)) = coin
         /\ p = ChainOf(coin)
<1> USE DEF Processors
<1>1. coin \in PbCoins
  <2>1. PbCoinToDbCoin("unknown") = "" /\ "unknown" \notin PbCoins
    BY DEF PbCoinToDbCoin, PbCoins, Native, ERC20, BEP20
  <2>2. ~SupportsCoin(p, "")
    BY DEF SupportsCoin, TokensOf, ERC20, BEP20
  <2> QED BY <2>1, <2>2
<1>2. CASE coin = "BSCUSD_BEP20"
  <2>1. PbCoinToDbCoin(coin) = "BSC-USD_BEP20"
    BY <1>2 DEF PbCoinToDbCoin
  <2>2. /\ "BSC-USD_BEP20" \in DbCoins /\ DbCoinToPbCoin("BSC-USD_BEP20") = coin
        /\ ChainOf(coin) = "BNB"
    BY <1>2 DEF DbCoins, DbCoinToPbCoin, ChainOf, ERC20, BEP20
  <2>3. p = "BNB"
    BY <2>1 DEF SupportsCoin, TokensOf, ERC20, BEP20
  <2> QED BY <2>1, <2>2, <2>3
<1>3. CASE coin # "BSCUSD_BEP20"
  <2>1. PbCoinToDbCoin(coin) = coin
    BY <1>1, <1>3 DEF PbCoinToDbCoin
  <2>2. coin \in DbCoins /\ coin # "BSC-USD_BEP20"
    BY <1>1, <1>3 DEF PbCoins, DbCoins, Native, ERC20, BEP20
  <2>3. DbCoinToPbCoin(coin) = coin
    BY <2>2 DEF DbCoinToPbCoin
  <2>4. p = ChainOf(coin)
    <3>1. CASE coin \in ERC20
      BY <2>1, <3>1 DEF SupportsCoin, TokensOf, ChainOf, ERC20, BEP20
    <3>2. CASE coin \in BEP20
      BY <2>1, <3>2 DEF SupportsCoin, TokensOf, ChainOf, ERC20, BEP20
    <3>3. CASE coin \in Native
      BY <2>1, <3>3 DEF SupportsCoin, TokensOf, ChainOf, Native, ERC20, BEP20
    <3> QED BY <1>1, <1>3, <3>1, <3>2, <3>3 DEF PbCoins
  <2> QED BY <2>1, <2>2, <2>3, <2>4
<1> QED BY <1>2, <1>3

\* The processor of its chain supports every coin of the protocol that has one, but
\* for BTCB_BEP20.
LEMMA ChainSupports ==
  ASSUME NEW coin \in PbCoins \cup {"unknown"}, ChainOf(coin) \in Processors,
         coin # "BTCB_BEP20"
  PROVE  SupportsCoin(ChainOf(coin), PbCoinToDbCoin(coin))
BY DEF SupportsCoin, PbCoinToDbCoin, ChainOf, PbCoins, Native, ERC20, BEP20, TokensOf,
       Processors

-----------------------------------------------------------------------------
(* The invariant.                                                          *)

RowShape(r) ==
    r \in [processor : Processors \cup {""}, coin : DbCoins \cup {""},
           requiredAmount : Nat, actualAmount : {r.actualAmount},
           confirmationsRequired : (-Half16)..(Half16 - 1), lifetime : Int,
           status : Statuses, tx : BOOLEAN]

\* TypeOK, but for the amount that has been credited.
Shape ==
    /\ request \in Requests \cup {None}
    /\ answer \in {"none", "accepted", "refused"}
    /\ RowShape(row)
    /\ payment \in ChainTxs \cup {None}
    /\ place \in Nat \cup {None} /\ tip \in Nat
    /\ keysChanged \in BOOLEAN
    /\ ahead \in BOOLEAN /\ handed \subseteq Nat /\ missed \subseteq Nat
    /\ due \subseteq {"delivery", "block"} /\ caller \in {"delivery", "block"}
    /\ pc \in {"idle", "receipt", "decide", "reject", "stuck"}
    /\ readTip \in Nat /\ confirmations \in Nat /\ depth \in Nat /\ moved \in BOOLEAN
    /\ reorgs \in Nat /\ failures \in Nat

\* The row keeps the terms of the request.
Terms ==
    Accepted =>
        /\ request \in Requests
        /\ row.processor \in Configured
        /\ SupportsCoin(row.processor, PbCoinToDbCoin(request.coin))
        /\ row.coin = PbCoinToDbCoin(request.coin)
        /\ row.requiredAmount = request.amount
        /\ row.confirmationsRequired = Int16(request.confirmations)
        /\ row.lifetime = Lifetime(request.timeout)

Refusal ==
    answer = "refused" =>
        /\ request \in Requests
        /\ \/ request.amount < 0
           \/ \A p \in Configured : ~SupportsCoin(p, PbCoinToDbCoin(request.coin))

\* Without an accepted request there is no row, and no transaction for it.
NoInvoice == ~Accepted => row = NoRow /\ payment = None

\* A transaction that is somewhere has been sent, and its block is on the chain; the one
\* that is handed over has been sent, and has not failed.
OnChain ==
    /\ place # None => payment # None
    /\ handed # {} => payment # None /\ (TwoCalls => payment.ok)
    /\ Mined => place <= tip
    /\ row.tx => payment # None

\* What confirmCONFIRMED has read, unless the transaction came into a block meanwhile.
Reading ==
    /\ pc = "receipt" => moved \/ (readTip <= tip /\ (Mined => place <= readTip))
    /\ pc = "decide" => moved \/ confirmations <= depth

\* An invoice that is not one of a token is credited no more than what was paid.
NativeCreditedIsPaid ==
    row.tx =>
        /\ row.requiredAmount <= row.actualAmount
        /\ row.coin \notin Tokens => row.actualAmount <= payment.value

TInv == Shape /\ Terms /\ Refusal /\ NoInvoice /\ OnChain /\ Reading /\ NativeCreditedIsPaid

LEMMA RowIsAccepted ==
  ASSUME TInv, row.status # "absent"
  PROVE  Accepted
<1>1. NoRow.status = "absent"
  BY DEF NoRow
<1> QED BY <1>1 DEF TInv, NoInvoice, Accepted

\* Steps of the chain leave the request, its answer and the row alone.
LEMMA ChainStep ==
  ASSUME TInv,
         \/ \E t \in Payments : Send(t)
         \/ Mine \/ NewBlock \/ Reorg \/ Drop \/ SeeDoubleSpend
  PROVE  TInv'
<1> USE TermsAssumption DEF Mined, TwoCalls, Heard
<1>1. /\ UNCHANGED <<request, answer, row, handed, missed, caller>>
      /\ due' \in {due, due \cup {"block"}} /\ (payment' # payment => answer = "accepted")
  <2>1. UNCHANGED <<request, answer, row, handed, missed, caller>>
    BY DEF Send, Mine, NewBlock, Reorg, Drop, SeeDoubleSpend, delivery, reader
  <2>2. due' \in {due, due \cup {"block"}}
    BY DEF Send, Mine, NewBlock, Reorg, Drop, SeeDoubleSpend
  <2>3. payment' # payment => (\E t \in Payments : Send(t)) \/ SeeDoubleSpend
    BY DEF Mine, NewBlock, Reorg, Drop
  <2>4. SeeDoubleSpend => answer = "accepted"
    BY DEF SeeDoubleSpend, TInv, Shape, OnChain, NoInvoice, Accepted
  <2> QED BY <2>1, <2>2, <2>3, <2>4 DEF Send
<1>2. Terms' /\ Refusal' /\ NoInvoice'
  BY <1>1 DEF TInv, Terms, Refusal, NoInvoice, Accepted
<1>3. ASSUME NEW t \in Payments, Send(t)
      PROVE  Shape' /\ OnChain' /\ Reading' /\ NativeCreditedIsPaid'
  BY <1>1, <1>3 DEF Send, reader, TInv, Shape, OnChain, Reading, NativeCreditedIsPaid
<1>4. CASE Mine
  <2>1. moved' \in BOOLEAN /\ (pc # "idle" => moved') /\ pc' = pc
    BY <1>4 DEF Mine
  <2>2. Shape'
    BY <1>1, <1>4, <2>1 DEF Mine, TInv, Shape
  <2>3. OnChain'
    BY <1>1, <1>4 DEF Mine, TInv, Shape, OnChain
  <2>4. Reading' /\ NativeCreditedIsPaid'
    BY <1>1, <1>4, <2>1 DEF Mine, TInv, Reading, NativeCreditedIsPaid
  <2> QED BY <1>2, <2>2, <2>3, <2>4 DEF TInv
<1>5. CASE NewBlock
  BY <1>1, <1>2, <1>5
     DEF NewBlock, delivery, reader, TInv, Shape, OnChain, Reading, NativeCreditedIsPaid
<1>6. CASE Reorg
  <2>1. moved' \in BOOLEAN /\ (pc # "idle" => moved') /\ pc' = pc
    BY <1>6 DEF Reorg
  <2>2. Shape'
    <3>1. /\ tip' = tip + 1 /\ tip \in Nat /\ reorgs' = reorgs + 1 /\ reorgs \in Nat
          /\ UNCHANGED <<request, answer, row, payment, keysChanged, handed, missed, pc, caller,
                         readTip, confirmations, depth, failures>>
      BY <1>6 DEF Reorg, TInv, Shape
    <3>2. PICK h \in 0..(tip + 1) :
              /\ place' = h
              /\ ahead' \in (IF h = tip + 1 \/ (ahead /\ h >= place) THEN {TRUE}
                             ELSE IF h = 0 /\ TwoCalls THEN {FALSE} ELSE BOOLEAN)
      BY <1>6 DEF Reorg
    <3>3. place' \in Nat
      BY <3>1, <3>2
    <3>4. ahead' \in BOOLEAN
      BY <3>2, Zenon
    <3> QED BY <1>1, <2>1, <3>1, <3>3, <3>4 DEF TInv, Shape
  <2>3. OnChain'
    BY <1>1, <1>6 DEF Reorg, TInv, Shape, OnChain
  <2>4. Reading' /\ NativeCreditedIsPaid'
    BY <1>1, <1>6, <2>1 DEF Reorg, TInv, Reading, NativeCreditedIsPaid
  <2> QED BY <1>2, <2>2, <2>3, <2>4 DEF TInv
<1>7. CASE Drop
  BY <1>1, <1>2, <1>7
     DEF Drop, delivery, reader, TInv, Shape, OnChain, Reading, NativeCreditedIsPaid
<1>8. CASE SeeDoubleSpend
  <2>1. payment \in ChainTxs
    BY <1>8 DEF SeeDoubleSpend, TInv, Shape, OnChain
  <2>2. payment' \in ChainTxs /\ payment'.value = payment.value
    BY <1>8, <2>1 DEF SeeDoubleSpend, ChainTxs
  <2>3. /\ payment # None /\ payment' # None
        /\ UNCHANGED <<request, answer, row, place, tip, reorgs, keysChanged, delivery, due,
                       reader, failures>>
        /\ ~TwoCalls
    BY <1>8, <2>1, <2>2 DEF SeeDoubleSpend
  <2>4. Shape' /\ Reading'
    BY <2>2, <2>3 DEF delivery, reader, TInv, Shape, Reading
  <2>5. OnChain' /\ NativeCreditedIsPaid'
    BY <2>2, <2>3 DEF delivery, TInv, OnChain, NativeCreditedIsPaid
  <2> QED BY <1>2, <2>4, <2>5 DEF TInv
<1> QED BY <1>2, <1>3, <1>4, <1>5, <1>6, <1>7, <1>8 DEF TInv

\* CreateInvoice takes the terms of the request, or refuses it.
LEMMA RequestStep ==
  ASSUME TInv, NEW q \in Requests,
         RefuseInvoice(q) \/ \E p \in Configured : CreateInvoice(q, p)
  PROVE  TInv'
<1> USE TermsAssumption DEF Mined
<1>1. /\ q.coin \in PbCoins \cup {"unknown"} /\ q.amount \in Int
      /\ q.confirmations \in 0..(Mod32 - 1) /\ q.timeout \in Nat
      /\ PbNewInvoiceToProcessorNewInvoice(q).coin = PbCoinToDbCoin(q.coin)
      /\ PbNewInvoiceToProcessorNewInvoice(q).amount = q.amount
      /\ PbNewInvoiceToProcessorNewInvoice(q).confirmations = q.confirmations
      /\ PbNewInvoiceToProcessorNewInvoice(q).timeout = q.timeout
  BY DEF PbRequests, PbNewInvoiceToProcessorNewInvoice
<1>2. CASE RefuseInvoice(q)
  BY <1>1, <1>2
     DEF RefuseInvoice, chain, delivery, reader, TInv, Shape, Terms, Accepted, Refusal,
         NoInvoice, OnChain, TwoCalls, Reading, NativeCreditedIsPaid
<1>3. ASSUME NEW p \in Configured, CreateInvoice(q, p) PROVE TInv'
  <2>1. row' = [processor |-> p, coin |-> PbCoinToDbCoin(q.coin),
                requiredAmount |-> q.amount, actualAmount |-> 0,
                confirmationsRequired |-> Int16(q.confirmations),
                lifetime |-> Lifetime(q.timeout), status |-> "PENDING", tx |-> FALSE]
    BY <1>1, <1>3 DEF CreateInvoice
  <2>2. /\ SupportsCoin(p, PbCoinToDbCoin(q.coin)) /\ q.amount \in Nat
        /\ request' = q /\ answer' = "accepted"
        /\ UNCHANGED <<chain, keysChanged, delivery, due, reader, failures>>
        /\ payment = None
    BY <1>1, <1>3 DEF CreateInvoice, TInv, Terms, NoInvoice, Accepted
  <2>3. RowShape(row')
    <3>1. PbCoinToDbCoin(q.coin) \in DbCoins /\ p \in Processors
      BY <1>1, <2>2, CoinSupported
    <3>2. Int16(q.confirmations) \in (-Half16)..(Half16 - 1) /\ Lifetime(q.timeout) \in Int
      BY <1>1, Widths, Int16Value, LifetimeValue
    <3> QED BY <2>1, <2>2, <3>1, <3>2 DEF RowShape, Statuses
  <2>4. Shape'
    BY <2>2, <2>3 DEF chain, delivery, reader, TInv, Shape
  <2>5. Terms' /\ Refusal' /\ NoInvoice'
    BY <2>1, <2>2 DEF Terms, Accepted, Refusal, NoInvoice
  <2>6. OnChain' /\ Reading' /\ NativeCreditedIsPaid'
    BY <2>1, <2>2 DEF chain, delivery, reader, TInv, OnChain, Reading, NativeCreditedIsPaid
  <2> QED BY <2>4, <2>5, <2>6 DEF TInv
<1> QED BY <1>2, <1>3

\* A goroutine that writes the row changes its status and what has been credited, never
\* the terms of the request.
LEMMA RowStep ==
  ASSUME TInv, RowShape(row'), UNCHANGED <<request, answer, chain>>, handed' \subseteq handed,
         row'.processor = row.processor, row'.coin = row.coin,
         row'.requiredAmount = row.requiredAmount,
         row'.confirmationsRequired = row.confirmationsRequired,
         row'.lifetime = row.lifetime
  PROVE  Terms' /\ Refusal' /\ ((row'.tx => payment # None) => OnChain')
BY DEF TInv, Terms, Accepted, Refusal, OnChain, TwoCalls, Mined, chain

\* Row r is the row with another status at most.
SameButStatus(r) ==
    /\ RowShape(r)
    /\ r.processor = row.processor /\ r.coin = row.coin
    /\ r.requiredAmount = row.requiredAmount /\ r.actualAmount = row.actualAmount
    /\ r.confirmationsRequired = row.confirmationsRequired
    /\ r.lifetime = row.lifetime /\ r.tx = row.tx

LEMMA StatusStep ==
  ASSUME RowShape(row), NEW st \in Statuses, row' = [row EXCEPT !.status = st]
  PROVE  SameButStatus(row') /\ row'.status = st
BY DEF RowShape, SameButStatus

\* The amount credited covers the invoice, and the coins of the chain are not credited
\* more than was paid.
LEMMA MempoolStep ==
  ASSUME TInv, ConfirmPendingMempool
  PROVE  TInv'
<1> USE TermsAssumption
<1>1. /\ row' = [row EXCEPT !.status = "PENDING_MEMPOOL", !.actualAmount = AmountOf,
                            !.tx = TRUE]
      /\ UNCHANGED <<request, answer, chain, keysChanged, ahead, missed, reader, failures>>
      /\ due' = due \cup {"delivery"} /\ row.requiredAmount <= AmountOf
      /\ handed # {} /\ handed' \subseteq handed
  BY DEF ConfirmPendingMempool, Enough, HandedEnds
<1>2. /\ RowShape(row') /\ row'.actualAmount = AmountOf
      /\ row'.processor = row.processor /\ row'.coin = row.coin
      /\ row'.requiredAmount = row.requiredAmount
      /\ row'.confirmationsRequired = row.confirmationsRequired
      /\ row'.lifetime = row.lifetime
  BY <1>1 DEF TInv, Shape, RowShape, Statuses
<1>3. payment \in ChainTxs
  BY <1>1 DEF TInv, Shape, OnChain
<1>4. Terms' /\ Refusal' /\ OnChain'
  BY <1>1, <1>2, <1>3, RowStep
<1>5. Shape' /\ Reading'
  BY <1>1, <1>2 DEF chain, reader, TInv, Shape, Reading, Mined
<1>6. row.coin \notin Tokens => AmountOf <= payment.value
  <2>1. payment.value \in Nat
    BY <1>3 DEF ChainTxs
  <2>2. Uint64(payment.value) <= payment.value
    BY <2>1, Uint64Value
  <2> QED BY <2>1, <2>2 DEF AmountOf, Credited, VerifyETHBased, VerifyXMR, VerifyBTC
<1>7. NativeCreditedIsPaid'
  BY <1>1, <1>2, <1>6 DEF chain, NativeCreditedIsPaid
<1>8. NoInvoice'
  <2>1. Accepted
    BY RowIsAccepted DEF ConfirmPendingMempool, Enough
  <2> QED BY <1>1, <2>1 DEF NoInvoice, Accepted
<1> QED BY <1>4, <1>5, <1>7, <1>8 DEF TInv

\* The listeners, and the deliveries that credit nothing, leave the row alone.
LEMMA DeliveryStep ==
  ASSUME TInv, HandOver \/ NotEnough \/ LoseDelivery
  PROVE  TInv'
<1> USE TermsAssumption
<1>1. UNCHANGED <<request, answer, row, chain, keysChanged, due, reader>>
  BY DEF HandOver, NotEnough, LoseDelivery
<1>2. Terms' /\ Refusal' /\ NoInvoice' /\ NativeCreditedIsPaid' /\ Reading'
  BY <1>1
     DEF chain, reader, TInv, Terms, Accepted, Refusal, NoInvoice, NativeCreditedIsPaid,
         Reading, Mined
<1>3. CASE HandOver
  <2>1. place \in Nat /\ payment \in ChainTxs
    BY <1>3 DEF HandOver, TInv, Shape, OnChain
  <2>2. /\ ahead' = FALSE /\ missed' = missed /\ failures' = failures
        /\ handed' = handed \/ (~DoubleSpendSeen(row.processor, payment)
                                  /\ handed' = handed \cup {place})
    BY <1>3 DEF HandOver
  <2>3. ~DoubleSpendSeen(row.processor, payment) /\ TwoCalls => payment.ok
    BY DEF DoubleSpendSeen, TwoCalls
  <2>4. Shape'
    BY <1>1, <2>1, <2>2 DEF chain, reader, TInv, Shape
  <2>5. OnChain'
    BY <1>1, <2>1, <2>2, <2>3 DEF chain, TInv, OnChain, TwoCalls, Mined
  <2> QED BY <1>2, <2>4, <2>5 DEF TInv
<1>4. CASE NotEnough \/ LoseDelivery
  <2>1. /\ ahead' = ahead /\ handed' \subseteq handed /\ handed \subseteq Nat
        /\ missed' \subseteq Nat /\ failures' \in Nat
    <3>1. handed \subseteq Nat /\ missed \subseteq Nat /\ failures \in Nat
      BY DEF TInv, Shape
    <3>2. CASE NotEnough
      BY <3>1, <3>2 DEF NotEnough, HandedEnds
    <3>3. CASE LoseDelivery
      BY <3>1, <3>3 DEF LoseDelivery, HandedEnds
    <3> QED BY <1>4, <3>2, <3>3
  <2>2. Shape'
    BY <1>1, <2>1 DEF chain, reader, TInv, Shape
  <2>3. OnChain'
    BY <1>1, <2>1 DEF chain, TInv, OnChain, TwoCalls, Mined
  <2> QED BY <1>2, <2>2, <2>3 DEF TInv
<1> QED BY <1>3, <1>4

\* The ends of confirmCONFIRMED, and the timer.
LEMMA EndStep ==
  ASSUME TInv, Decide \/ Reject \/ FireTimer
  PROVE  TInv'
<1> DEFINE Undone == [row EXCEPT !.status = "PENDING", !.actualAmount = 0, !.tx = FALSE]
<1>1. \/ row' = row /\ ~Open
      \/ row' = row /\ ~Reject
      \/ Open /\ \E st \in Statuses : row' = [row EXCEPT !.status = st]
      \/ Open /\ row' = Undone
  BY DEF Decide, Reject, FireTimer, Statuses
<1>2. RowShape(row)
  BY DEF TInv, Shape
<1>3. SameButStatus(row') \/ (row' = Undone /\ RowShape(row'))
  <2>1. CASE row' = row
    BY <1>2, <2>1 DEF SameButStatus
  <2>2. CASE row' = Undone
    BY <1>2, <2>2 DEF RowShape, Statuses
  <2> QED BY <1>1, <1>2, <2>1, <2>2, StatusStep
<1>4. /\ RowShape(row') /\ row'.processor = row.processor /\ row'.coin = row.coin
      /\ row'.requiredAmount = row.requiredAmount
      /\ row'.confirmationsRequired = row.confirmationsRequired
      /\ row'.lifetime = row.lifetime /\ (row'.tx => row.tx)
      /\ row'.tx => row'.actualAmount = row.actualAmount
  <2>1. CASE SameButStatus(row')
    BY <2>1 DEF SameButStatus
  <2>2. CASE row' = Undone /\ RowShape(row')
    BY <1>2, <2>2 DEF RowShape
  <2> QED BY <1>3, <2>1, <2>2
<1>5. /\ UNCHANGED <<request, answer, chain, keysChanged, delivery, due, failures>>
      /\ \/ Leaves("idle") \/ Leaves("stuck") \/ UNCHANGED reader
  BY DEF Decide, Reject, FireTimer
<1>6. Terms' /\ Refusal' /\ OnChain'
  BY <1>4, <1>5, RowStep DEF delivery, TInv, OnChain
<1>7. Shape' /\ Reading'
  <2>1. \/ Leaves("idle") \/ Leaves("stuck")
        \/ UNCHANGED <<pc, caller, readTip, confirmations, depth, moved>>
    BY <1>5 DEF reader
  <2>2. Shape'
    <3>1. /\ pc' \in {pc, "idle", "stuck"} /\ caller' \in {"delivery", "block"}
          /\ readTip' \in Nat /\ confirmations' \in Nat /\ depth' \in Nat
          /\ moved' \in BOOLEAN
      <4>1. CASE Leaves("idle") \/ Leaves("stuck")
        <5>1. moved' \in BOOLEAN
          BY <4>1, Zenon DEF Leaves
        <5> QED BY <4>1, <5>1 DEF Leaves
      <4>2. CASE UNCHANGED <<pc, caller, readTip, confirmations, depth, moved>>
        BY <4>2 DEF TInv, Shape
      <4> QED BY <2>1, <4>1, <4>2
    <3> QED BY <1>4, <1>5, <3>1 DEF chain, delivery, TInv, Shape
  <2>3. Reading'
    <3>1. CASE pc' \in {"idle", "stuck"}
      BY <3>1 DEF Reading
    <3>2. CASE UNCHANGED <<pc, caller, readTip, confirmations, depth, moved>>
      BY <1>5, <3>2 DEF chain, TInv, Reading, Mined
    <3> QED BY <2>1, <3>1, <3>2 DEF Leaves
  <2> QED BY <2>2, <2>3
<1>8. NativeCreditedIsPaid'
  BY <1>4, <1>5 DEF chain, TInv, NativeCreditedIsPaid
<1>9. NoInvoice'
  <2>1. CASE Open
    BY <1>5, <2>1, RowIsAccepted DEF Open, NoInvoice, Accepted
  <2>2. CASE ~Open
    <3>1. row' = row
      BY <1>1, <2>2
    <3> QED BY <1>5, <3>1 DEF chain, TInv, NoInvoice, Accepted
  <2> QED BY <2>1, <2>2
<1> QED BY <1>6, <1>7, <1>8, <1>9 DEF TInv

\* A transaction counts no more confirmations than it has, unless it came into a block
\* between the two calls.
LEMMA ReaderStep ==
  ASSUME TInv, Asking \/ TransactionReceipt \/ CallFails
  PROVE  TInv'
<1> USE TermsAssumption
<1>1. /\ UNCHANGED <<request, answer, row, chain, keysChanged, delivery>>
      /\ due' \subseteq due
  BY DEF Asking, GetTransactions, GetLastBlockHeight, TransactionReceipt, CallFails, Asks
<1>2. Terms' /\ Refusal' /\ NoInvoice' /\ OnChain' /\ NativeCreditedIsPaid'
  BY <1>1
     DEF chain, delivery, TInv, Terms, Accepted, Refusal, NoInvoice, OnChain, TwoCalls,
         Mined, NativeCreditedIsPaid
<1>3. tip \in Nat /\ (Mined => place \in Nat /\ place <= tip)
  BY DEF TInv, Shape, OnChain, Mined
<1>4. Depth \in Nat
  BY <1>3 DEF Depth
<1>5. ASSUME GetTransactions PROVE Shape' /\ Reading'
  <2>1. Shape'
    BY <1>1, <1>4, <1>5 DEF GetTransactions, Asks, Verdict, chain, delivery, TInv, Shape
  <2>2. Reading'
    BY <1>4, <1>5 DEF GetTransactions, Asks, Verdict, Reading
  <2> QED BY <2>1, <2>2
<1>6. ASSUME GetLastBlockHeight PROVE Shape' /\ Reading'
  <2>1. Shape'
    BY <1>1, <1>6 DEF GetLastBlockHeight, Asks, chain, delivery, TInv, Shape
  <2>2. Reading'
    BY <1>1, <1>3, <1>6 DEF GetLastBlockHeight, Asks, chain, Reading, Mined
  <2> QED BY <2>1, <2>2
<1>7. CASE TransactionReceipt
  <2>1. Mined => Difference \in Nat /\ (moved \/ Difference <= Depth)
    <3>1. SUFFICES ASSUME Mined PROVE Difference \in Nat /\ (moved \/ Difference <= Depth)
      OBVIOUS
    <3>2. readTip - place \in Int /\ readTip \in Nat
      BY <1>3, <3>1 DEF TInv, Shape
    <3>3. moved \/ (readTip <= tip /\ place <= readTip)
      BY <1>7, <3>1 DEF TransactionReceipt, TInv, Reading
    <3>4. Depth >= tip - place
      BY <1>3, <3>1 DEF Depth
    <3>5. readTip - place \in Nat => Difference <= readTip - place
      BY <3>2, Uint64Value DEF Difference
    <3>6. Difference \in Nat
      BY <3>2, Uint64Value DEF Difference
    <3> QED BY <1>3, <1>4, <3>1, <3>2, <3>3, <3>4, <3>5, <3>6
  <2>2. Shape'
    BY <1>1, <1>4, <1>7, <2>1 DEF TransactionReceipt, Verdict, chain, delivery, TInv, Shape
  <2>3. Reading'
    BY <1>7, <2>1 DEF TransactionReceipt, Verdict, Reading
  <2> QED BY <1>2, <2>2, <2>3 DEF TInv
<1>8. ASSUME CallFails PROVE Shape' /\ Reading'
  <2>1. failures' \in Nat
    <3>1. failures \in Nat
      BY DEF TInv, Shape
    <3> QED BY <1>8, <3>1 DEF CallFails
  <2>2. Leaves("idle")
    BY <1>8 DEF CallFails
  <2>4. Shape'
    BY <1>1, <2>1, <2>2 DEF Leaves, chain, delivery, TInv, Shape
  <2>5. Reading'
    BY <2>2 DEF Leaves, Reading
  <2> QED BY <2>4, <2>5
<1>9. CASE GetTransactions \/ GetLastBlockHeight \/ CallFails
  BY <1>2, <1>5, <1>6, <1>8, <1>9 DEF TInv
<1> QED BY <1>7, <1>9 DEF Asking

LEMMA UpdateKeysStep ==
  ASSUME TInv, UpdateCryptoKeys \/ UNCHANGED vars
  PROVE  TInv'
<1>1. /\ UNCHANGED <<request, answer, row, chain, delivery, due, reader, failures>>
      /\ keysChanged' \in {TRUE, keysChanged}
  BY DEF UpdateCryptoKeys, vars
<1>2. Shape'
  BY <1>1 DEF chain, delivery, reader, TInv, Shape
<1>3. Terms' /\ Refusal' /\ NoInvoice' /\ NativeCreditedIsPaid'
  BY <1>1 DEF chain, TInv, Terms, Accepted, Refusal, NoInvoice, NativeCreditedIsPaid
<1>4. OnChain' /\ Reading'
  BY <1>1 DEF chain, delivery, reader, TInv, OnChain, TwoCalls, Mined, Reading
<1> QED BY <1>2, <1>3, <1>4 DEF TInv

\* Every step keeps TInv.
LEMMA TInvStep ==
  ASSUME TInv, [Next]_vars
  PROVE  TInv'
<1>1. ASSUME NEW q \in Requests,
             RefuseInvoice(q) \/ \E p \in Configured : CreateInvoice(q, p)
      PROVE  TInv'
  BY <1>1, RequestStep
<1>2. CASE UpdateCryptoKeys \/ UNCHANGED vars
  BY <1>2, UpdateKeysStep
<1>3. CASE \/ \E t \in Payments : Send(t)
           \/ Mine \/ NewBlock \/ Reorg \/ Drop \/ SeeDoubleSpend
  BY <1>3, ChainStep
<1>4. CASE ConfirmPendingMempool
  BY <1>4, MempoolStep
<1>5. CASE Asking \/ TransactionReceipt \/ CallFails
  BY <1>5, ReaderStep
<1>6. CASE Decide \/ Reject \/ FireTimer
  BY <1>6, EndStep
<1>7. CASE HandOver \/ NotEnough \/ LoseDelivery
  BY <1>7, DeliveryStep
<1> QED BY <1>1, <1>2, <1>3, <1>4, <1>5, <1>6, <1>7 DEF Next

LEMMA TermsInvariant == Spec => []TInv
<1>1. ASSUME Init PROVE TInv
  <2>1. RowShape(NoRow)
    BY Widths DEF RowShape, NoRow, Statuses
  <2>2. Shape
    BY <1>1, <2>1 DEF Init, Shape
  <2>3. Terms /\ Refusal /\ NoInvoice /\ NativeCreditedIsPaid
    BY <1>1 DEF Init, NoRow, Terms, Accepted, Refusal, NoInvoice, NativeCreditedIsPaid
  <2>4. OnChain /\ Reading
    BY <1>1 DEF Init, NoRow, OnChain, Mined, Reading
  <2> QED BY <2>2, <2>3, <2>4 DEF TInv
<1>2. TInv /\ [Next]_vars => TInv'
  BY TInvStep
<1> QED BY <1>1, <1>2, PTL DEF Spec

-----------------------------------------------------------------------------
(* Theorems.                                                               *)

\* The clients are told the coin and the amount that were asked for, and the
\* confirmations and the time that fit their types, whatever the widths are.
THEOREM ClientsAreToldAsAsked == Spec => []ToldAsAsked
<1>1. ASSUME TInv, Accepted PROVE ToldAsAsked
  <2>1. /\ request.coin \in PbCoins \cup {"unknown"} /\ request.confirmations \in Nat
        /\ request.timeout \in Nat /\ row.processor \in Processors
    BY <1>1, TermsAssumption DEF TInv, Terms, PbRequests
  <2>2. /\ SupportsCoin(row.processor, PbCoinToDbCoin(request.coin))
        /\ row.coin = PbCoinToDbCoin(request.coin)
        /\ row.requiredAmount = request.amount
        /\ row.confirmationsRequired = Int16(request.confirmations)
        /\ row.lifetime = Lifetime(request.timeout)
    BY <1>1 DEF TInv, Terms
  <2>3. DbCoinToPbCoin(row.coin) = request.coin
    BY <2>1, <2>2, CoinSupported
  <2>4. Fits => Uint32(row.confirmationsRequired) = request.confirmations
    <3>1. SUFFICES ASSUME Fits PROVE Uint32(row.confirmationsRequired) = request.confirmations
      OBVIOUS
    <3>2. request.confirmations \in 0..(Half16 - 1) /\ request.confirmations \in 0..(Mod32 - 1)
      BY <2>1, <3>1, Widths DEF Fits
    <3> QED BY <2>1, <2>2, <3>2, Int16Value, Uint32Value
  <2>5. 2 * request.timeout * Second < Mod64 - 1 => row.lifetime >= request.timeout * Second
    BY <2>1, <2>2, LifetimeValue
  <2> QED BY <2>2, <2>3, <2>4, <2>5 DEF ToldAsAsked, DbInvoiceToPbInvoice
<1>2. TInv => ToldAsAsked
  BY <1>1 DEF ToldAsAsked
<1> QED BY <1>2, TermsInvariant, PTL

\* An invoice is with the processor of the chain of its coin, and only a request without
\* one is refused, or one of a negative amount or of BTCB_BEP20.
THEOREM InvoicesAreOnTheirChain == Spec => []OnItsChain
<1>1. ASSUME TInv PROVE OnItsChain
  <2>1. ASSUME Accepted PROVE row.processor = ChainOf(request.coin)
    <3>1. request.coin \in PbCoins \cup {"unknown"} /\ row.processor \in Processors
      BY <1>1, <2>1, TermsAssumption DEF TInv, Terms, PbRequests
    <3> QED BY <1>1, <2>1, <3>1, CoinSupported DEF TInv, Terms
  <2>2. ASSUME answer = "refused", request.coin # "BTCB_BEP20",
               ChainOf(request.coin) \in Configured
        PROVE  request.amount < 0
    <3>1. request.coin \in PbCoins \cup {"unknown"} /\ ChainOf(request.coin) \in Processors
      BY <1>1, <2>2, TermsAssumption DEF TInv, Refusal, PbRequests
    <3>2. SupportsCoin(ChainOf(request.coin), PbCoinToDbCoin(request.coin))
      BY <2>2, <3>1, ChainSupports
    <3> QED BY <1>1, <2>2, <3>2 DEF TInv, Refusal
  <2> QED BY <2>1, <2>2 DEF OnItsChain
<1> QED BY <1>1, TermsInvariant, PTL

\* A confirmation was given for a transaction with the confirmations asked for, unless it
\* came into a block between the two calls of GetTransactions.
THEOREM ConfirmedAreBuried == Spec => ConfirmedIsBuried
<1>1. ASSUME TInv, [Next]_vars,
             row.status # "CONFIRMED", row'.status = "CONFIRMED", Fits
      PROVE  request.confirmations <= depth \/ moved
  <2>1. Decide
    <3>1. RowShape(row)
      BY <1>1 DEF TInv, Shape
    <3>2. ASSUME NEW q \in Requests,
                 RefuseInvoice(q) \/ \E p \in Configured : CreateInvoice(q, p)
          PROVE  FALSE
      BY <1>1, <3>2 DEF RefuseInvoice, CreateInvoice
    <3>3. ~UpdateCryptoKeys /\ ~(UNCHANGED vars)
      BY <1>1 DEF UpdateCryptoKeys, vars
    <3>4. /\ ~Mine /\ ~NewBlock /\ ~Reorg /\ ~Drop /\ ~SeeDoubleSpend
          /\ \A t \in Payments : ~Send(t)
      BY <1>1 DEF Send, Mine, NewBlock, Reorg, Drop, SeeDoubleSpend
    <3>5. ~Asking /\ ~TransactionReceipt /\ ~CallFails
      BY <1>1 DEF Asking, GetTransactions, GetLastBlockHeight, TransactionReceipt, CallFails
    <3>6. ~ConfirmPendingMempool
      BY <1>1, <3>1 DEF ConfirmPendingMempool, RowShape
    <3>7. ~Reject /\ ~FireTimer
      BY <1>1, <3>1 DEF Reject, FireTimer, RowShape
    <3>8. ~HandOver /\ ~NotEnough /\ ~LoseDelivery
      BY <1>1 DEF HandOver, NotEnough, LoseDelivery
    <3> QED BY <1>1, <3>2, <3>3, <3>4, <3>5, <3>6, <3>7, <3>8 DEF Next
  <2>2. pc = "decide" /\ ~TooFew
    BY <1>1, <2>1 DEF Decide
  <2>3. Accepted
    <3>1. Open
      BY <1>1, <2>1 DEF Decide
    <3> QED BY <1>1, <3>1, RowIsAccepted DEF Open
  <2>4. /\ request.confirmations \in 0..(Half16 - 1)
        /\ row.confirmationsRequired = Int16(request.confirmations)
    <3>1. request \in Requests /\ row.confirmationsRequired = Int16(request.confirmations)
      BY <1>1, <2>3 DEF TInv, Terms
    <3>2. request.confirmations \in 0..(Mod32 - 1)
      BY <3>1, TermsAssumption DEF PbRequests
    <3> QED BY <1>1, <3>1, <3>2, Widths DEF Fits
  <2>5. Uint64(row.confirmationsRequired) = request.confirmations
    BY <2>4, Widths, Int16Value, Uint64Value
  <2>6. confirmations \in Nat /\ depth \in Nat /\ (moved \/ confirmations <= depth)
    BY <1>1, <2>2 DEF TInv, Shape, Reading
  <2>7. request.confirmations <= confirmations
    BY <2>2, <2>4, <2>5, <2>6 DEF TooFew
  <2>8. CASE confirmations <= depth
    BY <2>4, <2>6, <2>7, <2>8, Widths
  <2> QED BY <2>6, <2>8
<1>2. TInv /\ [Next]_vars =>
        [row.status # "CONFIRMED" /\ row'.status = "CONFIRMED" /\ Fits =>
            request.confirmations <= depth \/ moved]_vars
  BY <1>1
<1> QED BY <1>2, TermsInvariant, PTL DEF ConfirmedIsBuried, Spec

-----------------------------------------------------------------------------
(* The loop of verifyETHBasedTxHandler over the events.                     *)

\* A set of naturals has a smallest one.
LEMMA Smallest ==
  ASSUME NEW S, S \subseteq Nat, S # {}
  PROVE  \E c \in S : \A d \in S : c <= d
<1>1. \E R : IsWellFoundedOn(R, Nat) /\ \A c, d \in Nat : d < c => <<d, c>> \in R
  <2>1. \A c, d \in Nat : d < c => <<d, c>> \in OpToRel(<, Nat)
    BY DEF OpToRel
  <2> QED BY <2>1, NatLessThanWellFounded, Zenon
<1>2. PICK R : IsWellFoundedOn(R, Nat) /\ \A c, d \in Nat : d < c => <<d, c>> \in R
  BY <1>1
<1>3. PICK c \in S : \A d \in S : <<d, c>> \notin R
  BY <1>2, WFMin, Zenon
<1>4. \A d \in S : c <= d
  <2>1. TAKE d \in S
  <2>2. d \in Nat /\ c \in Nat /\ ~(d < c)
    BY <1>2, <1>3
  <2> QED BY <2>2
<1> QED BY <1>4

\* A set that has 0, and every natural up to n whose predecessor it has, has them all.
LEMMA Inductive ==
  ASSUME NEW n \in Nat, NEW S \in SUBSET (0..n),
         0 \in S, \A i \in 1..n : i - 1 \in S => i \in S
  PROVE  S = 0..n
<1> SUFFICES ASSUME (0..n) \ S # {} PROVE FALSE
  OBVIOUS
<1>1. (0..n) \ S \subseteq Nat
  OBVIOUS
<1>2. PICK i \in (0..n) \ S : \A j \in (0..n) \ S : i <= j
  BY <1>1, Smallest
<1>3. i \in 1..n /\ i - 1 \in 0..n /\ ~(i <= i - 1)
  BY <1>2
<1> QED BY <1>2, <1>3

\* Running totals.
IsTotal(f, a, n) == \A i \in 0..n : f[i] = IF i = 0 THEN 0 ELSE f[i - 1] + a[i]

\* They exist for every sequence of naturals.
LEMMA TotalExists ==
  ASSUME NEW n \in Nat, NEW a \in [1..n -> Nat]
  PROVE  \E f \in [0..n -> Nat] : IsTotal(f, a, n)
<1> DEFINE S == {k \in 0..n : \E f \in [0..k -> Nat] : IsTotal(f, a, k)}
<1>1. 0 \in S
  <2>1. [i \in 0..0 |-> 0] \in [0..0 -> Nat] /\ IsTotal([i \in 0..0 |-> 0], a, 0)
    BY DEF IsTotal
  <2> QED BY <2>1
<1>2. ASSUME NEW k \in 1..n, k - 1 \in S PROVE k \in S
  <2>1. PICK f \in [0..(k - 1) -> Nat] : IsTotal(f, a, k - 1)
    BY <1>2
  <2> DEFINE g == [i \in 0..k |-> IF i = k THEN f[k - 1] + a[k] ELSE f[i]]
  <2>2. f[k - 1] \in Nat /\ a[k] \in Nat
    OBVIOUS
  <2>3. \A i \in 0..k : i # k => i \in 0..(k - 1)
    OBVIOUS
  <2>4. g \in [0..k -> Nat]
    BY <2>2, <2>3
  <2>5. ASSUME NEW i \in 0..k PROVE g[i] = IF i = 0 THEN 0 ELSE g[i - 1] + a[i]
    <3>1. CASE i = k
      BY <3>1
    <3>2. CASE i # k
      <4>1. i \in 0..(k - 1) /\ g[i] = f[i] /\ (i # 0 => g[i - 1] = f[i - 1])
        BY <2>3, <3>2
      <4> QED BY <2>1, <4>1 DEF IsTotal
    <3> QED BY <3>1, <3>2
  <2> HIDE DEF g
  <2>6. IsTotal(g, a, k)
    BY <2>5 DEF IsTotal
  <2> QED BY <2>4, <2>6
<1> HIDE DEF S
<1>3. S \in SUBSET (0..n)
  BY DEF S
<1>4. S = 0..n
  BY <1>1, <1>2, <1>3, Inductive
<1>5. n \in S
  BY <1>4
<1> QED BY <1>5 DEF S

\* They are naturals.
LEMMA TotalIsNatural ==
  ASSUME NEW n \in Nat, NEW a \in [1..n -> Nat], NEW f, IsTotal(f, a, n)
  PROVE  f[n] \in Nat
<1> DEFINE S == {k \in 0..n : f[k] \in Nat}
<1>1. 0 \in S
  BY DEF IsTotal
<1>2. ASSUME NEW k \in 1..n, k - 1 \in S PROVE k \in S
  <2>1. f[k - 1] \in Nat /\ a[k] \in Nat
    BY <1>2
  <2>2. k \in 0..n /\ k # 0 /\ f[k] = f[k - 1] + a[k]
    BY DEF IsTotal
  <2> QED BY <2>1, <2>2
<1> HIDE DEF S
<1>3. S = 0..n
  <2>1. S \in SUBSET (0..n)
    BY DEF S
  <2> QED BY <1>1, <1>2, <2>1, Inductive
<1>4. n \in S
  BY <1>3
<1> QED BY <1>4 DEF S

\* So what is credited for the events of a transaction is a natural number.
LEMMA TransferredIsNatural ==
  ASSUME NEW coin \in DbCoins, NEW logs \in Seq(Events)
  PROVE  Transferred(coin, logs) \in Nat
<1> DEFINE n == Len(logs)
           a == [i \in 1..n |-> AmountIn(coin, logs[i])]
           Amounts(f) == [i \in 0..n |->
                             IF i = 0 THEN 0 ELSE f[i - 1] + AmountIn(coin, logs[i])]
           amount == CHOOSE f : f = Amounts(f)
<1>1. n \in Nat
  OBVIOUS
<1>2. a \in [1..n -> Nat]
  <2>1. ASSUME NEW i \in 1..n PROVE AmountIn(coin, logs[i]) \in Nat
    <3>1. logs[i] \in Events
      OBVIOUS
    <3> QED BY <3>1 DEF AmountIn, Events
  <2> QED BY <2>1
<1>3. \E f : f = Amounts(f)
  <2>1. PICK f \in [0..n -> Nat] : IsTotal(f, a, n)
    <3> HIDE DEF a, n
    <3> QED BY <1>1, <1>2, TotalExists
  <2>2. \A i \in 0..n : f[i] = Amounts(f)[i]
    BY <2>1 DEF IsTotal
  <2>3. f = Amounts(f)
    BY <2>2
  <2> QED BY <2>3
<1>4. amount = Amounts(amount)
  <2> HIDE DEF Amounts
  <2> QED BY <1>3
<1>5. IsTotal(amount, a, n)
  <2> HIDE DEF amount
  <2> QED BY <1>4 DEF IsTotal
<1>6. amount[n] \in Nat
  <2> HIDE DEF amount, a, n
  <2> QED BY <1>1, <1>2, <1>5, TotalIsNatural
<1> QED BY <1>6 DEF Transferred

\* The variables keep their types, whatever their widths and however many events a
\* transaction has.
THEOREM TermsTypeCorrect == Spec => []TypeOK
<1> DEFINE Amounts == row.actualAmount \in Nat
<1>1. ASSUME Init PROVE Amounts
  BY <1>1 DEF Init, NoRow
<1>2. ASSUME TInv, Amounts, [Next]_vars PROVE Amounts'
  <2>1. RowShape(row)
    BY <1>2 DEF TInv, Shape
  <2>2. CASE ConfirmPendingMempool
    <3>1. row'.actualAmount = AmountOf
      BY <2>1, <2>2 DEF ConfirmPendingMempool, RowShape
    <3>2. payment \in ChainTxs
      BY <1>2, <2>2 DEF ConfirmPendingMempool, HandedEnds, TInv, Shape, OnChain
    <3>3. payment.value \in Nat /\ payment.logs \in Seq(Events)
      BY <3>2 DEF ChainTxs
    <3>4. row.coin \in Tokens => Transferred(row.coin, payment.logs) \in Nat
      <4>1. Tokens \subseteq DbCoins
        BY DEF Tokens, TokensOf, DbCoins
      <4> QED BY <3>3, <4>1, TransferredIsNatural
    <3>5. Uint64(payment.value) \in Nat
      BY <3>3, Uint64Value
    <3>6. AmountOf \in Nat
      BY <3>3, <3>4, <3>5
         DEF AmountOf, Credited, VerifyETHBased, VerifyXMR, VerifyBTC
    <3> QED BY <3>1, <3>6
  <2>3. ASSUME NEW q \in Requests,
               RefuseInvoice(q) \/ \E p \in Configured : CreateInvoice(q, p)
        PROVE  Amounts'
    BY <1>2, <2>3 DEF RefuseInvoice, CreateInvoice
  <2>4. CASE Decide \/ Reject \/ FireTimer
    <3>1. \/ row' = row \/ \E st \in Statuses : row' = [row EXCEPT !.status = st]
          \/ row' = [row EXCEPT !.status = "PENDING", !.actualAmount = 0, !.tx = FALSE]
      BY <2>4 DEF Decide, Reject, FireTimer, Statuses
    <3>2. CASE row' = row \/ \E st \in Statuses : row' = [row EXCEPT !.status = st]
      BY <1>2, <2>1, <3>2 DEF RowShape
    <3>3. CASE row' = [row EXCEPT !.status = "PENDING", !.actualAmount = 0, !.tx = FALSE]
      BY <2>1, <3>3 DEF RowShape
    <3> QED BY <3>1, <3>2, <3>3
  <2>5. CASE \/ UpdateCryptoKeys \/ UNCHANGED vars
             \/ \E t \in Payments : Send(t)
             \/ Mine \/ NewBlock \/ Reorg \/ Drop \/ SeeDoubleSpend
             \/ HandOver \/ NotEnough \/ LoseDelivery
             \/ Asking \/ TransactionReceipt \/ CallFails
    <3>1. row' = row
      BY <2>5
         DEF UpdateCryptoKeys, vars, Send, Mine, NewBlock, Reorg, Drop, SeeDoubleSpend,
             Asking, GetTransactions, GetLastBlockHeight, TransactionReceipt, CallFails,
             HandOver, NotEnough, LoseDelivery
    <3> QED BY <1>2, <3>1
  <2> QED BY <1>2, <2>2, <2>3, <2>4, <2>5 DEF Next
<1>3. ASSUME TInv, Amounts PROVE TypeOK
  <2>1. row \in [processor : Processors \cup {""}, coin : DbCoins \cup {""},
                 requiredAmount : Nat, actualAmount : Nat,
                 confirmationsRequired : (-Half16)..(Half16 - 1), lifetime : Int,
                 status : Statuses, tx : BOOLEAN]
    BY <1>3 DEF TInv, Shape, RowShape
  <2> QED BY <1>3, <2>1 DEF TInv, Shape, TypeOK
<1> HIDE DEF Amounts
<1> QED BY <1>1, <1>2, <1>3, TermsInvariant, PTL DEF Spec

-----------------------------------------------------------------------------
(* PaidInCoin adds the events up in any order, the loop one after another.  *)

\* The running totals of a sequence have one end.
LEMMA TotalsAgree ==
  ASSUME NEW n \in Nat, NEW a, NEW f, NEW g, IsTotal(f, a, n), IsTotal(g, a, n)
  PROVE  f[n] = g[n]
<1> DEFINE S == {k \in 0..n : f[k] = g[k]}
<1>1. 0 \in S
  BY DEF IsTotal
<1>2. ASSUME NEW k \in 1..n, k - 1 \in S PROVE k \in S
  <2>1. k \in 0..n /\ k # 0 /\ f[k] = f[k - 1] + a[k] /\ g[k] = g[k - 1] + a[k]
    BY DEF IsTotal
  <2>2. f[k - 1] = g[k - 1]
    BY <1>2
  <2> QED BY <2>1, <2>2
<1>3. S \in SUBSET (0..n)
  OBVIOUS
<1> HIDE DEF S
<1>4. S = 0..n
  BY <1>1, <1>2, <1>3, Inductive
<1>5. n \in S
  BY <1>4
<1> QED BY <1>5 DEF S

\* Sequence w with 0 at the places that are not in s.
Kept(w, s, n) == [i \in 1..n |-> IF i \in s THEN w[i] ELSE 0]

LEMMA KeptTotal ==
  ASSUME NEW n \in Nat, NEW w \in [1..n -> Nat], NEW s
  PROVE  \E f \in [0..n -> Nat] : IsTotal(f, Kept(w, s, n), n)
<1>1. Kept(w, s, n) \in [1..n -> Nat]
  BY DEF Kept
<1> QED BY <1>1, TotalExists

LEMMA NothingKept ==
  ASSUME NEW n \in Nat, NEW w, NEW f, IsTotal(f, Kept(w, {}, n), n)
  PROVE  f[n] = 0
<1> DEFINE zero == [i \in 0..n |-> 0]
<1>1. IsTotal(zero, Kept(w, {}, n), n)
  BY DEF IsTotal, Kept
<1>2. f[n] = zero[n]
  <2> HIDE DEF zero
  <2> QED BY <1>1, TotalsAgree
<1> QED BY <1>2

\* One place less takes what is there from the total.
LEMMA OneLess ==
  ASSUME NEW n \in Nat, NEW w \in [1..n -> Nat], NEW s \in SUBSET (1..n), NEW x \in s,
         NEW f \in [0..n -> Nat], NEW g \in [0..n -> Nat],
         IsTotal(f, Kept(w, s, n), n), IsTotal(g, Kept(w, s \ {x}, n), n)
  PROVE  f[n] = w[x] + g[n]
<1> DEFINE S == {k \in 0..n : f[k] = g[k] + (IF x <= k THEN w[x] ELSE 0)}
<1>1. x \in 1..n /\ w[x] \in Nat
  OBVIOUS
<1>2. 0 \in S
  <2>1. f[0] = 0 /\ g[0] = 0 /\ ~(x <= 0)
    BY <1>1 DEF IsTotal
  <2> QED BY <2>1
<1>3. ASSUME NEW k \in 1..n, k - 1 \in S PROVE k \in S
  <2> DEFINE a == Kept(w, s, n)
             b == Kept(w, s \ {x}, n)
  <2>0. k \in Nat /\ k \in 0..n /\ k # 0 /\ k - 1 \in 0..n /\ g[k - 1] \in Nat /\ w[k] \in Nat
    OBVIOUS
  <2>1. f[k] = f[k - 1] + a[k] /\ g[k] = g[k - 1] + b[k]
    <3>1. IsTotal(f, a, n) /\ IsTotal(g, b, n)
      OBVIOUS
    <3> HIDE DEF a, b
    <3> QED BY <2>0, <3>1 DEF IsTotal
  <2>2. f[k - 1] = g[k - 1] + (IF x <= k - 1 THEN w[x] ELSE 0)
    BY <1>3
  <2>3. CASE k = x
    <3>1. a[k] = w[x] /\ b[k] = 0
      BY <2>3 DEF Kept
    <3>2. f[k - 1] = g[k - 1]
      BY <1>1, <2>0, <2>2, <2>3
    <3> HIDE DEF a, b
    <3> QED BY <1>1, <2>0, <2>1, <2>3, <3>1, <3>2
  <2>4. CASE k # x
    <3>1. a[k] = b[k] /\ a[k] \in Nat
      BY <2>0, <2>4 DEF Kept
    <3>2. x <= k <=> x <= k - 1
      <4>1. x \in Nat /\ k \in Nat /\ k # x
        BY <1>1, <2>0, <2>4
      <4>2. x <= k => x <= k - 1
        BY <4>1
      <4>3. x <= k - 1 => x <= k
        BY <4>1
      <4> QED BY <4>2, <4>3
    <3> HIDE DEF a, b
    <3>3. CASE x <= k
      <4>1. f[k - 1] = g[k - 1] + w[x]
        BY <2>2, <3>2, <3>3
      <4>2. f[k] = g[k] + w[x]
        <5>1. g[k - 1] \in Nat /\ w[x] \in Nat /\ a[k] \in Nat
          BY <1>1, <2>0, <3>1
        <5>2. (g[k - 1] + w[x]) + a[k] = (g[k - 1] + a[k]) + w[x]
          BY <5>1, SMTT(30)
        <5> QED BY <2>1, <3>1, <4>1, <5>2
      <4> QED BY <2>0, <3>3, <4>2
    <3>4. CASE ~(x <= k)
      BY <1>1, <2>0, <2>1, <2>2, <3>1, <3>2, <3>4
    <3> QED BY <3>3, <3>4
  <2> QED BY <2>3, <2>4
<1>4. S \in SUBSET (0..n)
  OBVIOUS
<1>5. n \in S
  <2> HIDE DEF S
  <2>1. S = 0..n
    BY <1>2, <1>3, <1>4, Inductive
  <2> QED BY <2>1
<1>6. f[n] = g[n] + w[x]
  BY <1>1, <1>5
<1> QED BY <1>1, <1>6

\* What MapThenSumSet computes: an element at a time, CHOOSE telling which.
Pick(s) == CHOOSE x \in s : TRUE

Summed(h, w, S) == [s \in SUBSET S |-> IF s = {} THEN 0 ELSE w[Pick(s)] + h[s \ {Pick(s)}]]

LEMMA PickIsElement == \A s : s # {} => Pick(s) \in s
BY DEF Pick

\* There is such a function, the totals of what is kept.
LEMMA SummedExists ==
  ASSUME NEW n \in Nat, NEW w \in [1..n -> Nat], NEW S \in SUBSET (1..n)
  PROVE  \E h : h = Summed(h, w, S)
<1> DEFINE Tot(s) == CHOOSE f \in [0..n -> Nat] : IsTotal(f, Kept(w, s, n), n)
           h == [s \in SUBSET S |-> Tot(s)[n]]
<1>1. \A s : Tot(s) \in [0..n -> Nat] /\ IsTotal(Tot(s), Kept(w, s, n), n)
  BY KeptTotal
<1> HIDE DEF Tot
<1>2. ASSUME NEW s \in SUBSET S
      PROVE  h[s] = IF s = {} THEN 0 ELSE w[Pick(s)] + h[s \ {Pick(s)}]
  <2>1. CASE s = {}
    BY <1>1, <2>1, NothingKept
  <2>2. CASE s # {}
    <3>1. Pick(s) \in s /\ s \in SUBSET (1..n)
      BY <2>2, PickIsElement
    <3>2. PICK x \in s : x = Pick(s)
      BY <3>1
    <3>3. /\ Tot(s) \in [0..n -> Nat] /\ IsTotal(Tot(s), Kept(w, s, n), n)
          /\ Tot(s \ {x}) \in [0..n -> Nat] /\ IsTotal(Tot(s \ {x}), Kept(w, s \ {x}, n), n)
      BY <1>1
    <3>4. Tot(s)[n] = w[x] + Tot(s \ {x})[n]
      BY <3>1, <3>3, OneLess
    <3> QED BY <2>2, <3>2, <3>4
  <2> QED BY <2>1, <2>2
<1>3. h = Summed(h, w, S)
  BY <1>2 DEF Summed
<1> QED BY <1>3

\* And it is the only one: the order of CHOOSE does not matter.
LEMMA SummedIsTotal ==
  ASSUME NEW n \in Nat, NEW w \in [1..n -> Nat], NEW S \in SUBSET (1..n),
         NEW h, h = Summed(h, w, S),
         NEW f \in [0..n -> Nat], IsTotal(f, Kept(w, S, n), n)
  PROVE  h[S] = f[n]
<1> DEFINE Good(s) == \A g \in [0..n -> Nat] : IsTotal(g, Kept(w, s, n), n) => h[s] = g[n]
<1>1. \A s \in SUBSET S : IsFiniteSet(s) /\ Cardinality(s) \in Nat
  <2>1. IsFiniteSet(1..n)
    BY FS_Interval
  <2>2. IsFiniteSet(S)
    BY <2>1, FS_Subset
  <2> QED BY <2>2, FS_Subset, FS_CardinalityType
<1>2. \A s \in SUBSET S : h[s] = IF s = {} THEN 0 ELSE w[Pick(s)] + h[s \ {Pick(s)}]
  BY DEF Summed
<1>3. ASSUME NEW s \in SUBSET S, ~Good(s),
             \A t \in SUBSET S : ~Good(t) => Cardinality(s) <= Cardinality(t)
      PROVE  FALSE
  <2>1. PICK g \in [0..n -> Nat] : IsTotal(g, Kept(w, s, n), n) /\ h[s] # g[n]
    BY <1>3
  <2>2. s # {}
    BY <1>2, <2>1, NothingKept
  <2>3. Pick(s) \in s /\ s \in SUBSET (1..n) /\ s \ {Pick(s)} \in SUBSET S
    BY <2>2, PickIsElement
  <2>4. Good(s \ {Pick(s)})
    <3> HIDE DEF Good
    <3>1. Cardinality(s \ {Pick(s)}) = Cardinality(s) - 1
      BY <1>1, <2>3, FS_RemoveElement
    <3>2. Cardinality(s) \in Nat
      BY <1>1
    <3>3. ~(Cardinality(s) <= Cardinality(s \ {Pick(s)}))
      BY <3>1, <3>2
    <3> QED BY <1>3, <2>3, <3>3
  <2>5. PICK e \in [0..n -> Nat] : IsTotal(e, Kept(w, s \ {Pick(s)}, n), n)
    BY KeptTotal
  <2>6. g[n] = w[Pick(s)] + e[n]
    BY <2>1, <2>3, <2>5, OneLess
  <2>7. h[s \ {Pick(s)}] = e[n]
    BY <2>4, <2>5
  <2> QED BY <1>2, <2>1, <2>2, <2>6, <2>7
<1>4. Good(S)
  <2> HIDE DEF Good
  <2> SUFFICES ASSUME ~Good(S) PROVE FALSE
    OBVIOUS
  <2> DEFINE Sizes == {Cardinality(s) : s \in {t \in SUBSET S : ~Good(t)}}
  <2>1. Sizes \subseteq Nat /\ Sizes # {}
    BY <1>1
  <2>2. PICK c \in Sizes : \A d \in Sizes : c <= d
    <3> HIDE DEF Sizes
    <3> QED BY <2>1, Smallest
  <2>3. PICK s \in SUBSET S : ~Good(s) /\ c = Cardinality(s)
    BY <2>2
  <2>4. \A t \in SUBSET S : ~Good(t) => Cardinality(s) <= Cardinality(t)
    BY <2>2, <2>3
  <2> QED BY <1>3, <2>3, <2>4
<1> QED BY <1>4

\* What is credited for the events of a transaction is what they pay in the coin.
LEMMA TransferredIsSum ==
  ASSUME NEW coin \in DbCoins, NEW logs \in Seq(Events)
  PROVE  Transferred(coin, logs) =
            MapThenSumSet(LAMBDA i : logs[i].amount,
                          {i \in DOMAIN logs : logs[i].coin = coin /\ logs[i].paid})
<1> DEFINE n == Len(logs)
           w == [i \in 1..n |-> logs[i].amount]
           S == {i \in DOMAIN logs : logs[i].coin = coin /\ logs[i].paid}
           h == CHOOSE g : g = Summed(g, w, S)
<1>1. /\ n \in Nat /\ DOMAIN logs = 1..n /\ S \in SUBSET (1..n)
      /\ \A i \in 1..n : logs[i] \in Events
  OBVIOUS
<1>2. w \in [1..n -> Nat]
  BY <1>1 DEF Events
<1>3. h = Summed(h, w, S)
  <2>1. \E g : g = Summed(g, w, S)
    <3> HIDE DEF w, S, n
    <3> QED BY <1>1, <1>2, SummedExists
  <2> HIDE DEF w, S
  <2> QED BY <2>1
<1>4. PICK f \in [0..n -> Nat] : IsTotal(f, Kept(w, S, n), n)
  <2> HIDE DEF w, S, n
  <2> QED BY <1>1, <1>2, KeptTotal
<1>5. h[S] = f[n]
  <2>1. n \in Nat /\ w \in [1..n -> Nat] /\ S \in SUBSET (1..n)
    BY <1>1, <1>2
  <2>2. f \in [0..n -> Nat] /\ IsTotal(f, Kept(w, S, n), n)
    BY <1>4
  <2> HIDE DEF h, w, S, n
  <2>3. \A j : j = Summed(j, w, S) =>
            \A e \in [0..n -> Nat] : IsTotal(e, Kept(w, S, n), n) => j[S] = e[n]
    BY <2>1, SummedIsTotal, Zenon
  <2> QED BY <1>3, <2>2, <2>3
<1>6. MapThenSumSet(LAMBDA i : logs[i].amount, S) = h[S]
  <2> DEFINE Step(g) == [s \in SUBSET S |->
                            IF s = {} THEN 0
                            ELSE logs[CHOOSE x \in s : TRUE].amount
                                    + g[s \ {CHOOSE x \in s : TRUE}]]
  <2>1. MapThenSumSet(LAMBDA i : logs[i].amount, S) = (CHOOSE g : g = Step(g))[S]
    <3> HIDE DEF S
    <3> QED BY Zenon DEF MapThenSumSet, MapThenFoldSet
  <2>2. \A g : Step(g) = Summed(g, w, S)
    <3> TAKE g
    <3>1. \A s \in SUBSET S : s # {} => w[Pick(s)] = logs[Pick(s)].amount
      BY <1>1, PickIsElement
    <3> HIDE DEF w, S
    <3> QED BY <3>1 DEF Summed, Pick
  <2> HIDE DEF Step, w, S
  <2> QED BY <2>1, <2>2
<1>7. Transferred(coin, logs) = f[n]
  <2> DEFINE Amounts(g) == [i \in 0..n |->
                               IF i = 0 THEN 0 ELSE g[i - 1] + AmountIn(coin, logs[i])]
             amount == CHOOSE g : g = Amounts(g)
  <2>1. \A i \in 1..n : Kept(w, S, n)[i] = AmountIn(coin, logs[i])
    BY <1>1 DEF Kept, AmountIn, TransferOf
  <2> HIDE DEF w, S
  <2>2. f = Amounts(f)
    <3>1. \A i \in 0..n : f[i] = Amounts(f)[i]
      BY <1>1, <1>4, <2>1 DEF IsTotal
    <3> QED BY <3>1
  <2>3. amount = Amounts(amount)
    <3> HIDE DEF Amounts
    <3> QED BY <2>2
  <2>4. IsTotal(amount, Kept(w, S, n), n)
    <3> HIDE DEF amount
    <3> QED BY <1>1, <2>1, <2>3 DEF IsTotal
  <2>5. amount[n] = f[n]
    <3> HIDE DEF amount, n
    <3> QED BY <1>1, <1>4, <2>4, TotalsAgree
  <2> QED BY <2>5 DEF Transferred
<1> QED BY <1>5, <1>6, <1>7

\* What an invoice of a token is credited for the events of its transaction.
TokenCreditIsExact ==
    row.tx /\ row.coin \in Tokens /\ payment.logs # <<>> =>
        row.actualAmount = Transferred(row.coin, payment.logs)

\* Only ConfirmPendingMempool credits, it does so once, and what the chain does later to
\* the transaction leaves its events as they are.
LEMMA TokenStep ==
  ASSUME TInv, TokenCreditIsExact, [Next]_vars
  PROVE  TokenCreditIsExact'
<1>1. CASE ConfirmPendingMempool
  <2>1. RowShape(row)
    BY DEF TInv, Shape
  <2>2. /\ row'.actualAmount = AmountOf /\ row'.coin = row.coin
        /\ payment' = payment /\ handed # {}
    BY <1>1, <2>1 DEF ConfirmPendingMempool, HandedEnds, RowShape, chain
  <2>3. SUFFICES ASSUME row.coin \in Tokens, payment.logs # <<>>
                 PROVE  AmountOf = Transferred(row.coin, payment.logs)
    BY <2>2 DEF TokenCreditIsExact
  <2>4. row.processor \in {"ETH", "BNB"}
    <3>1. Accepted
      BY <1>1, RowIsAccepted DEF ConfirmPendingMempool, Enough
    <3>2. row.processor \in Processors /\ SupportsCoin(row.processor, row.coin)
      BY <3>1, TermsAssumption DEF TInv, Terms
    <3>3. row.coin \notin Processors
      BY <2>3 DEF Tokens, TokensOf, ERC20, BEP20, Processors
    <3> QED BY <3>2, <3>3 DEF SupportsCoin, TokensOf
  <2>5. payment.ok
    BY <2>2, <2>4 DEF TInv, OnChain, TwoCalls
  <2> QED BY <2>3, <2>4, <2>5 DEF AmountOf, Credited, VerifyETHBased
<1>2. CASE \E t \in Payments : Send(t)
  <2>1. row' = row /\ ~row.tx
    BY <1>2 DEF Send, TInv, OnChain
  <2> QED BY <2>1 DEF TokenCreditIsExact
<1>3. CASE SeeDoubleSpend
  <2>1. row' = row /\ payment' = [payment EXCEPT !.ok = FALSE] /\ payment \in ChainTxs
    BY <1>3, TermsAssumption DEF SeeDoubleSpend, TInv, Shape, OnChain
  <2>2. payment'.logs = payment.logs
    BY <2>1 DEF ChainTxs
  <2> QED BY <2>1, <2>2 DEF TokenCreditIsExact
<1>4. ASSUME NEW q \in Requests,
             RefuseInvoice(q) \/ \E p \in Configured : CreateInvoice(q, p)
      PROVE  TokenCreditIsExact'
  BY <1>4 DEF RefuseInvoice, CreateInvoice, chain, TokenCreditIsExact
<1>5. CASE Decide \/ Reject \/ FireTimer
  <2>1. \/ row' = row \/ \E st \in Statuses : row' = [row EXCEPT !.status = st]
        \/ row' = [row EXCEPT !.status = "PENDING", !.actualAmount = 0, !.tx = FALSE]
    BY <1>5 DEF Decide, Reject, FireTimer, Statuses
  <2>2. RowShape(row) /\ payment' = payment
    BY <1>5 DEF Decide, Reject, FireTimer, chain, TInv, Shape
  <2>3. \/ ~row'.tx
        \/ row'.tx = row.tx /\ row'.coin = row.coin /\ row'.actualAmount = row.actualAmount
    <3>1. row' = [row EXCEPT !.status = "PENDING", !.actualAmount = 0, !.tx = FALSE]
            => ~row'.tx
      BY <2>2 DEF RowShape
    <3> QED BY <2>1, <2>2, <3>1, StatusStep DEF SameButStatus
  <2> QED BY <2>2, <2>3 DEF TokenCreditIsExact
<1>6. CASE \/ UpdateCryptoKeys \/ Mine \/ NewBlock \/ Reorg \/ Drop
           \/ HandOver \/ NotEnough \/ LoseDelivery
           \/ Asking \/ TransactionReceipt \/ CallFails \/ UNCHANGED vars
  <2>1. UNCHANGED <<row, payment>>
    BY <1>6
       DEF UpdateCryptoKeys, Mine, NewBlock, Reorg, Drop, Asking, GetTransactions,
           GetLastBlockHeight, TransactionReceipt, CallFails, HandOver, NotEnough,
           LoseDelivery, vars, chain
  <2> QED BY <2>1 DEF TokenCreditIsExact
<1> QED BY <1>1, <1>2, <1>3, <1>4, <1>5, <1>6 DEF Next

\* An invoice is credited no more than its transaction pays in its coin, however many
\* events there are and in whatever order, but for the transactions without events that
\* pay for a token.
THEOREM CreditsArePaid == Spec => []CreditedIsPaid
<1>1. ASSUME Init PROVE TokenCreditIsExact
  BY <1>1 DEF Init, NoRow, TokenCreditIsExact
<1>2. TInv /\ TokenCreditIsExact /\ [Next]_vars => TokenCreditIsExact'
  BY TokenStep
<1>3. ASSUME TInv, TokenCreditIsExact PROVE CreditedIsPaid
  <2>1. SUFFICES ASSUME row.tx, row.coin \in Tokens, payment.logs # <<>>
                 PROVE  row.actualAmount <= PaidInCoin
    BY <1>3 DEF TInv, NativeCreditedIsPaid, CreditedIsPaid, PaidInCoin
  <2>2. payment.logs \in Seq(Events) /\ row.coin \in DbCoins
    BY <1>3, <2>1, TermsAssumption DEF TInv, Shape, OnChain, ChainTxs, Tokens, TokensOf, DbCoins
  <2>3. PaidInCoin = MapThenSumSet(LAMBDA i : payment.logs[i].amount,
                                   {i \in DOMAIN payment.logs :
                                        payment.logs[i].coin = row.coin
                                            /\ payment.logs[i].paid})
    BY <2>1 DEF PaidInCoin
  <2>4. Transferred(row.coin, payment.logs) = PaidInCoin
    BY <2>2, <2>3, TransferredIsSum
  <2>5. Transferred(row.coin, payment.logs) \in Nat
    BY <2>2, TransferredIsNatural
  <2> QED BY <1>3, <2>1, <2>4, <2>5 DEF TokenCreditIsExact
<1> QED BY <1>1, <1>2, <1>3, TermsInvariant, PTL DEF Spec
=============================================================================
