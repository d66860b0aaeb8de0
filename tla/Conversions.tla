------------------------------- MODULE Conversions -------------------------------
(***************************************************************************)
(* What the service does to the terms of an invoice on their way from the  *)
(* request to the row of the database and back to the clients              *)
(* (internal/util/mapping.go), which processor serves a coin               *)
(* (internal/processor/main.go), and how much of a transaction it credits  *)
(* to an invoice (verify...TxHandler of internal/processor).               *)
(*                                                                         *)
(* A coin is its name; a name that is not in PbCoins stands for a number   *)
(* that CoinType of crypto.proto does not have.  An amount is a number of  *)
(* the smallest units, where the code has a float64.                       *)
(***************************************************************************)
EXTENDS Integers, SequencesExt

CONSTANTS
    Half16,         \* 2^15
    Mod32,          \* 2^32
    Mod64,          \* 2^64
    Second,         \* time.Second
    MinSyncTimeout  \* MIN_SYNC_TIMEOUT

ASSUME WidthAssumption ==
    /\ Half16 \in Nat \ {0} /\ Mod32 \in Nat /\ Mod64 \in Nat
    /\ Half16 < Mod32 /\ Mod32 < Mod64
    /\ Second \in Nat \ {0} /\ MinSyncTimeout \in Nat

-----------------------------------------------------------------------------
(* Coins                                                                   *)

ERC20 == {"USDT_ERC20", "USDC_ERC20", "DAI_ERC20", "WBTC_ERC20", "UNI_ERC20",
          "LINK_ERC20", "AAVE_ERC20", "CRV_ERC20", "MATIC_ERC20", "SHIB_ERC20",
          "BNB_ERC20", "ATOM_ERC20", "ARB_ERC20"}

\* The BEP20 tokens that have one name in the protocol and in the database.
BEP20 == {"USDC_BEP20", "DAI_BEP20", "BUSD_BEP20", "WBTC_BEP20", "BTCB_BEP20",
          "UNI_BEP20", "LINK_BEP20", "AAVE_BEP20", "MATIC_BEP20", "SHIB_BEP20",
          "ATOM_BEP20", "ARB_BEP20", "ETH_BEP20", "XRP_BEP20", "ADA_BEP20",
          "TRX_BEP20", "DOGE_BEP20", "LTC_BEP20", "BCH_BEP20", "TWT_BEP20",
          "AVAX_BEP20", "CAKE_BEP20"}

Native == {"XMR", "BTC", "LTC", "ETH", "TON", "BNB"}

PbCoins == Native \cup ERC20 \cup BEP20 \cup {"BSCUSD_BEP20"}
DbCoins == Native \cup ERC20 \cup BEP20 \cup {"BSC-USD_BEP20"}

\* Slip: the case of BSC-USD is missing, so that no coin of the protocol is returned.
SameName(coin) == IF coin \in PbCoins THEN coin ELSE "unknown"

\* The empty name, which no processor supports, goes with the error.
PbCoinToDbCoin(coin) ==
    IF coin = "BSCUSD_BEP20" THEN "BSC-USD_BEP20"
    ELSE IF coin \in PbCoins THEN coin ELSE ""

\* MaxInt32, which is no coin of the protocol, goes with the error.
DbCoinToPbCoin(coin) ==
    IF coin = "BSC-USD_BEP20" THEN "BSCUSD_BEP20"
    ELSE IF coin \in DbCoins THEN coin ELSE "unknown"

-----------------------------------------------------------------------------
(* Integers                                                                *)

Uint32(n) == n % Mod32
Uint64(n) == n % Mod64

\* Slip: the number as it is, in a column that cannot hold it.
Unconverted(n) == n

Int16(n) == ((n + Half16) % (2 * Half16)) - Half16
Int64(n)  == ((n + (Mod64 \div 2)) % Mod64) - (Mod64 \div 2)

\* time.Duration(req.Timeout) * time.Second, at least MIN_SYNC_TIMEOUT
Lifetime(timeout) ==
    LET d == Int64(timeout * Second)
    IN  IF d < MinSyncTimeout THEN MinSyncTimeout ELSE d

-----------------------------------------------------------------------------
(* Dispatch                                                                *)

Processors == {"XMR", "BTC", "LTC", "ETH", "BNB"}

\* Slip: one table of tokens for the two chains.
TokensOfBoth(p) == IF p \in {"ETH", "BNB"} THEN ERC20 \cup BEP20 ELSE {}

\* tokenDataETHCompatible, whose table for BNB has no BTCB_BEP20
TokensOf(p) ==
    CASE p = "ETH" -> ERC20
      [] p = "BNB" -> (BEP20 \ {"BTCB_BEP20"}) \cup {"BSC-USD_BEP20"}
      [] OTHER -> {}

SupportsCoin(p, coin) == p = coin \/ coin \in TokensOf(p)

\* The tokens verifyETHBasedTxHandler knows, of either chain.
Tokens == TokensOf("ETH") \cup TokensOf("BNB")

-----------------------------------------------------------------------------
(* The amount credited.  A transaction is seen by what it does for the     *)
(* address of one invoice: `value` is what its outputs, or the transaction *)
(* of an ETH-based chain itself, pay to it; an event of `logs` has the     *)
(* coin of its contract, and `paid` if it is a Transfer to the address.    *)
(*                                                                         *)
(* Amounts are natural numbers of the smallest unit of the coin and their  *)
(* sums are exact.  The code has float64 coins, and adds the transfers of  *)
(* tokens and the outputs of BTC and LTC as such: the rounding, which can  *)
(* leave a sum just below the amount it should make, is left out.          *)

\* Slip: the contract of the event is not looked at.
AnyPaid(coin, log) == log.paid

TransferOf(coin, log) == log.coin = coin /\ log.paid

\* Slip: of several events only the last one counts.
LastTransfer(coin, logs) ==
    FoldLeft(LAMBDA sum, log : IF TransferOf(coin, log) THEN log.amount ELSE sum, 0, logs)

\* What one event adds.
AmountIn(coin, log) == IF TransferOf(coin, log) THEN log.amount ELSE 0

Transferred(coin, logs) ==
    LET amount[i \in 0..Len(logs)] ==
            IF i = 0 THEN 0 ELSE amount[i - 1] + AmountIn(coin, logs[i])
    IN  amount[Len(logs)]

\* A transaction with events pays tokens only; one without them pays its value,
\* whatever the coin of the invoice is.
VerifyETHBased(coin, tx) ==
    IF ~tx.ok THEN 0
    ELSE IF tx.logs # <<>>
    THEN IF coin \in Tokens THEN Transferred(coin, tx.logs) ELSE 0
    ELSE Uint64(tx.value)

\* The outputs of a Monero transaction are found with the view key of the user's
\* keys as they are now.
VerifyXMR(tx, keysChanged) == IF keysChanged THEN 0 ELSE tx.value

\* The outputs of BTC and LTC.
VerifyBTC(tx) == tx.value

Credited(p, coin, tx, keysChanged) ==
    CASE p \in {"ETH", "BNB"} -> VerifyETHBased(coin, tx)
      [] p = "XMR" -> VerifyXMR(tx, keysChanged)
      [] OTHER -> VerifyBTC(tx)

\* IsDoubleSpendSeen; BTC and LTC never see one.
DoubleSpendSeen(p, tx) == p \in {"XMR", "ETH", "BNB"} /\ ~tx.ok

-----------------------------------------------------------------------------
(* Messages                                                                *)

\* The request as the processor sees it.
PbNewInvoiceToProcessorNewInvoice(req) == [req EXCEPT !.coin = PbCoinToDbCoin(req.coin)]

\* The invoice as the clients see it, of what this project's properties tell apart.
DbInvoiceToPbInvoice(row) ==
    [coin |-> DbCoinToPbCoin(row.coin),
     requiredAmount |-> row.requiredAmount,
     actualAmount |-> row.actualAmount,
     confirmationsRequired |-> Uint32(row.confirmationsRequired),
     lifetime |-> row.lifetime,
     status |-> row.status]
=============================================================================
