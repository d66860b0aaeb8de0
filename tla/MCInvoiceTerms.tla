------------------------------ MODULE MCInvoiceTerms ------------------------------
(* Instances of InvoiceTerms for TLC: Half16 = 4, Mod32 = 16, Mod64 = 32.   *)
EXTENDS InvoiceTerms

Asked(coin, amount, conf, timeout) ==
    [coin |-> coin, amount |-> amount, confirmations |-> conf, timeout |-> timeout]

\* Every coin once, and a coin of each kind with confirmations on both sides of what
\* int16 holds, a timeout that wraps around, an amount of nothing and one below it.
MCRequests ==
    {Asked(c, 2, 1, 1) : c \in PbCoins \cup {"unknown"}}
    \cup {Asked("BTC", 2, n, 1) : n \in {0, 2, 6, 8}}
    \cup {Asked("XMR", 2, 2, 1), Asked("ETH", 2, 0, 1), Asked("ETH", 2, 6, 1)}
    \cup {Asked("BTC", -1, 0, 0), Asked("BTC", 0, 0, 20), Asked("BTC", 3, 0, 20)}

Tx(ok, value, logs) == [ok |-> ok, value |-> value, logs |-> logs]
Log(coin, paid, amount) == [coin |-> coin, paid |-> paid, amount |-> amount]

\* Enough, or too little if more is asked for; more than 2^64; a failed one; a token in two transfers, two
\* tokens one of which goes elsewhere, and coins sent along with an event.
MCPayments ==
    {Tx(TRUE, 2, <<>>), Tx(TRUE, 33, <<>>), Tx(FALSE, 2, <<>>),
     Tx(TRUE, 0, <<Log("USDT_ERC20", TRUE, 1), Log("USDT_ERC20", TRUE, 1)>>),
     Tx(TRUE, 0, <<Log("USDT_ERC20", FALSE, 2), Log("USDC_ERC20", TRUE, 2)>>),
     Tx(TRUE, 2, <<Log("BSC-USD_BEP20", FALSE, 2)>>)}
=============================================================================
