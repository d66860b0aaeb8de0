--------------------------- MODULE MCInvoiceRecovery ---------------------------
(* Instances of InvoiceRecovery for TLC.                                    *)
EXTENDS InvoiceRecovery, TLC

\* Every transaction pays every address enough.
AllPay == [t \in Txs |-> Addresses]

\* Only one of the transactions pays anything.
OnePays == [t \in Txs |-> IF t = CHOOSE u \in Txs : TRUE THEN Addresses ELSE {}]
=============================================================================
