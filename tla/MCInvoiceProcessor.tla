--------------------------- MODULE MCInvoiceProcessor ---------------------------
(* Instances of InvoiceProcessor for TLC.                                   *)
EXTENDS InvoiceProcessor, TLC

\* Every transaction pays every address enough.
AllPay == [t \in Txs |-> Addresses]

\* Failures that are reported to the caller; the error of Commit is ignored.
StatementFaults == FaultKinds \ {"createCommit", "commit"}

Symmetry == Permutations(Workers)
=============================================================================
