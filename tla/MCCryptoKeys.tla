----------------------------- MODULE MCCryptoKeys -----------------------------
(* Values of CryptoKeys' constants for TLC *)
EXTENDS CryptoKeys

CONSTANTS k1, k2

\* ETH and BNB
OneFamily == [c \in Coins |-> "hex"]

\* One key for both coins; the other key for the first.
FewUpdates == {<<k1, k1>>, <<k2, None>>}
===============================================================================
