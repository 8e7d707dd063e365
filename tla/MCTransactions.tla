--------------------------- MODULE MCTransactions ---------------------------
(* Instances of Transactions for TLC.                                      *)
EXTENDS Transactions, TLC

MCSymmetry == Permutations(Values) \cup Permutations(Txs)
=============================================================================
