--------------------------- MODULE MCTransactions ---------------------------
(* Small instances of Transactions.                                        *)
EXTENDS Transactions, TLC

MCStartCoin == [u \in Users |-> 1]
Symmetry == Permutations(Users) \cup Permutations(Handlers)
=============================================================================
