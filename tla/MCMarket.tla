------------------------------ MODULE MCMarket ------------------------------
(* A small instance of Market.                                             *)
EXTENDS Market, TLC

MCStartCoin == [u \in Users |-> 5]
Symmetry == Permutations(Users) \cup Permutations(Handlers)
              \cup Permutations(InvHandlers) \cup Permutations(ArenaHandlers)
=============================================================================
