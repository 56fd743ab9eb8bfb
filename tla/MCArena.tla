------------------------------- MODULE MCArena -------------------------------
(* Small instances of Arena.                                               *)
EXTENDS Arena, TLC

MCStartCoin == [u \in Users |-> 10]
Symmetry == Permutations(Users) \cup Permutations(ArenaHandlers)
              \cup Permutations(RoomIds)
=============================================================================
