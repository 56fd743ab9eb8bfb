------------------------------- MODULE Escrow -------------------------------
(***************************************************************************)
(* What every staked game promises about its money: a room holds a pot,    *)
(* coins go from players into the pot and from the pot to players and      *)
(* nowhere else, and once the room is closed the pot is empty and the room *)
(* moves no coin ever again.                                               *)
(***************************************************************************)
EXTENDS Ledger, Functions

CONSTANT RoomIds

VARIABLES
  pot,      \* pot[r]: the coins room r holds
  closed    \* closed[r]: whether the game of room r is over

escrowVars == <<coin, pot, closed>>

Total == SumFunction(coin) + SumFunction(pot)

EscrowInit ==
  /\ coin = StartCoin
  /\ pot = [r \in RoomIds |-> 0]
  /\ closed = [r \in RoomIds |-> FALSE]

(* Players of room r stake, get their stakes back or are paid out.         *)
Exchange(r) ==
  /\ ~closed[r]
  /\ pot' = [pot EXCEPT ![r] = pot'[r]]
  /\ pot'[r] >= 0
  /\ Total' = Total
  /\ closed' = [closed EXCEPT ![r] = closed'[r]]
  /\ closed'[r] => pot'[r] = 0

EscrowSpec == EscrowInit /\ [][\E r \in RoomIds : Exchange(r)]_escrowVars
=============================================================================
