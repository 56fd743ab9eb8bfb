------------------------------- MODULE Ledger -------------------------------
(***************************************************************************)
(* The money every component of the market shares: the coin column of the  *)
(* users table and what the rows of the transactions table say about it.   *)
(*                                                                         *)
(* A row of the transactions table is abstracted to what it does to the    *)
(* balances of the users it names: booked[u] is the replay of every        *)
(* committed row, so a component that moves coins without writing the      *)
(* matching row (or the other way round) makes coin and booked drift       *)
(* apart.  Both columns of a row are optional: NoUser stands for null, the *)
(* bank or an escrow.                                                      *)
(***************************************************************************)
EXTENDS Integers, FiniteSets

CONSTANTS
  Users,      \* the users of the table; none is ever deleted
  NoUser,     \* the null of fromUserId and toUserId
  MaxInt,     \* the largest value of an Int column
  StartCoin   \* the balances at the start of the behaviour

ASSUME LedgerAssumption ==
  /\ NoUser \notin Users
  /\ MaxInt \in Nat \ {0}
  /\ StartCoin \in [Users -> 0 .. MaxInt]

(* Sums over the table need it to be finite.                               *)
ASSUME UsersAssumption == IsFiniteSet(Users)

VARIABLES
  coin,       \* coin[u]: users.coin
  booked      \* booked[u]: what the committed rows add up to for u

ledgerVars == <<coin, booked>>

(* Int columns are two's complement: an update that leaves this range      *)
(* raises an error and rolls its transaction back.                         *)
Int4 == -(MaxInt + 1) .. MaxInt

LedgerInit ==
  /\ coin = StartCoin
  /\ booked = [u \in Users |-> 0]

(* Balances b after a credit, a debit, and a payment from one to another.  *)
Credit(b, u, a) == [b EXCEPT ![u] = @ + a]
Debit(b, u, a) == [b EXCEPT ![u] = @ - a]
Move(b, from, to, a) == Credit(Debit(b, from, a), to, a)

(* The effect of one row {fromUserId, toUserId, amount} on the replay.     *)
Row(b, from, to, a) ==
  [u \in Users |-> b[u] - (IF u = from THEN a ELSE 0)
                        + (IF u = to THEN a ELSE 0)]

(* Every balance fits its column.                                          *)
Fits(b) == \A u \in Users : b[u] \in Int4
=============================================================================
