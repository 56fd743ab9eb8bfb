----------------------------- MODULE Settlements -----------------------------
(***************************************************************************)
(* SettlementsService.run beside the traffic of Transactions: the users    *)
(* are read in one statement outside the transaction, and the transaction  *)
(* then writes a settlement with one snapshot row per user from what was   *)
(* read, however much has moved since.                                     *)
(***************************************************************************)
EXTENDS Transactions

CONSTANT NoSnapshot   \* nothing read, or nothing settled, yet

VARIABLES
  usersRead,    \* what run has read and not yet written, or NoSnapshot
  settlement    \* the snapshot rows of the last settlement, or NoSnapshot

settlementVars == <<usersRead, settlement>>
allVars == <<vars, settlementVars>>

SettlementsInit ==
  /\ TransactionsInit
  /\ usersRead = NoSnapshot
  /\ settlement = NoSnapshot

(* user.findMany: one statement, so one committed state of the table.      *)
CachedDebts == [u \in Users |->
  [coin |-> coin[u],
   bankDebt |-> IF settlement = NoSnapshot THEN 0 ELSE settlement[u].bankDebt]]
FindUsers == [u \in Users |-> [coin |-> coin[u], bankDebt |-> bankDebt[u]]]

(* One settlementSnapshot row per user read.                               *)
Snapshots(read) == [u \in Users |->
  [coin |-> read[u].coin, bankDebt |-> read[u].bankDebt,
   net |-> read[u].coin - read[u].bankDebt]]

SettleRead ==
  /\ usersRead = NoSnapshot
  /\ usersRead' = FindUsers
  /\ UNCHANGED <<vars, settlement>>

(* A net beyond the Int column rolls the settlement back.                  *)
SettleCommit ==
  /\ usersRead # NoSnapshot
  /\ \A u \in Users : Snapshots(usersRead)[u].net \in Int4
  /\ settlement' = Snapshots(usersRead)
  /\ usersRead' = NoSnapshot
  /\ UNCHANGED vars

SettleFail ==
  /\ usersRead # NoSnapshot
  /\ usersRead' = NoSnapshot
  /\ UNCHANGED <<vars, settlement>>

SettlementsNext ==
  \/ TransactionsNext /\ UNCHANGED settlementVars
  \/ SettleRead
  \/ SettleCommit
  \/ SettleFail

SettlementsSpec == SettlementsInit /\ [][SettlementsNext]_allVars

-----------------------------------------------------------------------------
(* A settlement is a consistent cut of the market: transfers, loans and    *)
(* repayments commit while run waits between its read and its write, and   *)
(* still the nets of its snapshot rows add up to the money the market      *)
(* started with; no transfer is seen on one side only.                     *)
SettlementBalances ==
  settlement # NoSnapshot =>
    SumFunction([u \in Users |-> settlement[u].net]) = SumFunction(StartCoin)
=============================================================================
