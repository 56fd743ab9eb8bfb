---------------------------- MODULE MCSettlements ----------------------------
(* A small instance of Settlements.                                        *)
EXTENDS Settlements, MCTransactions
=============================================================================
