--------------------------- MODULE InvoiceContract ---------------------------
(***************************************************************************)
(* What an invoice promises its two parties, with no requests in sight: a  *)
(* bill is issued, and then either settled, which moves its amount to the  *)
(* creator in the same instant, or voided, which moves nothing.  Both are  *)
(* final.                                                                  *)
(***************************************************************************)
EXTENDS Ledger

CONSTANTS InvoiceIds, Amounts

VARIABLE bill   \* bill[i]: the bill, or NoBill

contractVars == <<ledgerVars, bill>>

NoBill == [status |-> "none"]

ContractInit ==
  /\ LedgerInit
  /\ bill = [i \in InvoiceIds |-> NoBill]

Issue(i) ==
  /\ bill[i] = NoBill
  /\ \E u \in Users, a \in Amounts :
       bill' = [bill EXCEPT ![i] =
         [status |-> "pending", creator |-> u, amount |-> a]]
  /\ UNCHANGED ledgerVars

Settle(i) ==
  /\ bill[i].status = "pending"
  /\ bill' = [bill EXCEPT ![i].status = "paid"]
  /\ \E payer \in Users :
       /\ coin' = Move(coin, payer, bill[i].creator, bill[i].amount)
       /\ booked' = Row(booked, payer, bill[i].creator, bill[i].amount)

Void(i) ==
  /\ bill[i].status = "pending"
  /\ bill' = [bill EXCEPT ![i].status = "cancelled"]
  /\ UNCHANGED ledgerVars

ContractNext == \E i \in InvoiceIds : Issue(i) \/ Settle(i) \/ Void(i)

ContractSpec == ContractInit /\ [][ContractNext]_contractVars
=============================================================================
