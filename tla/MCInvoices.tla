----------------------------- MODULE MCInvoices -----------------------------
(* Small instances of Invoices.                                            *)
EXTENDS Invoices, TLC

MCStartCoin == [u \in Users |-> 1]
Symmetry == Permutations(Users) \cup Permutations(InvHandlers)
              \cup Permutations(InvoiceIds)
=============================================================================
