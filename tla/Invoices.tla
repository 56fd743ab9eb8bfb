------------------------------ MODULE Invoices ------------------------------
(***************************************************************************)
(* InvoicesService: create, pay, hand over the debt, cancel.               *)
(*                                                                         *)
(* pay, transferInvoiceDebt and cancel each run in one transaction that    *)
(* first reads the invoice (READ COMMITTED: no lock is taken) and writes   *)
(* later.  pay and cancel claim the invoice with a conditional update,     *)
(* which looks at the committed row again; transferInvoiceDebt updates the *)
(* row whatever has become of it.  A request is therefore a chain of read  *)
(* steps and one commit step, interleaved with the other requests.         *)
(***************************************************************************)
EXTENDS Ledger, Sequences, FiniteSetsExt

CONSTANTS
  InvoiceIds,   \* the rows that can be created
  InvHandlers,  \* the invoice requests in flight at once
  Amounts       \* the amounts invoiced

ASSUME InvoicesAssumption == Amounts \subseteq 1 .. MaxInt

(* Bounds on what requests under way can take together need there to be    *)
(* finitely many of them and at least one, and a largest amount.           *)
ASSUME InvoicesLoadAssumption ==
  /\ IsFiniteSet(InvoiceIds) /\ InvoiceIds # {}
  /\ IsFiniteSet(InvHandlers) /\ InvHandlers # {}
  /\ Amounts # {}

VARIABLES
  invoice,    \* invoice[i]: the row, or NoInvoice before it is created
  receipts,   \* receipts[i]: the TRANSFER rows whose note is invoice:i
  invReq      \* invReq[h]: how far the request of h has come

invoiceVars == <<invoice, receipts, invReq>>
vars == <<ledgerVars, invoiceVars>>

NoInvoice == [status |-> "none"]
Idle == [op |-> "idle"]

Rows == [status : {"pending", "paid", "cancelled"},
         creator : Users, payer : Users, amount : Amounts]
Receipts == [from : Users, to : Users, amount : Amounts]

(* payCoin: the invoice is read and the coin is not; pay: both are.        *)
InvoiceRequests ==
  [op : {"payCoin", "pay", "cancel"}, user : Users, id : InvoiceIds]
  \cup {r \in [op : {"assign"}, user : Users, id : InvoiceIds, to : Users] :
          r.to # r.user}

InvoicesInit ==
  /\ LedgerInit
  /\ invoice = [i \in InvoiceIds |-> NoInvoice]
  /\ receipts = [i \in InvoiceIds |-> <<>>]
  /\ invReq = [h \in InvHandlers |-> Idle]

-----------------------------------------------------------------------------
(* ensureInvoiceExists and ensureInvoicePending on the committed row.      *)
Pending(i) == invoice[i].status = "pending"

(* The conditional updates of pay and cancel: the rows they match.         *)
ClaimByStatus(i, u) == Pending(i)
ClaimByPayer(i, u) == invoice[i].payer = u
PayClaims(i, u) == Pending(i) /\ invoice[i].payer = u

CancelClaims(i) == Pending(i)

OwesInvoice(i, u) == Pending(i) /\ invoice[i].payer = u

AnyBalance(u, i) == TRUE
CanPay(u, i) == coin[u] >= invoice[i].amount

NewDebtor(u, to) == to # u

NotMarkedPaid(i) == invoice
MarkedPaid(i) == [invoice EXCEPT ![i].status = "paid"]

Done(h) == invReq' = [invReq EXCEPT ![h] = Idle]

-----------------------------------------------------------------------------
CreateInvoice(i, u, receiver, a) ==
  /\ invoice[i] = NoInvoice
  /\ receiver # u
  /\ invoice' = [invoice EXCEPT ![i] =
       [status |-> "pending", creator |-> u, payer |-> receiver, amount |-> a]]
  /\ UNCHANGED <<ledgerVars, receipts, invReq>>

PayRead(h, u, i) ==
  /\ invReq[h] = Idle
  /\ OwesInvoice(i, u)
  /\ invReq' = [invReq EXCEPT ![h] = [op |-> "payCoin", user |-> u, id |-> i]]
  /\ UNCHANGED <<ledgerVars, invoice, receipts>>

PayReadCoin(h) ==
  LET r == invReq[h] IN
  /\ r.op = "payCoin"
  /\ CanPay(r.user, r.id)
  /\ invReq' = [invReq EXCEPT ![h].op = "pay"]
  /\ UNCHANGED <<ledgerVars, invoice, receipts>>

PayCommit(h) ==
  LET r == invReq[h]
      to == invoice[r.id].creator
      a == invoice[r.id].amount
  IN
  /\ r.op = "pay"
  /\ PayClaims(r.id, r.user)
  /\ invoice' = MarkedPaid(r.id)
  /\ coin' = Move(coin, r.user, to, a)
  /\ Fits(coin')
  /\ booked' = Row(booked, r.user, to, a)
  /\ receipts' = [receipts EXCEPT ![r.id] =
       Append(@, [from |-> r.user, to |-> to, amount |-> a])]
  /\ Done(h)

(* updateMany matched no row: 409, and nothing is written.                 *)
PayConflict(h) ==
  /\ invReq[h].op = "pay"
  /\ ~PayClaims(invReq[h].id, invReq[h].user)
  /\ Done(h)
  /\ UNCHANGED <<ledgerVars, invoice, receipts>>

TransferDebtRead(h, u, i, to) ==
  /\ invReq[h] = Idle
  /\ NewDebtor(u, to)
  /\ OwesInvoice(i, u)
  /\ invReq' = [invReq EXCEPT ![h] =
       [op |-> "assign", user |-> u, id |-> i, to |-> to]]
  /\ UNCHANGED <<ledgerVars, invoice, receipts>>

(* An update by key: neither the status nor the payer is looked at again.  *)
TransferDebtCommit(h) ==
  LET r == invReq[h] IN
  /\ r.op = "assign"
  /\ invoice' = [invoice EXCEPT ![r.id].payer = r.to]
  /\ Done(h)
  /\ UNCHANGED <<ledgerVars, receipts>>

CancelRead(h, u, i) ==
  /\ invReq[h] = Idle
  /\ Pending(i)
  /\ invoice[i].creator = u
  /\ invReq' = [invReq EXCEPT ![h] = [op |-> "cancel", user |-> u, id |-> i]]
  /\ UNCHANGED <<ledgerVars, invoice, receipts>>

CancelCommit(h) ==
  LET r == invReq[h] IN
  /\ r.op = "cancel"
  /\ CancelClaims(r.id)
  /\ invoice' = [invoice EXCEPT ![r.id].status = "cancelled"]
  /\ Done(h)
  /\ UNCHANGED <<ledgerVars, receipts>>

(* updateMany matched no row: 409, and nothing is written.                 *)
CancelConflict(h) ==
  /\ invReq[h].op = "cancel"
  /\ ~CancelClaims(invReq[h].id)
  /\ Done(h)
  /\ UNCHANGED <<ledgerVars, invoice, receipts>>

(* The balance turned out too low, an Int overflowed, a deadlock victim,   *)
(* the time limit, a lost connection, a crash: the transaction rolls back. *)
InvoiceFail(h) ==
  /\ invReq[h] # Idle
  /\ Done(h)
  /\ UNCHANGED <<ledgerVars, invoice, receipts>>

InvoicesNext ==
  \/ \E i \in InvoiceIds, u, receiver \in Users, a \in Amounts :
       CreateInvoice(i, u, receiver, a)
  \/ \E h \in InvHandlers :
       \/ \E u \in Users, i \in InvoiceIds :
            \/ PayRead(h, u, i)
            \/ CancelRead(h, u, i)
            \/ \E to \in Users : TransferDebtRead(h, u, i, to)
       \/ PayReadCoin(h)
       \/ PayCommit(h)
       \/ PayConflict(h)
       \/ TransferDebtCommit(h)
       \/ CancelCommit(h)
       \/ CancelConflict(h)
       \/ InvoiceFail(h)

InvoicesSpec == InvoicesInit /\ [][InvoicesNext]_vars

-----------------------------------------------------------------------------
(* Type invariant: every row was issued by createInvoice and every request *)
(* under way passed the checks on its arguments.                           *)
TypeOK ==
  /\ coin \in [Users -> Int4]
  /\ booked \in [Users -> Int]
  /\ invoice \in [InvoiceIds -> Rows \cup {NoInvoice}]
  /\ receipts \in [InvoiceIds -> Seq(Receipts)]
  /\ invReq \in [InvHandlers -> InvoiceRequests \cup {Idle}]

(* An invoice is paid exactly when one TRANSFER row exists for it, and     *)
(* that row pays the creator the invoiced amount: no double payment, no    *)
(* payment of a cancelled invoice, no paid invoice without its money,      *)
(* whatever payments, cancellations and handovers race for it.             *)
PaidExactlyOnce ==
  \A i \in InvoiceIds :
    IF invoice[i].status = "paid"
    THEN /\ Len(receipts[i]) = 1
         /\ receipts[i][1].to = invoice[i].creator
         /\ receipts[i][1].amount = invoice[i].amount
    ELSE receipts[i] = <<>>

Closed(i) == invoice[i].status \in {"paid", "cancelled"}

(* A paid or cancelled invoice is final: its status, its creator, its      *)
(* amount and its receipts never change again.                             *)
ClosedIsFinal ==
  [][\A i \in InvoiceIds : Closed(i) =>
       /\ receipts'[i] = receipts[i]
       /\ invoice'[i].status = invoice[i].status
       /\ invoice'[i].creator = invoice[i].creator
       /\ invoice'[i].amount = invoice[i].amount]_vars

(* payInvoice reads the coin without a lock: payments of several invoices  *)
(* may pass their checks together, but each was covered alone, so only the *)
(* others under way can take a balance below zero.                         *)
OverdraftBounded ==
  LET together == Min({Cardinality(InvHandlers), Cardinality(InvoiceIds)}) IN
  \A u \in Users : coin[u] >= -((together - 1) * Max(Amounts))

(* Only the debtor of the moment is charged: the account a payment takes   *)
(* the money from is the one the committed row names as payer when the     *)
(* payment commits, however the debt was handed on while the payment was   *)
(* under way.                                                              *)
ChargesCurrentPayer ==
  [][\A i \in InvoiceIds : receipts'[i] # receipts[i] =>
       /\ Pending(i)
       /\ receipts'[i] = Append(receipts[i],
            [from |-> invoice[i].payer, to |-> invoice[i].creator,
             amount |-> invoice[i].amount])]_vars

(* ensureInvoicePending refuses to hand on the debt of an invoice that is  *)
(* already paid or cancelled, so the payer of such an invoice should stay. *)
ClosedKeepsPayer ==
  [][\A i \in InvoiceIds :
       Closed(i) => invoice'[i].payer = invoice[i].payer]_vars

-----------------------------------------------------------------------------
(* What the invoices promise: see InvoiceContract.                         *)
Bill(i) == IF invoice[i] = NoInvoice THEN NoInvoice
           ELSE [status |-> invoice[i].status, creator |-> invoice[i].creator,
                 amount |-> invoice[i].amount]

Contract == INSTANCE InvoiceContract WITH bill <- [i \in InvoiceIds |-> Bill(i)]

(* The interleaved requests implement the contract: every step issues,     *)
(* settles or voids one bill in one atomic step, money included, or is     *)
(* invisible.                                                              *)
ImplementsContract == Contract!ContractSpec
=============================================================================
