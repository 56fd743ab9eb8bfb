--------------------------- MODULE InvoicesProofs ---------------------------
(***************************************************************************)
(* Theorems about Invoices, for any users, invoices, handlers and amounts. *)
(***************************************************************************)
EXTENDS Invoices, SumTheorems, TLAPS

LEMMA AmountIsPositive ==
  ASSUME NEW a \in Amounts
  PROVE  a \in Int /\ a > 0
BY LedgerAssumption, InvoicesAssumption

LEMMA Int4IsInt == Int4 \subseteq Int
BY LedgerAssumption DEF Int4

LEMMA RowIsTyped ==
  ASSUME NEW b \in [Users -> Int], NEW from, NEW to, NEW a \in Int
  PROVE  Row(b, from, to, a) \in [Users -> Int]
BY DEF Row

(* A request under way names an invoice that exists: the type invariant is *)
(* inductive only together with this, since an update of the row of a      *)
(* request that came too early would not give a row.                       *)
RequestsNameRows ==
  \A h \in InvHandlers : invReq[h] # Idle => invoice[invReq[h].id] # NoInvoice

InvoicesInv == TypeOK /\ RequestsNameRows /\ PaidExactlyOnce

-----------------------------------------------------------------------------
LEMMA RequestIsTyped ==
  ASSUME TypeOK, NEW h \in InvHandlers, invReq[h] # Idle
  PROVE  invReq[h].user \in Users /\ invReq[h].id \in InvoiceIds
BY DEF TypeOK, InvoiceRequests

LEMMA AssignIsTyped ==
  ASSUME TypeOK, NEW h \in InvHandlers, invReq[h].op = "assign"
  PROVE  invReq[h].to \in Users /\ invReq[h] # Idle
BY DEF TypeOK, InvoiceRequests, Idle

LEMMA PendingIsRow ==
  ASSUME TypeOK, NEW i \in InvoiceIds, Pending(i)
  PROVE  /\ invoice[i] \in Rows /\ invoice[i] # NoInvoice
         /\ invoice[i].creator \in Users /\ invoice[i].payer \in Users
         /\ invoice[i].amount \in Amounts
BY DEF TypeOK, Pending, Rows, NoInvoice

LEMMA RowFields ==
  ASSUME NEW r \in Rows
  PROVE  /\ [r EXCEPT !.status = "paid"] \in Rows
         /\ [r EXCEPT !.status = "cancelled"] \in Rows
         /\ \A u \in Users : [r EXCEPT !.payer = u] \in Rows
         /\ r # NoInvoice
BY DEF Rows, NoInvoice

(* What a payment that claims its invoice does.                            *)
LEMMA PaymentFacts ==
  ASSUME TypeOK, NEW h \in InvHandlers, PayCommit(h)
  PROVE  /\ invReq[h] # Idle
         /\ invReq[h].id \in InvoiceIds /\ invReq[h].user \in Users
         /\ Pending(invReq[h].id)
         /\ invoice[invReq[h].id].payer = invReq[h].user
         /\ invoice[invReq[h].id] \in Rows
         /\ invoice[invReq[h].id].creator \in Users
         /\ invoice[invReq[h].id].amount \in Amounts
<1>1. invReq[h] # Idle
  BY DEF PayCommit, Idle
<1>2. invReq[h].id \in InvoiceIds /\ invReq[h].user \in Users
  BY <1>1, RequestIsTyped
<1>3. Pending(invReq[h].id) /\ invoice[invReq[h].id].payer = invReq[h].user
  BY DEF PayCommit, PayClaims
<1>4. QED
  BY <1>1, <1>2, <1>3, PendingIsRow

-----------------------------------------------------------------------------
LEMMA InvInitially == InvoicesInit => InvoicesInv
<1> SUFFICES ASSUME InvoicesInit PROVE InvoicesInv
  OBVIOUS
<1>1. coin \in [Users -> Int4] /\ booked \in [Users -> Int]
  BY LedgerAssumption DEF InvoicesInit, LedgerInit, Int4
<1>2. TypeOK
  BY <1>1 DEF InvoicesInit, TypeOK
<1>3. RequestsNameRows /\ PaidExactlyOnce
  BY DEF InvoicesInit, RequestsNameRows, PaidExactlyOnce, NoInvoice
<1>4. QED
  BY <1>2, <1>3 DEF InvoicesInv

LEMMA TypeNext == TypeOK /\ RequestsNameRows /\ [InvoicesNext]_vars => TypeOK'
<1> SUFFICES ASSUME TypeOK, RequestsNameRows, [InvoicesNext]_vars
             PROVE  TypeOK'
  OBVIOUS
<1> USE AmountIsPositive, Int4IsInt
<1>1. ASSUME NEW i \in InvoiceIds, NEW u \in Users, NEW receiver \in Users,
             NEW a \in Amounts, CreateInvoice(i, u, receiver, a)
      PROVE  TypeOK'
  <2>1. [status |-> "pending", creator |-> u, payer |-> receiver, amount |-> a] \in Rows
    BY DEF Rows
  <2>2. QED
    BY <1>1, <2>1 DEF TypeOK, CreateInvoice, ledgerVars
<1>2. ASSUME NEW h \in InvHandlers, NEW u \in Users, NEW i \in InvoiceIds,
             PayRead(h, u, i)
      PROVE  TypeOK'
  <2>1. [op |-> "payCoin", user |-> u, id |-> i] \in InvoiceRequests
    BY DEF InvoiceRequests
  <2>2. QED
    BY <1>2, <2>1 DEF TypeOK, PayRead, ledgerVars
<1>3. ASSUME NEW h \in InvHandlers, PayReadCoin(h)
      PROVE  TypeOK'
  <2>1. [invReq[h] EXCEPT !.op = "pay"] \in InvoiceRequests
    <3>1. invReq[h] \in InvoiceRequests \cup {Idle} /\ invReq[h].op = "payCoin"
      BY <1>3 DEF TypeOK, PayReadCoin
    <3>2. invReq[h] \in [op : {"payCoin"}, user : Users, id : InvoiceIds]
      BY <3>1 DEF InvoiceRequests, Idle
    <3>3. QED
      BY <3>2 DEF InvoiceRequests
  <2>2. QED
    BY <1>3, <2>1 DEF TypeOK, PayReadCoin, ledgerVars
<1>4. ASSUME NEW h \in InvHandlers, PayCommit(h)
      PROVE  TypeOK'
  <2> DEFINE r == invReq[h]
             a == invoice[r.id].amount
             to == invoice[r.id].creator
  <2>1. /\ r.id \in InvoiceIds /\ r.user \in Users /\ invoice[r.id] \in Rows
        /\ to \in Users /\ a \in Amounts /\ a \in Int
    BY <1>4, PaymentFacts
  <2>2. coin' \in [Users -> Int4]
    BY <1>4, <2>1 DEF TypeOK, PayCommit, Move, Credit, Debit, Fits
  <2>3. booked' \in [Users -> Int]
    BY <1>4, <2>1, RowIsTyped DEF TypeOK, PayCommit
  <2>4. invoice' \in [InvoiceIds -> Rows \cup {NoInvoice}]
    BY <1>4, <2>1, RowFields DEF TypeOK, PayCommit, MarkedPaid
  <2>5. receipts' \in [InvoiceIds -> Seq(Receipts)]
    <3>1. [from |-> r.user, to |-> to, amount |-> a] \in Receipts
      BY <2>1 DEF Receipts
    <3>2. Append(receipts[r.id], [from |-> r.user, to |-> to, amount |-> a])
            \in Seq(Receipts)
      BY <2>1, <3>1 DEF TypeOK
    <3>3. QED
      BY <1>4, <2>1, <3>2 DEF TypeOK, PayCommit
  <2>6. QED
    BY <1>4, <2>2, <2>3, <2>4, <2>5 DEF TypeOK, PayCommit, Done
<1>5. ASSUME NEW h \in InvHandlers, PayConflict(h)
      PROVE  TypeOK'
  BY <1>5 DEF TypeOK, PayConflict, Done, ledgerVars
<1>6. ASSUME NEW h \in InvHandlers, NEW u \in Users, NEW i \in InvoiceIds,
             NEW to \in Users, TransferDebtRead(h, u, i, to)
      PROVE  TypeOK'
  <2>1. [op |-> "assign", user |-> u, id |-> i, to |-> to] \in InvoiceRequests
    BY <1>6 DEF InvoiceRequests, TransferDebtRead, NewDebtor
  <2>2. QED
    BY <1>6, <2>1 DEF TypeOK, TransferDebtRead, ledgerVars
<1>7. ASSUME NEW h \in InvHandlers, TransferDebtCommit(h)
      PROVE  TypeOK'
  <2>1. /\ invReq[h] # Idle /\ invReq[h].to \in Users
        /\ invReq[h].id \in InvoiceIds
    BY <1>7, AssignIsTyped, RequestIsTyped DEF TransferDebtCommit
  <2>2. invoice[invReq[h].id] \in Rows
    BY <2>1 DEF TypeOK, RequestsNameRows
  <2>3. QED
    BY <1>7, <2>1, <2>2, RowFields DEF TypeOK, TransferDebtCommit, Done, ledgerVars
<1>8. ASSUME NEW h \in InvHandlers, NEW u \in Users, NEW i \in InvoiceIds,
             CancelRead(h, u, i)
      PROVE  TypeOK'
  <2>1. [op |-> "cancel", user |-> u, id |-> i] \in InvoiceRequests
    BY DEF InvoiceRequests
  <2>2. QED
    BY <1>8, <2>1 DEF TypeOK, CancelRead, ledgerVars
<1>9. ASSUME NEW h \in InvHandlers, CancelCommit(h)
      PROVE  TypeOK'
  <2>1. invReq[h].id \in InvoiceIds /\ invoice[invReq[h].id] \in Rows
    BY <1>9, RequestIsTyped, PendingIsRow DEF CancelCommit, CancelClaims, Idle
  <2>2. QED
    BY <1>9, <2>1, RowFields DEF TypeOK, CancelCommit, Done, ledgerVars
<1>10. ASSUME NEW h \in InvHandlers, CancelConflict(h) \/ InvoiceFail(h)
       PROVE  TypeOK'
  BY <1>10 DEF TypeOK, CancelConflict, InvoiceFail, Done, ledgerVars
<1>11. ASSUME UNCHANGED vars PROVE TypeOK'
  BY <1>11 DEF TypeOK, vars, ledgerVars, invoiceVars
<1>12. QED
  BY <1>1, <1>2, <1>3, <1>4, <1>5, <1>6, <1>7, <1>8, <1>9, <1>10, <1>11
     DEF InvoicesNext

-----------------------------------------------------------------------------
(* What a step can do to one invoice: nothing, issue it, change its payer, *)
(* cancel it or pay it.                                                    *)
Untouched(i) == invoice'[i] = invoice[i] /\ receipts'[i] = receipts[i]

Issued(i) == /\ invoice[i] = NoInvoice
             /\ invoice'[i] \in Rows /\ invoice'[i].status = "pending"
             /\ receipts'[i] = receipts[i]

HandedOn(i) == /\ invoice[i] \in Rows
               /\ \E u \in Users : invoice'[i] = [invoice[i] EXCEPT !.payer = u]
               /\ receipts'[i] = receipts[i]

Cancelled(i) == /\ Pending(i)
                /\ invoice'[i] = [invoice[i] EXCEPT !.status = "cancelled"]
                /\ receipts'[i] = receipts[i]

Paid(i) == /\ Pending(i)
           /\ invoice'[i] = [invoice[i] EXCEPT !.status = "paid"]
           /\ receipts'[i] = Append(receipts[i],
                [from |-> invoice[i].payer, to |-> invoice[i].creator,
                 amount |-> invoice[i].amount])

RowStep(i) == Untouched(i) \/ Issued(i) \/ HandedOn(i) \/ Cancelled(i) \/ Paid(i)

LEMMA EachRowSteps ==
  ASSUME TypeOK, RequestsNameRows, [InvoicesNext]_vars, NEW i \in InvoiceIds
  PROVE  RowStep(i)
<1>1. ASSUME NEW j \in InvoiceIds, NEW u \in Users, NEW receiver \in Users,
             NEW a \in Amounts, CreateInvoice(j, u, receiver, a)
      PROVE  RowStep(i)
  <2>1. [status |-> "pending", creator |-> u, payer |-> receiver, amount |-> a] \in Rows
    BY DEF Rows
  <2>2. CASE i = j
    BY <1>1, <2>1, <2>2 DEF TypeOK, CreateInvoice, RowStep, Issued
  <2>3. CASE i # j
    BY <1>1, <2>3 DEF TypeOK, CreateInvoice, RowStep, Untouched
  <2>4. QED
    BY <2>2, <2>3
<1>2. ASSUME NEW h \in InvHandlers, PayCommit(h)
      PROVE  RowStep(i)
  <2>1. /\ invReq[h].id \in InvoiceIds /\ Pending(invReq[h].id)
        /\ invoice[invReq[h].id].payer = invReq[h].user
    BY <1>2, PaymentFacts
  <2>2. CASE i = invReq[h].id
    BY <1>2, <2>1, <2>2 DEF TypeOK, PayCommit, MarkedPaid, RowStep, Paid
  <2>3. CASE i # invReq[h].id
    BY <1>2, <2>1, <2>3 DEF TypeOK, PayCommit, MarkedPaid, RowStep, Untouched
  <2>4. QED
    BY <2>2, <2>3
<1>3. ASSUME NEW h \in InvHandlers, TransferDebtCommit(h)
      PROVE  RowStep(i)
  <2>1. /\ invReq[h] # Idle /\ invReq[h].to \in Users
        /\ invReq[h].id \in InvoiceIds
    BY <1>3, AssignIsTyped, RequestIsTyped DEF TransferDebtCommit
  <2>2. invoice[invReq[h].id] \in Rows
    BY <2>1 DEF TypeOK, RequestsNameRows
  <2>3. CASE i = invReq[h].id
    BY <1>3, <2>1, <2>2, <2>3 DEF TypeOK, TransferDebtCommit, RowStep, HandedOn
  <2>4. CASE i # invReq[h].id
    BY <1>3, <2>1, <2>4 DEF TypeOK, TransferDebtCommit, RowStep, Untouched
  <2>5. QED
    BY <2>3, <2>4
<1>4. ASSUME NEW h \in InvHandlers, CancelCommit(h)
      PROVE  RowStep(i)
  <2>1. invReq[h].id \in InvoiceIds /\ Pending(invReq[h].id)
    BY <1>4, RequestIsTyped DEF CancelCommit, CancelClaims, Idle
  <2>2. CASE i = invReq[h].id
    BY <1>4, <2>1, <2>2 DEF TypeOK, CancelCommit, RowStep, Cancelled
  <2>3. CASE i # invReq[h].id
    BY <1>4, <2>1, <2>3 DEF TypeOK, CancelCommit, RowStep, Untouched
  <2>4. QED
    BY <2>2, <2>3
<1>5. ASSUME UNCHANGED <<invoice, receipts>>
      PROVE  RowStep(i)
  BY <1>5 DEF RowStep, Untouched
<1>6. QED
  BY <1>1, <1>2, <1>3, <1>4, <1>5
     DEF InvoicesNext, PayRead, PayReadCoin, PayConflict, TransferDebtRead,
         CancelRead, CancelConflict, InvoiceFail, vars, invoiceVars

-----------------------------------------------------------------------------
LEMMA PaidNext ==
  ASSUME TypeOK, RequestsNameRows, PaidExactlyOnce, [InvoicesNext]_vars
  PROVE  PaidExactlyOnce'
<1> SUFFICES ASSUME NEW i \in InvoiceIds
             PROVE  IF invoice'[i].status = "paid"
                    THEN /\ Len(receipts'[i]) = 1
                         /\ receipts'[i][1].to = invoice'[i].creator
                         /\ receipts'[i][1].amount = invoice'[i].amount
                    ELSE receipts'[i] = <<>>
  BY DEF PaidExactlyOnce
<1>0. IF invoice[i].status = "paid"
      THEN /\ Len(receipts[i]) = 1
           /\ receipts[i][1].to = invoice[i].creator
           /\ receipts[i][1].amount = invoice[i].amount
      ELSE receipts[i] = <<>>
  BY DEF PaidExactlyOnce
<1>1. CASE Untouched(i)
  BY <1>0, <1>1 DEF Untouched
<1>2. CASE Issued(i)
  BY <1>0, <1>2 DEF Issued, NoInvoice
<1>3. CASE HandedOn(i)
  BY <1>0, <1>3 DEF HandedOn, Rows
<1>4. CASE Cancelled(i)
  <2>1. invoice'[i].status = "cancelled"
    BY <1>4, PendingIsRow DEF Cancelled, Rows
  <2>2. QED
    BY <1>0, <1>4, <2>1 DEF Cancelled, Pending
<1>5. CASE Paid(i)
  <2>1. /\ invoice'[i].status = "paid"
        /\ invoice'[i].creator = invoice[i].creator
        /\ invoice'[i].amount = invoice[i].amount
    BY <1>5, PendingIsRow DEF Paid, Rows
  <2>2. receipts[i] = <<>>
    BY <1>0, <1>5 DEF Paid, Pending
  <2>3. PICK r : /\ r = [from |-> invoice[i].payer, to |-> invoice[i].creator,
                         amount |-> invoice[i].amount]
                 /\ receipts'[i] = Append(<<>>, r)
    BY <1>5, <2>2 DEF Paid
  <2>4. Append(<<>>, r) = <<r>>
    OBVIOUS
  <2>5. Len(receipts'[i]) = 1 /\ receipts'[i][1] = r
    BY <2>3, <2>4
  <2>6. QED
    BY <2>1, <2>3, <2>5
<1>6. QED
  BY <1>1, <1>2, <1>3, <1>4, <1>5, EachRowSteps DEF RowStep

(* Rows are never deleted.                                                 *)
LEMMA RowsStay ==
  ASSUME TypeOK, RequestsNameRows, [InvoicesNext]_vars,
         NEW i \in InvoiceIds, invoice[i] # NoInvoice
  PROVE  invoice'[i] # NoInvoice
<1>1. CASE Untouched(i)
  BY <1>1 DEF Untouched
<1>2. CASE Issued(i)
  BY <1>2 DEF Issued
<1>3. CASE HandedOn(i)
  BY <1>3, RowFields DEF HandedOn
<1>4. CASE Cancelled(i)
  BY <1>4, PendingIsRow, RowFields DEF Cancelled
<1>5. CASE Paid(i)
  BY <1>5, PendingIsRow, RowFields DEF Paid
<1>6. QED
  BY <1>1, <1>2, <1>3, <1>4, <1>5, EachRowSteps DEF RowStep

LEMMA RequestsNext ==
  ASSUME TypeOK, RequestsNameRows, [InvoicesNext]_vars
  PROVE  RequestsNameRows'
<1> SUFFICES ASSUME NEW g \in InvHandlers, invReq'[g] # Idle
             PROVE  invoice'[invReq'[g].id] # NoInvoice
  BY DEF RequestsNameRows
<1>0. ASSUME invReq[g] # Idle, invReq'[g].id = invReq[g].id
      PROVE  invoice'[invReq'[g].id] # NoInvoice
  BY <1>0, RequestIsTyped, RowsStay DEF RequestsNameRows
<1>1. ASSUME NEW h \in InvHandlers, NEW i \in InvoiceIds, invoice[i] # NoInvoice,
             NEW r, r.id = i, invReq' = [invReq EXCEPT ![h] = r]
      PROVE  invoice'[invReq'[g].id] # NoInvoice
  <2>1. CASE g = h
    BY <1>1, <2>1, RowsStay DEF TypeOK
  <2>2. CASE g # h
    <3>1. invReq'[g] = invReq[g]
      BY <1>1, <2>2 DEF TypeOK
    <3>2. QED
      BY <1>0, <3>1
  <2>3. QED
    BY <2>1, <2>2
<1>2. ASSUME NEW h \in InvHandlers, Done(h)
      PROVE  invoice'[invReq'[g].id] # NoInvoice
  <2>1. g # h /\ invReq'[g] = invReq[g]
    BY <1>2 DEF TypeOK, Done
  <2>2. QED
    BY <1>0, <2>1
<1>3. ASSUME NEW h \in InvHandlers, NEW u \in Users, NEW i \in InvoiceIds,
             \/ PayRead(h, u, i)
             \/ CancelRead(h, u, i)
             \/ \E to \in Users : TransferDebtRead(h, u, i, to)
      PROVE  invoice'[invReq'[g].id] # NoInvoice
  <2>1. Pending(i)
    BY <1>3 DEF PayRead, CancelRead, TransferDebtRead, OwesInvoice
  <2>2. invoice[i] # NoInvoice
    BY <2>1, PendingIsRow
  <2>3. \E r : r.id = i /\ invReq' = [invReq EXCEPT ![h] = r]
    BY <1>3 DEF PayRead, CancelRead, TransferDebtRead
  <2>4. QED
    BY <1>1, <2>2, <2>3
<1>4. ASSUME NEW h \in InvHandlers, PayReadCoin(h)
      PROVE  invoice'[invReq'[g].id] # NoInvoice
  <2>1. CASE g = h
    <3>1. invReq[g] # Idle /\ invReq[g] \in InvoiceRequests
      BY <1>4, <2>1 DEF PayReadCoin, Idle, TypeOK
    <3>2. invReq'[g].id = invReq[g].id
      BY <1>4, <2>1, <3>1 DEF PayReadCoin, TypeOK, InvoiceRequests
    <3>3. QED
      BY <1>0, <3>1, <3>2
  <2>2. CASE g # h
    <3>1. invReq'[g] = invReq[g]
      BY <1>4, <2>2 DEF PayReadCoin, TypeOK
    <3>2. QED
      BY <1>0, <3>1
  <2>3. QED
    BY <2>1, <2>2
<1>5. ASSUME UNCHANGED invReq
      PROVE  invoice'[invReq'[g].id] # NoInvoice
  BY <1>0, <1>5
<1>6. QED
  BY <1>2, <1>3, <1>4, <1>5
     DEF InvoicesNext, CreateInvoice, PayCommit, PayConflict, TransferDebtCommit,
         CancelCommit, CancelConflict, InvoiceFail, vars, invoiceVars

LEMMA InvNext == InvoicesInv /\ [InvoicesNext]_vars => InvoicesInv'
BY TypeNext, RequestsNext, PaidNext DEF InvoicesInv

LEMMA InvHolds == InvoicesSpec => []InvoicesInv
BY InvInitially, InvNext, PTL DEF InvoicesSpec

(* Every row keeps the shape createInvoice gave it, and every request      *)
(* under way the shape its checks gave it.                                 *)
THEOREM TypeCorrect == InvoicesSpec => []TypeOK
<1>1. InvoicesInv => TypeOK
  BY DEF InvoicesInv
<1>2. QED
  BY <1>1, InvHolds, PTL

(* Whatever payments, handovers and cancellations race for it, an invoice  *)
(* is paid exactly when one TRANSFER row pays its creator its amount.      *)
THEOREM PaidOnceCorrect == InvoicesSpec => []PaidExactlyOnce
<1>1. InvoicesInv => PaidExactlyOnce
  BY DEF InvoicesInv
<1>2. QED
  BY <1>1, InvHolds, PTL

(* A paid or cancelled invoice keeps its status, creator, amount and       *)
(* receipts for ever.                                                      *)
THEOREM ClosedCorrect == InvoicesSpec => ClosedIsFinal
<1> DEFINE Final(i) == Closed(i) =>
              /\ receipts'[i] = receipts[i]
              /\ invoice'[i].status = invoice[i].status
              /\ invoice'[i].creator = invoice[i].creator
              /\ invoice'[i].amount = invoice[i].amount
<1>1. ASSUME InvoicesInv, [InvoicesNext]_vars, NEW i \in InvoiceIds
      PROVE  Final(i)
  <2>1. RowStep(i)
    BY <1>1, EachRowSteps DEF InvoicesInv
  <2>2. CASE HandedOn(i)
    BY <2>2 DEF HandedOn, Rows
  <2>3. CASE Untouched(i) \/ Issued(i) \/ Cancelled(i) \/ Paid(i)
    BY <2>3 DEF Untouched, Issued, Cancelled, Paid, Pending, Closed, NoInvoice
  <2>4. QED
    BY <2>1, <2>2, <2>3 DEF RowStep
<1>2. InvoicesInv /\ [InvoicesNext]_vars => [\A i \in InvoiceIds : Final(i)]_vars
  BY <1>1
<1>3. QED
  BY <1>2, InvHolds, PTL DEF InvoicesSpec, ClosedIsFinal

(* Whoever is charged is the payer the committed row names at that moment, *)
(* even if the debt changed hands while the payment was under way.         *)
THEOREM ChargeCorrect == InvoicesSpec => ChargesCurrentPayer
<1> DEFINE Charge(i) == receipts'[i] # receipts[i] =>
              /\ Pending(i)
              /\ receipts'[i] = Append(receipts[i],
                   [from |-> invoice[i].payer, to |-> invoice[i].creator,
                    amount |-> invoice[i].amount])
<1>1. ASSUME InvoicesInv, [InvoicesNext]_vars, NEW i \in InvoiceIds
      PROVE  Charge(i)
  BY <1>1, EachRowSteps
     DEF InvoicesInv, RowStep, Untouched, Issued, HandedOn, Cancelled, Paid
<1>2. InvoicesInv /\ [InvoicesNext]_vars => [\A i \in InvoiceIds : Charge(i)]_vars
  BY <1>1
<1>3. QED
  BY <1>2, InvHolds, PTL DEF InvoicesSpec, ChargesCurrentPayer

-----------------------------------------------------------------------------
(* Refinement: each step is a step of the contract or invisible to it.     *)
Bills == [i \in InvoiceIds |-> Bill(i)]

LEMMA ContractInitially == InvoicesInit => Contract!ContractInit
BY DEF InvoicesInit, Contract!ContractInit, Contract!LedgerInit, LedgerInit,
       Contract!NoBill, Bill, NoInvoice

LEMMA ContractNext ==
  ASSUME InvoicesInv, [InvoicesNext]_vars
  PROVE  [Contract!ContractNext]_(Contract!contractVars)
<1>0. TypeOK /\ RequestsNameRows
  BY DEF InvoicesInv
<1>1. ASSUME NEW i \in InvoiceIds, NEW u \in Users, NEW receiver \in Users,
             NEW a \in Amounts, CreateInvoice(i, u, receiver, a)
      PROVE  Contract!Issue(i)
  <2>1. Bills[i] = Contract!NoBill
    BY <1>1 DEF Bills, Bill, CreateInvoice, Contract!NoBill, NoInvoice
  <2>2. Bills' = [Bills EXCEPT ![i] =
                    [status |-> "pending", creator |-> u, amount |-> a]]
    BY <1>0, <1>1 DEF TypeOK, Bills, Bill, CreateInvoice, NoInvoice
  <2>3. UNCHANGED Contract!ledgerVars
    BY <1>1 DEF CreateInvoice, ledgerVars, Contract!ledgerVars
  <2>4. QED
    BY <2>1, <2>2, <2>3 DEF Contract!Issue, Bills
<1>2. ASSUME NEW h \in InvHandlers, PayCommit(h)
      PROVE  Contract!Settle(invReq[h].id)
  <2> DEFINE i == invReq[h].id
  <2>1. /\ i \in InvoiceIds /\ Pending(i) /\ invReq[h].user \in Users
        /\ invoice[i] \in Rows /\ invoice[i] # NoInvoice
    BY <1>0, <1>2, PaymentFacts, PendingIsRow
  <2>2. Bills[i] = [status |-> "pending", creator |-> invoice[i].creator,
                    amount |-> invoice[i].amount]
    BY <2>1 DEF Bills, Bill, Pending
  <2>3. invoice' = [invoice EXCEPT ![i] = [invoice[i] EXCEPT !.status = "paid"]]
    BY <1>2 DEF PayCommit, MarkedPaid
  <2>4. Bills' = [Bills EXCEPT ![i].status = "paid"]
    <3>1. \A j \in InvoiceIds : Bill(j)' = IF j = i
             THEN [Bill(j) EXCEPT !.status = "paid"] ELSE Bill(j)
      BY <1>0, <2>1, <2>3 DEF TypeOK, Bill, Rows, NoInvoice
    <3>2. QED
      BY <3>1 DEF Bills
  <2>5. /\ coin' = Move(coin, invReq[h].user, invoice[i].creator, invoice[i].amount)
        /\ booked' = Row(booked, invReq[h].user, invoice[i].creator, invoice[i].amount)
    BY <1>2 DEF PayCommit
  <2>6. /\ coin' = Contract!Move(coin, invReq[h].user, Bills[i].creator, Bills[i].amount)
        /\ booked' = Contract!Row(booked, invReq[h].user, Bills[i].creator, Bills[i].amount)
    BY <2>2, <2>5 DEF Contract!Move, Contract!Row, Contract!Credit, Contract!Debit,
       Move, Row, Credit, Debit
  <2>7. Bills[i].status = "pending"
    BY <2>2
  <2> HIDE DEF i
  <2>8. Contract!Settle(i)
    BY <2>1, <2>4, <2>6, <2>7 DEF Contract!Settle, Bills
  <2>9. QED
    BY <2>8 DEF i
<1>3. ASSUME NEW h \in InvHandlers, CancelCommit(h)
      PROVE  invReq[h].id \in InvoiceIds /\ Contract!Void(invReq[h].id)
  <2> DEFINE i == invReq[h].id
  <2>1. /\ i \in InvoiceIds /\ Pending(i)
        /\ invoice[i] \in Rows /\ invoice[i] # NoInvoice
    BY <1>0, <1>3, RequestIsTyped, PendingIsRow DEF CancelCommit, CancelClaims, Idle
  <2>2. Bills[i].status = "pending"
    BY <2>1 DEF Bills, Bill, Pending
  <2>3. invoice' = [invoice EXCEPT ![i] = [invoice[i] EXCEPT !.status = "cancelled"]]
    BY <1>3 DEF CancelCommit
  <2>4. Bills' = [Bills EXCEPT ![i].status = "cancelled"]
    <3>1. \A j \in InvoiceIds : Bill(j)' = IF j = i
             THEN [Bill(j) EXCEPT !.status = "cancelled"] ELSE Bill(j)
      BY <1>0, <2>1, <2>3 DEF TypeOK, Bill, Rows, NoInvoice
    <3>2. QED
      BY <3>1 DEF Bills
  <2>5. UNCHANGED Contract!ledgerVars
    BY <1>3 DEF CancelCommit, ledgerVars, Contract!ledgerVars
  <2> HIDE DEF i
  <2>6. Contract!Void(i)
    BY <2>1, <2>2, <2>4, <2>5 DEF Contract!Void, Bills
  <2>7. QED
    BY <2>1, <2>6 DEF i
<1>4. ASSUME NEW h \in InvHandlers, TransferDebtCommit(h)
      PROVE  UNCHANGED Contract!contractVars
  <2>1. \A j \in InvoiceIds : Bill(j)' = Bill(j)
    <3> SUFFICES ASSUME NEW j \in InvoiceIds PROVE Bill(j)' = Bill(j)
      OBVIOUS
    <3>1. invReq[h] # Idle /\ invReq[h].to \in Users /\ invReq[h].id \in InvoiceIds
      BY <1>0, <1>4, AssignIsTyped, RequestIsTyped DEF TransferDebtCommit
    <3>2. invoice[invReq[h].id] \in Rows
      BY <1>0, <3>1 DEF TypeOK, RequestsNameRows
    <3>3. CASE j = invReq[h].id
      BY <1>0, <1>4, <3>1, <3>2, <3>3 DEF TypeOK, TransferDebtCommit, Bill, Rows, NoInvoice
    <3>4. CASE j # invReq[h].id
      BY <1>0, <1>4, <3>1, <3>4 DEF TypeOK, TransferDebtCommit, Bill
    <3>5. QED
      BY <3>3, <3>4
  <2>2. UNCHANGED ledgerVars
    BY <1>4 DEF TransferDebtCommit
  <2>3. QED
    BY <2>1, <2>2 DEF Contract!contractVars, Contract!ledgerVars, ledgerVars
<1>5. ASSUME UNCHANGED <<invoice, ledgerVars>>
      PROVE  UNCHANGED Contract!contractVars
  BY <1>5 DEF Contract!contractVars, Contract!ledgerVars, ledgerVars, Bill
<1>6. ASSUME NEW h \in InvHandlers, PayCommit(h)
      PROVE  invReq[h].id \in InvoiceIds
  BY <1>0, <1>6, PaymentFacts
<1>7. (\E i \in InvoiceIds : Contract!Issue(i) \/ Contract!Settle(i) \/ Contract!Void(i))
      \/ UNCHANGED Contract!contractVars
  BY <1>1, <1>2, <1>3, <1>4, <1>5, <1>6
     DEF InvoicesNext, PayRead, PayReadCoin, PayConflict, TransferDebtRead,
         CancelRead, CancelConflict, InvoiceFail, vars, invoiceVars
<1>8. QED
  BY <1>7 DEF Contract!ContractNext

(* The interleaved requests implement the contract: each step issues,      *)
(* settles or voids one bill, the money moving in the same instant, or     *)
(* leaves every bill and every balance alone.                              *)
THEOREM ContractCorrect == InvoicesSpec => ImplementsContract
<1>1. InvoicesInv /\ [InvoicesNext]_vars
      => [Contract!ContractNext]_(Contract!contractVars)
  BY ContractNext
<1>2. QED
  BY <1>1, ContractInitially, InvHolds, PTL
     DEF InvoicesSpec, ImplementsContract, Contract!ContractSpec

-----------------------------------------------------------------------------
(* The invariant behind the balance check: what payments under way may     *)
(* still take from a user, and the invoices that have taken from a user.   *)
LEMMA LargestAmount ==
  /\ Max(Amounts) \in Nat
  /\ \A a \in Amounts : a \in Int /\ a > 0 /\ a <= Max(Amounts)
<1>1. Amounts \subseteq Int /\ IsFiniteSet(Amounts) /\ Amounts # {}
  <2>1. IsFiniteSet(1 .. MaxInt)
    BY LedgerAssumption, FS_Interval
  <2>2. IsFiniteSet(Amounts) /\ Amounts # {}
    BY <2>1, FS_Subset, InvoicesAssumption, InvoicesLoadAssumption
  <2>3. Amounts \subseteq Int
    BY AmountIsPositive
  <2>4. QED
    BY <2>2, <2>3
<1>2. \E m \in Amounts : \A a \in Amounts : m >= a
  BY <1>1, LargestExists
<1>3. Max(Amounts) \in Amounts /\ \A a \in Amounts : Max(Amounts) >= a
  BY <1>2 DEF Max
<1>4. \A a \in Amounts : a \in Int /\ a > 0
  BY AmountIsPositive
<1>5. QED
  BY <1>3, <1>4

Claim(u) == [h \in InvHandlers |->
  IF invReq[h].op = "pay" /\ invReq[h].user = u THEN invoice[invReq[h].id].amount
  ELSE 0]

PaidBy(u) == {i \in InvoiceIds : receipts[i] # <<>> /\ receipts[i][1].from = u}
Times(u) == Cardinality(PaidBy(u))

InvoicesCover(u) ==
  RowsCoverClaims(coin[u], Claim(u), InvHandlers, Times(u), Max(Amounts))

HandlersCover(u) == CoversClaims(coin[u], Claim(u), InvHandlers, Max(Amounts))

OverdraftInv == \A u \in Users : InvoicesCover(u) /\ HandlersCover(u)

ClaimsTyped ==
  \A u \in Users :
    /\ Claim(u) \in [InvHandlers -> Int]
    /\ \A h \in InvHandlers : 0 <= Claim(u)[h] /\ Claim(u)[h] <= Max(Amounts)
    /\ Times(u) \in Nat /\ Times(u) <= Cardinality(InvoiceIds)

LEMMA ClaimsAreTyped == InvoicesInv => ClaimsTyped
<1> SUFFICES ASSUME InvoicesInv, NEW u \in Users
             PROVE  /\ Claim(u) \in [InvHandlers -> Int]
                    /\ \A h \in InvHandlers :
                         0 <= Claim(u)[h] /\ Claim(u)[h] <= Max(Amounts)
                    /\ Times(u) \in Nat /\ Times(u) <= Cardinality(InvoiceIds)
  BY DEF ClaimsTyped
<1>1. ASSUME NEW h \in InvHandlers
      PROVE  Claim(u)[h] \in Int /\ 0 <= Claim(u)[h] /\ Claim(u)[h] <= Max(Amounts)
  <2>1. CASE invReq[h].op = "pay"
    <3>1. invReq[h] # Idle /\ TypeOK /\ RequestsNameRows
      BY <2>1 DEF Idle, InvoicesInv
    <3>2. invReq[h].id \in InvoiceIds /\ invoice[invReq[h].id] # NoInvoice
      BY <3>1, RequestIsTyped DEF RequestsNameRows
    <3>3. invoice[invReq[h].id].amount \in Amounts
      BY <3>1, <3>2 DEF TypeOK, Rows
    <3>4. QED
      BY <3>3, LargestAmount DEF Claim
  <2>2. CASE invReq[h].op # "pay"
    BY <2>2, LargestAmount DEF Claim
  <2>3. QED
    BY <2>1, <2>2
<1>2. PaidBy(u) \subseteq InvoiceIds
  BY DEF PaidBy
<1>3. Times(u) \in Nat /\ Times(u) <= Cardinality(InvoiceIds)
  BY <1>2, InvoicesLoadAssumption, FS_Subset, FS_CardinalityType DEF Times
<1>4. Claim(u) \in [InvHandlers -> Int]
  BY <1>1 DEF Claim
<1>5. QED
  BY <1>1, <1>3, <1>4

LEMMA ClaimsStayTyped == (InvoicesInv => ClaimsTyped)'
BY ClaimsAreTyped, PTL

LEMMA OverdraftInitially == InvoicesInit => OverdraftInv
<1> SUFFICES ASSUME InvoicesInit, NEW u \in Users
             PROVE  InvoicesCover(u) /\ HandlersCover(u)
  BY DEF OverdraftInv
<1>1. Claim(u) \in [InvHandlers -> Int] /\ \A h \in InvHandlers : Claim(u)[h] = 0
  BY DEF InvoicesInit, Claim, Idle
<1>2. coin[u] \in Nat
  BY LedgerAssumption DEF InvoicesInit, LedgerInit
<1>3. Times(u) = 0
  <2>1. PaidBy(u) = {}
    BY DEF InvoicesInit, PaidBy
  <2>2. QED
    BY <2>1, FS_EmptySet DEF Times
<1>4. InvoicesCover(u)
  BY <1>1, <1>2, <1>3 DEF InvoicesCover, RowsCoverClaims
<1>5. HandlersCover(u)
  BY <1>1, <1>2, InvoicesLoadAssumption, LargestAmount, NoClaims DEF HandlersCover
<1>6. QED
  BY <1>4, <1>5

(* The amounts that requests under way name do not change.                 *)
LEMMA AmountsStay ==
  ASSUME InvoicesInv, [InvoicesNext]_vars, NEW i \in InvoiceIds, invoice[i] # NoInvoice
  PROVE  invoice'[i].amount = invoice[i].amount
<1>1. TypeOK /\ RequestsNameRows /\ invoice[i] \in Rows
  BY DEF InvoicesInv, TypeOK
<1>2. RowStep(i)
  BY <1>1, EachRowSteps
<1>3. QED
  BY <1>1, <1>2
     DEF RowStep, Untouched, Issued, HandedOn, Cancelled, Paid, Rows

OnlyChanges(h) == \A g \in InvHandlers \ {h} : invReq'[g] = invReq[g]

LEMMA OtherClaimsStay ==
  ASSUME InvoicesInv, [InvoicesNext]_vars, NEW u \in Users, NEW h \in InvHandlers,
         OnlyChanges(h), NEW g \in InvHandlers \ {h}
  PROVE  Claim(u)'[g] = Claim(u)[g]
<1>1. invReq'[g] = invReq[g]
  BY DEF OnlyChanges
<1>2. ASSUME invReq[g].op = "pay"
      PROVE  invoice'[invReq[g].id].amount = invoice[invReq[g].id].amount
  <2>1. invReq[g] # Idle
    BY <1>2 DEF Idle
  <2>2. invReq[g].id \in InvoiceIds /\ invoice[invReq[g].id] # NoInvoice
    BY <2>1, RequestIsTyped DEF InvoicesInv, RequestsNameRows
  <2>3. QED
    BY <2>2, AmountsStay
<1>3. QED
  BY <1>1, <1>2 DEF Claim

(* The two things a step can be for u: to take nothing and claim nothing   *)
(* the balance does not cover alone, or to take what the request claimed.  *)
TakesNothing(u, h) ==
  /\ Times(u)' = Times(u) /\ coin'[u] >= coin[u]
  /\ Claim(u)'[h] = 0 \/ coin'[u] >= Claim(u)'[h]

TakesClaim(u, h) ==
  /\ Times(u)' = Times(u) + 1 /\ Claim(u)[h] # 0
  /\ coin'[u] >= coin[u] - Claim(u)[h] /\ Claim(u)'[h] = 0

LEMMA StaysCovered ==
  ASSUME InvoicesInv, InvoicesInv', OverdraftInv, [InvoicesNext]_vars,
         NEW u \in Users, NEW h \in InvHandlers, OnlyChanges(h),
         TakesNothing(u, h) \/ TakesClaim(u, h)
  PROVE  InvoicesCover(u)' /\ HandlersCover(u)'
<1> DEFINE M == Max(Amounts)
           c == coin[u]
           d == coin'[u]
           f == Claim(u)
           g == Claim(u)'
           n == Times(u)
           k == Times(u)'
<1>1. /\ f \in [InvHandlers -> Int] /\ n \in Nat
      /\ \A y \in InvHandlers : 0 <= f[y] /\ f[y] <= M
  BY ClaimsAreTyped DEF ClaimsTyped
<1>2. /\ g \in [InvHandlers -> Int]
      /\ \A y \in InvHandlers : 0 <= g[y] /\ g[y] <= M
  BY ClaimsStayTyped DEF ClaimsTyped
<1>3. \A y \in InvHandlers \ {h} : g[y] = f[y]
  BY OtherClaimsStay
<1>4. M \in Nat /\ c \in Int /\ d \in Int
  BY LargestAmount, Int4IsInt DEF InvoicesInv, TypeOK
<1>5. CoversClaims(c, f, InvHandlers, M) /\ RowsCoverClaims(c, f, InvHandlers, n, M)
  BY DEF OverdraftInv, HandlersCover, InvoicesCover
<1>6. \/ k = n /\ d >= c /\ g[h] \in {0, f[h]}
      \/ k = n /\ d >= c /\ d >= g[h]
      \/ k = n + 1 /\ f[h] # 0 /\ d >= c - f[h] /\ g[h] = 0
  BY DEF TakesNothing, TakesClaim
<1> HIDE DEF M, c, d, f, g, n, k
<1>7. f[h] \in Int /\ g[h] \in Int /\ 0 <= f[h]
  BY <1>1, <1>2
<1>8. d - c >= g[h] - f[h] \/ d >= g[h]
  BY <1>4, <1>6, <1>7
<1>9. CoversClaims(d, g, InvHandlers, M)
  BY <1>1, <1>2, <1>3, <1>4, <1>5, <1>8, InvoicesLoadAssumption, ClaimsStayCovered
<1>10. RowsCoverClaims(d, g, InvHandlers, k, M)
  BY <1>1, <1>2, <1>3, <1>4, <1>5, <1>6, RowsStayCovering
<1>11. QED
  BY <1>9, <1>10 DEF InvoicesCover, HandlersCover, M, d, g, k

LEMMA OverdraftNext == InvoicesInv /\ OverdraftInv /\ [InvoicesNext]_vars => OverdraftInv'
<1> SUFFICES ASSUME InvoicesInv, OverdraftInv, [InvoicesNext]_vars
             PROVE  OverdraftInv'
  OBVIOUS
<1>0. /\ InvoicesInv' /\ TypeOK /\ RequestsNameRows /\ PaidExactlyOnce
      /\ \A u \in Users : coin[u] \in Int
  BY InvNext, Int4IsInt DEF InvoicesInv, TypeOK
<1>1. ASSUME NEW h \in InvHandlers, OnlyChanges(h),
             \A u \in Users : TakesNothing(u, h) \/ TakesClaim(u, h)
      PROVE  OverdraftInv'
  BY <1>0, <1>1, StaysCovered DEF OverdraftInv
<1>2. ASSUME NEW h \in InvHandlers, UNCHANGED <<coin, receipts>>, OnlyChanges(h),
             \A u \in Users : Claim(u)'[h] = 0 \/ coin[u] >= Claim(u)'[h]
      PROVE  OverdraftInv'
  <2>1. \A u \in Users : Times(u)' = Times(u)
    BY <1>2 DEF Times, PaidBy
  <2>2. \A u \in Users : TakesNothing(u, h)
    BY <1>0, <1>2, <2>1 DEF TakesNothing
  <2>3. QED
    BY <1>1, <1>2, <2>2
<1>3. ASSUME NEW i \in InvoiceIds, NEW u \in Users, NEW receiver \in Users,
             NEW a \in Amounts, CreateInvoice(i, u, receiver, a)
      PROVE  OverdraftInv'
  <2>1. UNCHANGED <<coin, receipts, invReq>>
    BY <1>3 DEF CreateInvoice, ledgerVars
  <2>2. PICK h \in InvHandlers : TRUE
    BY InvoicesLoadAssumption
  <2>3. ASSUME NEW v \in Users
        PROVE  InvoicesCover(v)' /\ HandlersCover(v)'
    <3>1. \A g \in InvHandlers : invReq[g].op = "pay" =>
            invoice'[invReq[g].id].amount = invoice[invReq[g].id].amount
      <4>1. ASSUME NEW g \in InvHandlers, invReq[g].op = "pay"
            PROVE  invoice'[invReq[g].id].amount = invoice[invReq[g].id].amount
        <5>1. invReq[g] # Idle
          BY <4>1 DEF Idle
        <5>2. invReq[g].id \in InvoiceIds /\ invoice[invReq[g].id] # NoInvoice
          BY <1>0, <5>1, RequestIsTyped DEF RequestsNameRows
        <5>3. QED
          BY <5>2, AmountsStay
      <4>2. QED
        BY <4>1
    <3>2. Claim(v)' = Claim(v)
      BY <2>1, <3>1 DEF Claim
    <3>3. Times(v)' = Times(v)
      BY <2>1 DEF Times, PaidBy
    <3>4. QED
      BY <2>1, <3>2, <3>3 DEF OverdraftInv, InvoicesCover, HandlersCover
  <2>4. QED
    BY <2>3 DEF OverdraftInv
<1>4. ASSUME NEW h \in InvHandlers, UNCHANGED <<coin, receipts>>,
             NEW q, invReq' = [invReq EXCEPT ![h] = q], q.op # "pay"
      PROVE  OverdraftInv'
  <2>1. OnlyChanges(h) /\ invReq'[h] = q
    BY <1>0, <1>4 DEF TypeOK, OnlyChanges
  <2>2. \A u \in Users : Claim(u)'[h] = 0
    BY <1>4, <2>1 DEF Claim
  <2>3. QED
    BY <1>2, <1>4, <2>1, <2>2
<1>5. ASSUME NEW h \in InvHandlers, PayReadCoin(h)
      PROVE  OverdraftInv'
  <2> DEFINE r == invReq[h]
             r1 == [r EXCEPT !.op = "pay"]
  <2>1. /\ r.op = "payCoin" /\ coin[r.user] >= invoice[r.id].amount
        /\ invReq' = [invReq EXCEPT ![h] = r1]
        /\ UNCHANGED <<coin, invoice, receipts>>
    BY <1>0, <1>5 DEF PayReadCoin, CanPay, ledgerVars, TypeOK
  <2>2. r \in [op : {"payCoin", "pay", "cancel"}, user : Users, id : InvoiceIds]
    BY <1>0, <2>1 DEF TypeOK, InvoiceRequests, Idle
  <2>3. r1.op = "pay" /\ r1.user = r.user /\ r1.id = r.id
    BY <2>2
  <2> HIDE DEF r1
  <2>4. invReq'[h] = r1 /\ OnlyChanges(h)
    BY <1>0, <2>1 DEF TypeOK, OnlyChanges
  <2>5. \A v \in Users : Claim(v)'[h] = IF v = r.user THEN invoice[r.id].amount ELSE 0
    BY <2>1, <2>3, <2>4 DEF Claim
  <2>6. QED
    BY <1>2, <2>1, <2>4, <2>5
<1>6. ASSUME NEW h \in InvHandlers, PayCommit(h)
      PROVE  OverdraftInv'
  <2> DEFINE r == invReq[h]
             a == invoice[r.id].amount
             to == invoice[r.id].creator
             row == [from |-> r.user, to |-> to, amount |-> a]
  <2>1. /\ r.op = "pay" /\ r.id \in InvoiceIds /\ r.user \in Users
        /\ to \in Users /\ a \in Amounts /\ a \in Int /\ a > 0
        /\ receipts[r.id] = <<>>
    <3>1. /\ r.id \in InvoiceIds /\ r.user \in Users /\ Pending(r.id)
          /\ to \in Users /\ a \in Amounts
      BY <1>0, <1>6, PaymentFacts
    <3>2. receipts[r.id] = <<>>
      BY <1>0, <3>1 DEF PaidExactlyOnce, Pending
    <3>3. r.op = "pay"
      BY <1>6 DEF PayCommit
    <3>4. QED
      BY <3>1, <3>2, <3>3, AmountIsPositive
  <2>2. /\ coin' = Move(coin, r.user, to, a)
        /\ receipts' = [receipts EXCEPT ![r.id] = Append(receipts[r.id], row)]
        /\ invReq'[h] = Idle /\ OnlyChanges(h)
    BY <1>0, <1>6 DEF PayCommit, Done, TypeOK, OnlyChanges
  <2>3. /\ row.from = r.user /\ receipts'[r.id] # <<>> /\ receipts'[r.id][1] = row
        /\ \A i \in InvoiceIds \ {r.id} : receipts'[i] = receipts[i]
    <3>1. row.from = r.user
      OBVIOUS
    <3> HIDE DEF row
    <3>2. receipts'[r.id] = <<row>>
      BY <1>0, <2>1, <2>2 DEF TypeOK
    <3>3. \A i \in InvoiceIds \ {r.id} : receipts'[i] = receipts[i]
      BY <1>0, <2>2 DEF TypeOK
    <3>4. QED
      BY <3>1, <3>2, <3>3
  <2> HIDE DEF row
  <2>4. ASSUME NEW u \in Users
        PROVE  TakesNothing(u, h) \/ TakesClaim(u, h)
    <3>1. Claim(u)[h] = (IF u = r.user THEN a ELSE 0) /\ Claim(u)'[h] = 0
      BY <2>1, <2>2 DEF Claim, Idle
    <3>2. IF u = r.user THEN coin'[u] >= coin[u] - a ELSE coin'[u] >= coin[u]
      <4> HIDE DEF r, a, to
      <4>1. QED
        BY <1>0, <2>1, <2>2 DEF Move, Credit, Debit, TypeOK
    <3>3. CASE u = r.user
      <4>1. r.id \notin PaidBy(u) /\ PaidBy(u)' = PaidBy(u) \cup {r.id}
        BY <2>1, <2>3, <3>3 DEF PaidBy
      <4>2. IsFiniteSet(PaidBy(u))
        BY InvoicesLoadAssumption, FS_Subset DEF PaidBy
      <4>3. Times(u)' = Times(u) + 1
        BY <4>1, <4>2, FS_AddElement DEF Times
      <4>4. QED
        BY <2>1, <3>1, <3>2, <3>3, <4>3 DEF TakesClaim
    <3>4. CASE u # r.user
      <4>1. PaidBy(u)' = PaidBy(u)
        BY <2>1, <2>3, <3>4 DEF PaidBy
      <4>2. QED
        BY <3>1, <3>2, <3>4, <4>1 DEF TakesNothing, Times
    <3>5. QED
      BY <3>3, <3>4
  <2>5. QED
    BY <1>1, <2>2, <2>4
<1>7. ASSUME NEW h \in InvHandlers, Done(h), UNCHANGED <<coin, receipts>>
      PROVE  OverdraftInv'
  <2>1. Idle.op # "pay" /\ invReq' = [invReq EXCEPT ![h] = Idle]
    BY <1>7 DEF Done, Idle
  <2>2. QED
    BY <1>4, <1>7, <2>1
<1>8. ASSUME NEW h \in InvHandlers, NEW u \in Users, NEW i \in InvoiceIds,
             \/ PayRead(h, u, i)
             \/ CancelRead(h, u, i)
             \/ \E to \in Users : TransferDebtRead(h, u, i, to)
      PROVE  OverdraftInv'
  <2>1. UNCHANGED <<coin, receipts>>
    BY <1>8 DEF PayRead, CancelRead, TransferDebtRead, ledgerVars
  <2>2. \E q : q.op # "pay" /\ invReq' = [invReq EXCEPT ![h] = q]
    BY <1>8 DEF PayRead, CancelRead, TransferDebtRead
  <2>3. QED
    BY <1>4, <2>1, <2>2
<1>9. CASE UNCHANGED vars
  <2>1. UNCHANGED <<coin, invoice, receipts, invReq>>
    BY <1>9 DEF vars, ledgerVars, invoiceVars
  <2>2. QED
    BY <2>1 DEF OverdraftInv, InvoicesCover, HandlersCover, Times, PaidBy, Claim
<1>10. QED
  BY <1>3, <1>5, <1>6, <1>7, <1>8, <1>9
     DEF InvoicesNext, PayConflict, TransferDebtCommit, CancelCommit,
         CancelConflict, InvoiceFail, ledgerVars

LEMMA OverdraftImplied == InvoicesInv /\ OverdraftInv => OverdraftBounded
<1> SUFFICES ASSUME InvoicesInv, OverdraftInv, NEW u \in Users
             PROVE  LET together == Min({Cardinality(InvHandlers), Cardinality(InvoiceIds)})
                    IN coin[u] >= -((together - 1) * Max(Amounts))
  BY DEF OverdraftBounded
<1> DEFINE M == Max(Amounts)
           nh == Cardinality(InvHandlers)
           ni == Cardinality(InvoiceIds)
           n == Times(u)
<1>1. /\ M \in Nat /\ n \in Nat /\ n <= ni /\ nh \in Nat /\ ni \in Nat /\ ni # 0
      /\ coin[u] \in Int
  BY LargestAmount, ClaimsAreTyped, InvoicesLoadAssumption, FS_CardinalityType,
     FS_EmptySet, Int4IsInt DEF ClaimsTyped, InvoicesInv, TypeOK
<1>2. coin[u] >= -((nh - 1) * M)
  <2>1. CoversClaims(coin[u], Claim(u), InvHandlers, M)
    BY DEF OverdraftInv, HandlersCover
  <2>2. /\ Claim(u) \in [InvHandlers -> Int]
        /\ \A h \in InvHandlers : 0 <= Claim(u)[h] /\ Claim(u)[h] <= M
    BY ClaimsAreTyped DEF ClaimsTyped
  <2>3. coin[u] >= -Slack(InvHandlers, M)
    <3> HIDE DEF M
    <3>1. QED
      BY <1>1, <2>1, <2>2, InvoicesLoadAssumption, ClaimsCoverBalance
  <2>4. QED
    BY <2>3 DEF Slack
<1>3. coin[u] >= -((ni - 1) * M)
  <2>1. RowsCoverClaims(coin[u], Claim(u), InvHandlers, n, M)
    BY DEF OverdraftInv, InvoicesCover
  <2> HIDE DEF M, ni, n
  <2>2. QED
    BY <1>1, <2>1, RowsCoverBalance
<1>4. Min({nh, ni}) \in {nh, ni}
  <2> HIDE DEF nh, ni
  <2>1. \E x \in {nh, ni} : \A y \in {nh, ni} : x =< y
    BY <1>1
  <2>2. QED
    BY <2>1 DEF Min
<1>5. QED
  BY <1>2, <1>3, <1>4

(* No balance ever lacks more than what all the other payments under way,  *)
(* or all the other invoices, can have taken since it was checked, for any *)
(* number of each and however debts are handed on meanwhile.               *)
THEOREM OverdraftCorrect == InvoicesSpec => []OverdraftBounded
<1>1. InvoicesInit => InvoicesInv /\ OverdraftInv
  BY InvInitially, OverdraftInitially
<1>2. InvoicesInv /\ OverdraftInv /\ [InvoicesNext]_vars => (InvoicesInv /\ OverdraftInv)'
  BY InvNext, OverdraftNext
<1>3. QED
  BY <1>1, <1>2, OverdraftImplied, PTL DEF InvoicesSpec
=============================================================================
