------------------------- MODULE TransactionsProofs -------------------------
(***************************************************************************)
(* Theorems about Transactions, for any users, handlers and amounts, and   *)
(* about the settlements taken beside it.                                  *)
(***************************************************************************)
EXTENDS Settlements, SumTheorems, TLAPS

-----------------------------------------------------------------------------
(* What a request under way is made of.                                    *)
LEMMA TransferRequest ==
  ASSUME TypeOK, NEW h \in Handlers, bankReq[h].op = "transfer"
  PROVE  /\ bankReq[h].user \in Users
         /\ bankReq[h].to \in Users
         /\ bankReq[h].user # bankReq[h].to
         /\ bankReq[h].amount \in Amounts
         /\ bankReq[h] # Idle
BY DEF TypeOK, BankRequests, Idle

LEMMA RepayRequest ==
  ASSUME TypeOK, NEW h \in Handlers, bankReq[h].op = "repay"
  PROVE  /\ bankReq[h].user \in Users
         /\ bankReq[h].amount \in Amounts
         /\ bankReq[h] # Idle
BY DEF TypeOK, BankRequests, Idle

LEMMA AmountIsPositive ==
  ASSUME NEW a \in Amounts
  PROVE  a \in Int /\ a > 0
BY LedgerAssumption, TransactionsAssumption

(* Column values are integers.                                             *)
LEMMA Int4IsInt == Int4 \subseteq Int
BY LedgerAssumption DEF Int4

LEMMA RowIsTyped ==
  ASSUME NEW b \in [Users -> Int], NEW from, NEW to, NEW a \in Int
  PROVE  Row(b, from, to, a) \in [Users -> Int]
BY DEF Row

-----------------------------------------------------------------------------
LEMMA TypeInit == TransactionsInit => TypeOK
BY LedgerAssumption DEF TransactionsInit, LedgerInit, TypeOK, Int4

LEMMA TypeNext == TypeOK /\ [TransactionsNext]_vars => TypeOK'
<1> SUFFICES ASSUME TypeOK, [TransactionsNext]_vars
             PROVE  TypeOK'
  OBVIOUS
<1> USE AmountIsPositive, Int4IsInt
<1>1. ASSUME NEW u \in Users, NEW a \in Amounts, Borrow(u, a)
      PROVE  TypeOK'
  <2>1. coin' \in [Users -> Int4] /\ bankDebt' \in [Users -> Int4]
    BY <1>1 DEF TypeOK, Borrow, Credit, Fits
  <2>2. booked' \in [Users -> Int]
    BY <1>1, RowIsTyped DEF TypeOK, Borrow
  <2>3. owed' \in [Users -> Int]
    BY <1>1 DEF TypeOK, Borrow, Credit
  <2>4. QED
    BY <1>1, <2>1, <2>2, <2>3 DEF TypeOK, Borrow
<1>2. ASSUME NEW h \in Handlers, NEW from \in Users, NEW to \in Users,
             NEW a \in Amounts, TransferCheck(h, from, to, a)
      PROVE  TypeOK'
  <2>1. [op |-> "transfer", user |-> from, to |-> to, amount |-> a] \in BankRequests
    BY <1>2 DEF TransferCheck, OtherUser, BankRequests
  <2>2. QED
    BY <1>2, <2>1 DEF TypeOK, TransferCheck, ledgerVars
<1>3. ASSUME NEW h \in Handlers, TransferCommit(h)
      PROVE  TypeOK'
  <2>1. /\ bankReq[h].user \in Users /\ bankReq[h].to \in Users
        /\ bankReq[h].amount \in Int
    BY <1>3, TransferRequest DEF TransferCommit
  <2>2. coin' \in [Users -> Int4]
    BY <1>3, <2>1 DEF TypeOK, TransferCommit, Move, Credit, Debit, Fits
  <2>3. booked' \in [Users -> Int]
    BY <1>3, <2>1, RowIsTyped DEF TypeOK, TransferCommit
  <2>4. QED
    BY <1>3, <2>2, <2>3 DEF TypeOK, TransferCommit
<1>4. ASSUME NEW h \in Handlers, NEW u \in Users, NEW a \in Amounts,
             RepayCheck(h, u, a)
      PROVE  TypeOK'
  <2>1. [op |-> "repay", user |-> u, amount |-> a] \in BankRequests
    BY DEF BankRequests
  <2>2. QED
    BY <1>4, <2>1 DEF TypeOK, RepayCheck, ledgerVars
<1>5. ASSUME NEW h \in Handlers, RepayCommit(h)
      PROVE  TypeOK'
  <2>1. bankReq[h].user \in Users /\ bankReq[h].amount \in Int
    BY <1>5, RepayRequest DEF RepayCommit
  <2>2. coin' \in [Users -> Int4] /\ bankDebt' \in [Users -> Int4]
    BY <1>5, <2>1 DEF TypeOK, RepayCommit, RepaidDebt, Debit, Fits
  <2>3. booked' \in [Users -> Int]
    BY <1>5, <2>1, RowIsTyped DEF TypeOK, RepayCommit, RepayRow
  <2>4. owed' \in [Users -> Int]
    BY <1>5, <2>1 DEF TypeOK, RepayCommit, Debit
  <2>5. QED
    BY <1>5, <2>2, <2>3, <2>4 DEF TypeOK, RepayCommit
<1>6. ASSUME NEW h \in Handlers, BankFail(h)
      PROVE  TypeOK'
  BY <1>6 DEF TypeOK, BankFail, ledgerVars
<1>7. CASE UNCHANGED vars
  BY <1>7 DEF TypeOK, vars, ledgerVars, bankVars
<1>8. QED
  BY <1>1, <1>2, <1>3, <1>4, <1>5, <1>6, <1>7 DEF TransactionsNext

(* Balances and debts never leave their columns, and every request under   *)
(* way is one the checks let through.                                      *)
THEOREM TypeCorrect == TransactionsSpec => []TypeOK
BY TypeInit, TypeNext, PTL DEF TransactionsSpec

-----------------------------------------------------------------------------
LEMMA LedgerInitially == TransactionsInit => LedgerExplainsBalances
<1>1. \A u \in Users : StartCoin[u] \in Int
  BY LedgerAssumption
<1>2. ASSUME TransactionsInit, NEW u \in Users
      PROVE  /\ coin[u] = StartCoin[u] + booked[u]
             /\ bankDebt[u] = owed[u]
  <2>1. coin[u] = StartCoin[u] /\ booked[u] = 0
    BY <1>2 DEF TransactionsInit, LedgerInit
  <2>2. bankDebt[u] = 0 /\ owed[u] = 0
    BY <1>2 DEF TransactionsInit
  <2>3. QED
    BY <1>1, <2>1, <2>2
<1>3. QED
  BY <1>2 DEF LedgerExplainsBalances

LEMMA LedgerNext ==
  TypeOK /\ LedgerExplainsBalances /\ [TransactionsNext]_vars
    => LedgerExplainsBalances'
<1> SUFFICES ASSUME TypeOK, LedgerExplainsBalances, [TransactionsNext]_vars,
                    NEW v \in Users
             PROVE  /\ coin'[v] = StartCoin[v] + booked'[v]
                    /\ bankDebt'[v] = owed'[v]
  BY DEF LedgerExplainsBalances
<1> USE AmountIsPositive, Int4IsInt, LedgerAssumption
<1>0. /\ coin[v] = StartCoin[v] + booked[v] /\ bankDebt[v] = owed[v]
      /\ coin[v] \in Int /\ booked[v] \in Int /\ StartCoin[v] \in Int
      /\ bankDebt[v] \in Int /\ owed[v] \in Int
  BY DEF LedgerExplainsBalances, TypeOK
<1>1. ASSUME NEW u \in Users, NEW a \in Amounts, Borrow(u, a)
      PROVE  coin'[v] = StartCoin[v] + booked'[v] /\ bankDebt'[v] = owed'[v]
  BY <1>0, <1>1 DEF TypeOK, Borrow, Credit, Row
<1>2. ASSUME NEW h \in Handlers, TransferCommit(h)
      PROVE  coin'[v] = StartCoin[v] + booked'[v] /\ bankDebt'[v] = owed'[v]
  <2>1. /\ bankReq[h].user \in Users /\ bankReq[h].to \in Users
        /\ bankReq[h].user # bankReq[h].to /\ bankReq[h].amount \in Int
    BY <1>2, TransferRequest DEF TransferCommit
  <2>2. QED
    BY <1>0, <1>2, <2>1 DEF TypeOK, TransferCommit, Move, Credit, Debit, Row
<1>3. ASSUME NEW h \in Handlers, RepayCommit(h)
      PROVE  coin'[v] = StartCoin[v] + booked'[v] /\ bankDebt'[v] = owed'[v]
  <2>1. bankReq[h].user \in Users /\ bankReq[h].amount \in Int
    BY <1>3, RepayRequest DEF RepayCommit
  <2>2. QED
    BY <1>0, <1>3, <2>1
       DEF TypeOK, RepayCommit, RepaidDebt, RepayRow, Debit, Row
<1>4. ASSUME UNCHANGED <<ledgerVars, bankDebt, owed>>
      PROVE  coin'[v] = StartCoin[v] + booked'[v] /\ bankDebt'[v] = owed'[v]
  BY <1>0, <1>4 DEF ledgerVars
<1>5. QED
  BY <1>1, <1>2, <1>3, <1>4
     DEF TransactionsNext, TransferCheck, RepayCheck, BankFail, vars, bankVars

(* The rows of the public ledger account for every balance and every debt, *)
(* whatever interleaving of requests, rollbacks and overflows.             *)
THEOREM LedgerCorrect == TransactionsSpec => []LedgerExplainsBalances
BY TypeInit, TypeNext, LedgerInitially, LedgerNext, PTL DEF TransactionsSpec

-----------------------------------------------------------------------------
(* One step of net worth: nobody's moves, or one amount from one user to   *)
(* another.                                                                *)
NetMove ==
  \/ \A u \in Users : Net(u)' = Net(u)
  \/ \E from, to \in Users, a \in Amounts :
       /\ Net(from)' = Net(from) - a
       /\ Net(to)' = Net(to) + a
       /\ \A u \in Users \ {from, to} : Net(u)' = Net(u)

LEMMA NetNext == TypeOK /\ TransactionsNext => NetMove
<1> SUFFICES ASSUME TypeOK, TransactionsNext PROVE NetMove
  OBVIOUS
<1> USE AmountIsPositive, Int4IsInt
<1>0. \A u \in Users : coin[u] \in Int /\ bankDebt[u] \in Int
  BY DEF TypeOK
<1>1. ASSUME NEW v \in Users, NEW a \in Amounts, Borrow(v, a)
      PROVE  NetMove
  <2>1. \A u \in Users : Net(u)' = Net(u)
    BY <1>0, <1>1 DEF TypeOK, Borrow, Credit, Net
  <2>2. QED
    BY <2>1 DEF NetMove
<1>2. ASSUME NEW h \in Handlers, TransferCommit(h)
      PROVE  NetMove
  <2>1. PICK from \in Users, to \in Users, a \in Amounts :
          /\ from = bankReq[h].user /\ to = bankReq[h].to
          /\ a = bankReq[h].amount /\ from # to
    BY <1>2, TransferRequest DEF TransferCommit
  <2>2. /\ coin'[from] = coin[from] - a
        /\ coin'[to] = coin[to] + a
        /\ \A u \in Users \ {from, to} : coin'[u] = coin[u]
        /\ bankDebt' = bankDebt
    BY <1>0, <1>2, <2>1 DEF TypeOK, TransferCommit, Move, Credit, Debit
  <2>3. /\ Net(from)' = Net(from) - a
        /\ Net(to)' = Net(to) + a
        /\ \A u \in Users \ {from, to} : Net(u)' = Net(u)
    BY <1>0, <2>1, <2>2 DEF Net
  <2>4. QED
    BY <2>1, <2>3 DEF NetMove
<1>3. ASSUME NEW h \in Handlers, RepayCommit(h)
      PROVE  NetMove
  <2>1. bankReq[h].user \in Users /\ bankReq[h].amount \in Int
    BY <1>3, RepayRequest DEF RepayCommit
  <2>2. \A u \in Users : Net(u)' = Net(u)
    BY <1>0, <1>3, <2>1 DEF TypeOK, RepayCommit, RepaidDebt, Debit, Net
  <2>3. QED
    BY <2>2 DEF NetMove
<1>4. ASSUME UNCHANGED <<ledgerVars, bankDebt, owed>>
      PROVE  NetMove
  <2>1. \A u \in Users : Net(u)' = Net(u)
    BY <1>4 DEF ledgerVars, Net
  <2>2. QED
    BY <2>1 DEF NetMove
<1>5. QED
  BY <1>1, <1>2, <1>3, <1>4
     DEF TransactionsNext, TransferCheck, RepayCheck, BankFail

(* No step of any number of concurrent requests creates or destroys net    *)
(* worth: at most one amount moves, from one user to one other.            *)
THEOREM NetWorthConserved == TransactionsSpec => NetWorthOnlyMoves
<1>1. TypeOK /\ [TransactionsNext]_vars => [NetMove]_vars
  BY NetNext
<1>2. QED
  BY <1>1, TypeInit, TypeNext, PTL DEF TransactionsSpec, NetWorthOnlyMoves, NetMove

-----------------------------------------------------------------------------
(* The invariant behind the balance checks when clients wait for their     *)
(* answers: a check, once passed, stays true until its own commit, because *)
(* no other request that takes from the same user is under way.            *)
ChecksStillHold ==
  \A h \in Handlers :
    /\ bankReq[h].op = "transfer" =>
         coin[bankReq[h].user] >= bankReq[h].amount
    /\ bankReq[h].op = "repay" =>
         /\ coin[bankReq[h].user] >= bankReq[h].amount
         /\ bankDebt[bankReq[h].user] >= bankReq[h].amount

WaitingInv == /\ TypeOK
              /\ OneAtATime
              /\ NoOverdraft
              /\ NoOverRepay
              /\ ChecksStillHold

LEMMA WaitingInitially == TransactionsInit => WaitingInv
<1> SUFFICES ASSUME TransactionsInit PROVE WaitingInv
  OBVIOUS
<1>1. TypeOK
  BY TypeInit
<1>2. OneAtATime /\ ChecksStillHold
  BY DEF TransactionsInit, OneAtATime, ChecksStillHold, Idle
<1>3. \A u \in Users : StartCoin[u] >= 0
  BY LedgerAssumption
<1>4. NoOverdraft /\ NoOverRepay
  BY <1>3 DEF TransactionsInit, LedgerInit, NoOverdraft, NoOverRepay
<1>5. QED
  BY <1>1, <1>2, <1>4 DEF WaitingInv

(* Every request but h, whose user no other request has, is left as it     *)
(* was, and other users' balances do not go down.                          *)
LEMMA OthersUntouched ==
  ASSUME TypeOK, OneAtATime, NEW h \in Handlers, bankReq[h] # Idle,
         bankReq' = [bankReq EXCEPT ![h] = Idle],
         NEW g \in Handlers, bankReq'[g] # Idle
  PROVE  /\ bankReq'[g] = bankReq[g]
         /\ bankReq[g].user \in Users
         /\ bankReq[g].user # bankReq[h].user
         /\ bankReq[g].amount \in Amounts
<1>1. g # h
  BY DEF TypeOK
<1>2. bankReq'[g] = bankReq[g] /\ bankReq[g] # Idle
  BY <1>1 DEF TypeOK
<1>3. bankReq[g].user # bankReq[h].user
  BY <1>1, <1>2 DEF OneAtATime
<1>4. QED
  BY <1>2, <1>3 DEF TypeOK, BankRequests, Idle

LEMMA WaitingNext ==
  WaitingInv /\ [TransactionsNext /\ OneAtATime']_vars => WaitingInv'
<1> SUFFICES ASSUME WaitingInv, [TransactionsNext /\ OneAtATime']_vars
             PROVE  WaitingInv'
  OBVIOUS
<1> USE AmountIsPositive, Int4IsInt
<1>0. /\ TypeOK /\ OneAtATime /\ NoOverdraft /\ NoOverRepay /\ ChecksStillHold
      /\ \A u \in Users : coin[u] \in Int /\ bankDebt[u] \in Int
  BY DEF WaitingInv, TypeOK
<1>1. TypeOK' /\ OneAtATime'
  <2>1. TypeOK'
    BY <1>0, TypeNext
  <2>2. OneAtATime'
    BY <1>0 DEF OneAtATime, vars, bankVars
  <2>3. QED
    BY <2>1, <2>2
<1>2. ASSUME NEW v \in Users, NEW a \in Amounts, Borrow(v, a)
      PROVE  NoOverdraft' /\ NoOverRepay' /\ ChecksStillHold'
  <2>1. \A u \in Users : coin'[u] >= coin[u] /\ bankDebt'[u] >= bankDebt[u]
                         /\ coin'[u] \in Int /\ bankDebt'[u] \in Int
    BY <1>0, <1>2 DEF TypeOK, Borrow, Credit
  <2>2. NoOverdraft' /\ NoOverRepay'
    BY <1>0, <2>1 DEF NoOverdraft, NoOverRepay
  <2>3. ChecksStillHold'
    BY <1>0, <1>2, <2>1, TransferRequest, RepayRequest DEF ChecksStillHold, Borrow
  <2>4. QED
    BY <2>2, <2>3
<1>3. ASSUME NEW h \in Handlers, NEW from \in Users, NEW to \in Users,
             NEW a \in Amounts, TransferCheck(h, from, to, a)
      PROVE  NoOverdraft' /\ NoOverRepay' /\ ChecksStillHold'
  <2>1. ChecksStillHold'
    BY <1>0, <1>3 DEF TypeOK, ChecksStillHold, TransferCheck, SufficientBalance, ledgerVars
  <2>2. QED
    BY <1>0, <1>3, <2>1 DEF TransferCheck, ledgerVars, NoOverdraft, NoOverRepay
<1>4. ASSUME NEW h \in Handlers, TransferCommit(h)
      PROVE  NoOverdraft' /\ NoOverRepay' /\ ChecksStillHold'
  <2>1. /\ bankReq[h].user \in Users /\ bankReq[h].to \in Users
        /\ bankReq[h].user # bankReq[h].to
        /\ bankReq[h].amount \in Amounts /\ bankReq[h] # Idle
        /\ coin[bankReq[h].user] >= bankReq[h].amount
        /\ bankReq' = [bankReq EXCEPT ![h] = Idle]
    BY <1>0, <1>4, TransferRequest DEF TransferCommit, ChecksStillHold
  <2>2. /\ coin'[bankReq[h].user] = coin[bankReq[h].user] - bankReq[h].amount
        /\ \A u \in Users \ {bankReq[h].user} : coin'[u] >= coin[u]
        /\ \A u \in Users : coin'[u] \in Int
        /\ bankDebt' = bankDebt
    BY <1>0, <1>4, <2>1 DEF TypeOK, TransferCommit, Move, Credit, Debit
  <2>3. NoOverdraft' /\ NoOverRepay'
    BY <1>0, <2>1, <2>2 DEF NoOverdraft, NoOverRepay
  <2>4. ASSUME NEW g \in Handlers, bankReq'[g] # Idle
        PROVE  /\ bankReq'[g] = bankReq[g]
               /\ coin'[bankReq[g].user] >= coin[bankReq[g].user]
               /\ bankDebt'[bankReq[g].user] = bankDebt[bankReq[g].user]
               /\ bankReq[g].user \in Users /\ bankReq[g].amount \in Int
    <3>1. /\ bankReq'[g] = bankReq[g]
          /\ bankReq[g].user \in Users \ {bankReq[h].user}
          /\ bankReq[g].amount \in Amounts
      BY <1>0, <2>1, <2>4, OthersUntouched
    <3>2. QED
      BY <1>0, <2>2, <3>1
  <2>5. ChecksStillHold'
    <3> SUFFICES ASSUME NEW g \in Handlers, bankReq'[g] # Idle
                 PROVE  /\ bankReq'[g].op = "transfer" =>
                             coin'[bankReq'[g].user] >= bankReq'[g].amount
                        /\ bankReq'[g].op = "repay" =>
                             /\ coin'[bankReq'[g].user] >= bankReq'[g].amount
                             /\ bankDebt'[bankReq'[g].user] >= bankReq'[g].amount
      BY DEF ChecksStillHold, Idle
    <3>1. /\ bankReq[g].op = "transfer" =>
               coin[bankReq[g].user] >= bankReq[g].amount
          /\ bankReq[g].op = "repay" =>
               /\ coin[bankReq[g].user] >= bankReq[g].amount
               /\ bankDebt[bankReq[g].user] >= bankReq[g].amount
      BY <1>0 DEF ChecksStillHold
    <3>2. coin'[bankReq[g].user] \in Int /\ bankDebt'[bankReq[g].user] \in Int
      BY <1>1, <2>4, Int4IsInt DEF TypeOK
    <3>3. QED
      BY <1>0, <2>4, <3>1, <3>2
  <2>6. QED
    BY <2>3, <2>5
<1>5. ASSUME NEW h \in Handlers, NEW u \in Users, NEW a \in Amounts,
             RepayCheck(h, u, a)
      PROVE  NoOverdraft' /\ NoOverRepay' /\ ChecksStillHold'
  <2>1. ChecksStillHold'
    BY <1>0, <1>5 DEF TypeOK, ChecksStillHold, RepayCheck, SufficientBalance,
                      WithinDebt, ledgerVars
  <2>2. QED
    BY <1>0, <1>5, <2>1 DEF RepayCheck, ledgerVars, NoOverdraft, NoOverRepay
<1>6. ASSUME NEW h \in Handlers, RepayCommit(h)
      PROVE  NoOverdraft' /\ NoOverRepay' /\ ChecksStillHold'
  <2>1. /\ bankReq[h].user \in Users
        /\ bankReq[h].amount \in Amounts /\ bankReq[h] # Idle
        /\ coin[bankReq[h].user] >= bankReq[h].amount
        /\ bankDebt[bankReq[h].user] >= bankReq[h].amount
        /\ bankReq' = [bankReq EXCEPT ![h] = Idle]
    BY <1>0, <1>6, RepayRequest DEF RepayCommit, ChecksStillHold
  <2>2. /\ coin'[bankReq[h].user] = coin[bankReq[h].user] - bankReq[h].amount
        /\ bankDebt'[bankReq[h].user] = bankDebt[bankReq[h].user] - bankReq[h].amount
        /\ \A u \in Users \ {bankReq[h].user} :
             coin'[u] = coin[u] /\ bankDebt'[u] = bankDebt[u]
    BY <1>0, <1>6, <2>1 DEF TypeOK, RepayCommit, RepaidDebt, Debit
  <2>3. NoOverdraft' /\ NoOverRepay'
    BY <1>0, <2>1, <2>2 DEF NoOverdraft, NoOverRepay
  <2>4. ASSUME NEW g \in Handlers, bankReq'[g] # Idle
        PROVE  /\ bankReq'[g] = bankReq[g]
               /\ coin'[bankReq[g].user] >= coin[bankReq[g].user]
               /\ bankDebt'[bankReq[g].user] = bankDebt[bankReq[g].user]
               /\ bankReq[g].user \in Users /\ bankReq[g].amount \in Int
    <3>1. /\ bankReq'[g] = bankReq[g]
          /\ bankReq[g].user \in Users \ {bankReq[h].user}
          /\ bankReq[g].amount \in Amounts
      BY <1>0, <2>1, <2>4, OthersUntouched
    <3>2. QED
      BY <1>0, <2>2, <3>1
  <2>5. ChecksStillHold'
    <3> SUFFICES ASSUME NEW g \in Handlers, bankReq'[g] # Idle
                 PROVE  /\ bankReq'[g].op = "transfer" =>
                             coin'[bankReq'[g].user] >= bankReq'[g].amount
                        /\ bankReq'[g].op = "repay" =>
                             /\ coin'[bankReq'[g].user] >= bankReq'[g].amount
                             /\ bankDebt'[bankReq'[g].user] >= bankReq'[g].amount
      BY DEF ChecksStillHold, Idle
    <3>1. /\ bankReq[g].op = "transfer" =>
               coin[bankReq[g].user] >= bankReq[g].amount
          /\ bankReq[g].op = "repay" =>
               /\ coin[bankReq[g].user] >= bankReq[g].amount
               /\ bankDebt[bankReq[g].user] >= bankReq[g].amount
      BY <1>0 DEF ChecksStillHold
    <3>2. coin'[bankReq[g].user] \in Int /\ bankDebt'[bankReq[g].user] \in Int
      BY <1>1, <2>4, Int4IsInt DEF TypeOK
    <3>3. QED
      BY <1>0, <2>4, <3>1, <3>2
  <2>6. QED
    BY <2>3, <2>5
<1>7. ASSUME NEW h \in Handlers, BankFail(h)
      PROVE  NoOverdraft' /\ NoOverRepay' /\ ChecksStillHold'
  BY <1>0, <1>7 DEF TypeOK, BankFail, ledgerVars, NoOverdraft, NoOverRepay,
                    ChecksStillHold, Idle
<1>8. ASSUME UNCHANGED vars
      PROVE  NoOverdraft' /\ NoOverRepay' /\ ChecksStillHold'
  BY <1>0, <1>8 DEF vars, ledgerVars, bankVars, NoOverdraft, NoOverRepay,
                    ChecksStillHold
<1>9. NoOverdraft' /\ NoOverRepay' /\ ChecksStillHold'
  BY <1>2, <1>3, <1>4, <1>5, <1>6, <1>7, <1>8 DEF TransactionsNext
<1>10. QED
  BY <1>1, <1>9 DEF WaitingInv

(* As long as no user has two transfers or repayments under way at once,   *)
(* the balance checks are enough: no balance goes below zero, although     *)
(* every other user's requests interleave between check and commit.        *)
THEOREM WaitingNoOverdraft == WaitingClientsSpec => []NoOverdraft
<1>1. WaitingInv => NoOverdraft
  BY DEF WaitingInv
<1>2. QED
  BY <1>1, WaitingInitially, WaitingNext, PTL DEF WaitingClientsSpec

(* Under the same condition nobody repays more than the debt.              *)
THEOREM WaitingNoOverRepay == WaitingClientsSpec => []NoOverRepay
<1>1. WaitingInv => NoOverRepay
  BY DEF WaitingInv
<1>2. QED
  BY <1>1, WaitingInitially, WaitingNext, PTL DEF WaitingClientsSpec

-----------------------------------------------------------------------------
(* The invariant behind the balance checks when clients do not wait: what  *)
(* the requests under way may still take from a user, all together.        *)
Claim(u) == [h \in Handlers |->
  IF bankReq[h] # Idle /\ bankReq[h].user = u THEN bankReq[h].amount ELSE 0]

ClaimsCovered ==
  \A u \in Users : CoversClaims(coin[u], Claim(u), Handlers, Max(Amounts))

LEMMA LargestAmount ==
  /\ Max(Amounts) \in Nat
  /\ \A a \in Amounts : a \in Nat /\ a <= Max(Amounts)
<1>1. IsFiniteSet(1 .. MaxInt)
  BY LedgerAssumption, FS_Interval
<1>2. Amounts \subseteq Nat /\ Amounts \subseteq Int
  BY TransactionsAssumption, LedgerAssumption
<1>3. \E m \in Amounts : \A a \in Amounts : m >= a
  <2>1. IsFiniteSet(Amounts)
    BY <1>1, TransactionsAssumption, FS_Subset
  <2>2. QED
    BY <1>2, <2>1, BankLoadAssumption, LargestExists
<1>4. Max(Amounts) \in Amounts /\ \A a \in Amounts : Max(Amounts) >= a
  BY <1>3 DEF Max
<1>5. QED
  BY <1>2, <1>4

LEMMA ClaimIsTyped ==
  ASSUME TypeOK, NEW u \in Users
  PROVE  /\ Claim(u) \in [Handlers -> Int]
         /\ \A h \in Handlers : 0 <= Claim(u)[h] /\ Claim(u)[h] <= Max(Amounts)
<1>1. \A h \in Handlers : bankReq[h] # Idle => bankReq[h].amount \in Amounts
  BY DEF TypeOK, BankRequests
<1>2. QED
  BY <1>1, LargestAmount DEF Claim

LEMMA ClaimsInitially == TransactionsInit => ClaimsCovered
<1> SUFFICES ASSUME TransactionsInit, NEW u \in Users
             PROVE  CoversClaims(coin[u], Claim(u), Handlers, Max(Amounts))
  BY DEF ClaimsCovered
<1>1. Claim(u) \in [Handlers -> Int] /\ \A h \in Handlers : Claim(u)[h] = 0
  BY DEF TransactionsInit, Claim
<1>2. coin[u] \in Nat
  BY LedgerAssumption DEF TransactionsInit, LedgerInit
<1>3. QED
  BY <1>1, <1>2, BankLoadAssumption, LargestAmount, NoClaims

(* A check that passes is covered on its own; a commit takes what it has   *)
(* claimed; everything else leaves more to cover the claims with.          *)
LEMMA ClaimsNext ==
  TypeOK /\ ClaimsCovered /\ [TransactionsNext]_vars => ClaimsCovered'
<1> SUFFICES ASSUME TypeOK, ClaimsCovered, [TransactionsNext]_vars,
                    NEW u \in Users
             PROVE  CoversClaims(coin[u], Claim(u), Handlers, Max(Amounts))'
  BY DEF ClaimsCovered
<1> DEFINE M == Max(Amounts)
           Covered == CoversClaims(coin'[u], Claim(u)', Handlers, M)
<1>0. SUFFICES Covered
  OBVIOUS
<1>1. /\ TypeOK' /\ coin[u] \in Int /\ coin'[u] \in Int
      /\ CoversClaims(coin[u], Claim(u), Handlers, M) /\ M \in Nat
      /\ IsFiniteSet(Handlers) /\ Claim(u) \in [Handlers -> Int]
  BY TypeNext, Int4IsInt, ClaimIsTyped, LargestAmount, BankLoadAssumption
     DEF TypeOK, ClaimsCovered
<1>2. /\ Claim(u)' \in [Handlers -> Int]
      /\ \A h \in Handlers : 0 <= Claim(u)'[h] /\ Claim(u)'[h] <= M
  <2>1. \A h \in Handlers : bankReq'[h] # Idle => bankReq'[h].amount \in Amounts
    BY <1>1 DEF TypeOK, BankRequests
  <2>2. QED
    BY <2>1, LargestAmount DEF Claim
<1> HIDE DEF M
<1>3. ASSUME NEW h \in Handlers,
             \A g \in Handlers \ {h} : bankReq'[g] = bankReq[g],
             \/ coin'[u] - coin[u] >= Claim(u)'[h] - Claim(u)[h]
             \/ coin'[u] >= Claim(u)'[h]
      PROVE  Covered
  <2>1. \A g \in Handlers \ {h} : Claim(u)'[g] = Claim(u)[g]
    BY <1>3 DEF Claim
  <2>2. QED
    BY <1>1, <1>2, <1>3, <2>1, ClaimsStayCovered
<1>4. ASSUME NEW h \in Handlers, NEW v \in Users, NEW a \in Amounts,
             bankReq[h] = Idle, coin[v] >= a,
             bankReq'[h] # Idle, bankReq'[h].user = v, bankReq'[h].amount = a,
             \A g \in Handlers \ {h} : bankReq'[g] = bankReq[g],
             coin' = coin
      PROVE  Covered
  <2>1. Claim(u)[h] = 0 /\ Claim(u)'[h] = IF u = v THEN a ELSE 0
    BY <1>4 DEF Claim
  <2>2. QED
    BY <1>1, <1>3, <1>4, <2>1
<1>5. ASSUME NEW h \in Handlers, NEW v \in Users, NEW a \in Amounts,
             bankReq[h] # Idle, bankReq[h].user = v, bankReq[h].amount = a,
             bankReq' = [bankReq EXCEPT ![h] = Idle],
             coin'[v] >= coin[v] - a,
             \A w \in Users \ {v} : coin'[w] >= coin[w]
      PROVE  Covered
  <2>1. bankReq'[h] = Idle /\ \A g \in Handlers \ {h} : bankReq'[g] = bankReq[g]
    BY <1>5 DEF TypeOK
  <2>2. Claim(u)'[h] = 0 /\ Claim(u)[h] = IF u = v THEN a ELSE 0
    BY <1>5, <2>1 DEF Claim
  <2>3. a \in Int
    BY LargestAmount
  <2>4. coin'[u] - coin[u] >= Claim(u)'[h] - Claim(u)[h]
    BY <1>1, <1>5, <2>2, <2>3
  <2>5. QED
    BY <1>3, <2>1, <2>4
<1>6. ASSUME NEW v \in Users, NEW a \in Amounts, Borrow(v, a)
      PROVE  Covered
  <2>1. coin'[u] >= coin[u]
    BY <1>1, <1>6, LargestAmount DEF TypeOK, Borrow, Credit
  <2>2. Claim(u)' = Claim(u)
    BY <1>6 DEF Borrow, Claim
  <2>3. PICK h \in Handlers : TRUE
    BY BankLoadAssumption
  <2>4. QED
    BY <1>1, <1>2, <1>3, <1>6, <2>1, <2>2, <2>3 DEF Borrow
<1>7. ASSUME NEW h \in Handlers, NEW from \in Users, NEW to \in Users,
             NEW a \in Amounts, TransferCheck(h, from, to, a)
      PROVE  Covered
  BY <1>4, <1>7 DEF TypeOK, TransferCheck, SufficientBalance, ledgerVars, Idle
<1>8. ASSUME NEW h \in Handlers, TransferCommit(h)
      PROVE  Covered
  <2> DEFINE v == bankReq[h].user
             a == bankReq[h].amount
  <2>1. /\ v \in Users /\ bankReq[h].to \in Users /\ v # bankReq[h].to
        /\ a \in Amounts /\ bankReq[h] # Idle
    BY <1>8, TransferRequest DEF TransferCommit
  <2>2. coin'[v] >= coin[v] - a /\ \A w \in Users \ {v} : coin'[w] >= coin[w]
    <3>1. \A w \in Users : coin[w] \in Int
      BY Int4IsInt DEF TypeOK
    <3>2. QED
      BY <1>8, <2>1, <3>1, LargestAmount
         DEF TypeOK, TransferCommit, Move, Credit, Debit
  <2>3. QED
    BY <1>5, <1>8, <2>1, <2>2 DEF TransferCommit
<1>9. ASSUME NEW h \in Handlers, NEW v \in Users, NEW a \in Amounts,
             RepayCheck(h, v, a)
      PROVE  Covered
  BY <1>4, <1>9 DEF TypeOK, RepayCheck, SufficientBalance, ledgerVars, Idle
<1>10. ASSUME NEW h \in Handlers, RepayCommit(h)
       PROVE  Covered
  <2> DEFINE v == bankReq[h].user
             a == bankReq[h].amount
  <2>1. v \in Users /\ a \in Amounts /\ bankReq[h] # Idle
    BY <1>10, RepayRequest DEF RepayCommit
  <2>2. coin'[v] >= coin[v] - a /\ \A w \in Users \ {v} : coin'[w] >= coin[w]
    <3>1. \A w \in Users : coin[w] \in Int
      BY Int4IsInt DEF TypeOK
    <3>2. QED
      BY <1>10, <2>1, <3>1, LargestAmount DEF TypeOK, RepayCommit, Debit
  <2>3. QED
    BY <1>5, <1>10, <2>1, <2>2 DEF RepayCommit
<1>11. ASSUME NEW h \in Handlers, BankFail(h)
       PROVE  Covered
  <2>1. /\ bankReq[h].user \in Users /\ bankReq[h].amount \in Amounts
        /\ \A w \in Users : coin[w] \in Int
    BY <1>11, Int4IsInt DEF TypeOK, BankRequests, BankFail
  <2>2. /\ coin'[bankReq[h].user] >= coin[bankReq[h].user] - bankReq[h].amount
        /\ \A w \in Users : coin'[w] >= coin[w]
    BY <1>11, <2>1, LargestAmount DEF BankFail, ledgerVars
  <2>3. QED
    BY <1>5, <1>11, <2>1, <2>2 DEF BankFail
<1>12. CASE UNCHANGED vars
  <2>1. coin'[u] = coin[u] /\ Claim(u)' = Claim(u)
    BY <1>12 DEF vars, ledgerVars, bankVars, Claim
  <2>2. QED
    BY <1>1, <2>1
<1>13. QED
  BY <1>6, <1>7, <1>8, <1>9, <1>10, <1>11, <1>12 DEF TransactionsNext

(* However stale the checks are, a balance goes no further below zero than *)
(* what all the requests under way but one can take.                       *)
THEOREM OverdraftCorrect == TransactionsSpec => []OverdraftBounded
<1>1. TypeOK /\ ClaimsCovered => OverdraftBounded
  <2> SUFFICES ASSUME TypeOK, ClaimsCovered, NEW u \in Users
               PROVE  coin[u] >= -Slack(Handlers, Max(Amounts))
    BY DEF OverdraftBounded, Slack
  <2>1. /\ CoversClaims(coin[u], Claim(u), Handlers, Max(Amounts))
        /\ coin[u] \in Int
    BY Int4IsInt DEF ClaimsCovered, TypeOK
  <2>2. QED
    BY <2>1, ClaimIsTyped, LargestAmount, BankLoadAssumption, ClaimsCoverBalance
<1>2. QED
  BY <1>1, TypeInit, TypeNext, ClaimsInitially, ClaimsNext, PTL
     DEF TransactionsSpec

-----------------------------------------------------------------------------
(* A settlement only reads what the bank serves.                           *)
THEOREM SettlementsOnlyRead == SettlementsSpec => TransactionsSpec
<1>1. SettlementsInit => TransactionsInit
  BY DEF SettlementsInit
<1>2. [SettlementsNext]_allVars => [TransactionsNext]_vars
  BY DEF SettlementsNext, SettleRead, SettleCommit, SettleFail, allVars
<1>3. QED
  BY <1>1, <1>2, PTL DEF SettlementsSpec, TransactionsSpec

(* The invariant behind the settlements: the nets of the table, of what    *)
(* run has read and of what it has written add up to the opening money.    *)
Opening == SumFunction(StartCoin)
Nets == [u \in Users |-> Net(u)]
ReadNets == [u \in Users |-> usersRead[u].coin - usersRead[u].bankDebt]

NetsAddUp ==
  /\ SumFunction(Nets) = Opening
  /\ usersRead # NoSnapshot => SumFunction(ReadNets) = Opening
  /\ SettlementBalances

LEMMA NetsInitially == SettlementsInit => NetsAddUp
<1> SUFFICES ASSUME SettlementsInit PROVE NetsAddUp
  OBVIOUS
<1>1. StartCoin = [u \in Users |-> StartCoin[u]] /\ \A u \in Users : StartCoin[u] \in Int
  BY LedgerAssumption
<1>2. \A u \in Users : Net(u) = StartCoin[u]
  BY <1>1 DEF SettlementsInit, TransactionsInit, LedgerInit, Net
<1>3. Nets = StartCoin
  BY <1>1, <1>2 DEF Nets
<1>4. QED
  BY <1>3 DEF NetsAddUp, Opening, SettlementsInit, SettlementBalances

LEMMA NetsKept ==
  ASSUME TypeOK, TypeOK', NetMove
  PROVE  SumFunction(Nets)' = SumFunction(Nets)
<1>a. \A u \in Users : /\ coin[u] \in Int /\ bankDebt[u] \in Int
                         /\ coin'[u] \in Int /\ bankDebt'[u] \in Int
  BY Int4IsInt DEF TypeOK
<1>b. \A u \in Users : Net(u) \in Int /\ Net(u)' \in Int
  BY <1>a DEF Net
<1>1. Nets \in [Users -> Int] /\ Nets' \in [Users -> Int]
  BY <1>b DEF Nets
<1>2. CASE \A u \in Users : Net(u)' = Net(u)
  BY <1>2 DEF Nets
<1>3. ASSUME NEW from \in Users, NEW to \in Users, NEW a \in Amounts,
             Net(from)' = Net(from) - a, Net(to)' = Net(to) + a,
             \A u \in Users \ {from, to} : Net(u)' = Net(u)
      PROVE  SumFunction(Nets)' = SumFunction(Nets)
  <2>1. a \in Int /\ a > 0 /\ Net(from) \in Int /\ Net(to) \in Int
    BY <1>b, AmountIsPositive
  <2>2. from # to
    BY <1>3, <2>1
  <2>3. /\ Nets'[from] = Nets[from] - a /\ Nets'[to] = Nets[to] + a
        /\ \A u \in Users \ {from, to} : Nets'[u] = Nets[u]
    BY <1>3 DEF Nets
  <2>4. QED
    BY <1>1, <2>1, <2>2, <2>3, UsersAssumption, SumKept
<1>4. QED
  BY <1>2, <1>3 DEF NetMove

LEMMA NetsNext ==
  TypeOK /\ NetsAddUp /\ [SettlementsNext]_allVars => NetsAddUp'
<1> SUFFICES ASSUME TypeOK, NetsAddUp, [SettlementsNext]_allVars
             PROVE  NetsAddUp'
  OBVIOUS
<1>1. CASE TransactionsNext /\ UNCHANGED settlementVars
  <2>1. TypeOK' /\ NetMove
    BY <1>1, TypeNext, NetNext
  <2>2. SumFunction(Nets)' = Opening
    BY <2>1, NetsKept DEF NetsAddUp
  <2>3. ReadNets' = ReadNets /\ SettlementBalances' /\ usersRead' = usersRead
    BY <1>1 DEF settlementVars, ReadNets, SettlementBalances, NetsAddUp
  <2>4. QED
    BY <2>2, <2>3 DEF NetsAddUp, Opening
<1>2. CASE SettleRead
  <2>1. Nets' = Nets /\ SettlementBalances'
    BY <1>2 DEF SettleRead, vars, ledgerVars, bankVars, Nets, Net,
                NetsAddUp, SettlementBalances
  <2>2. \A u \in Users : usersRead'[u].coin - usersRead'[u].bankDebt = Net(u)
    BY <1>2 DEF SettleRead, FindUsers, Net
  <2>3. ReadNets' = Nets
    BY <2>2 DEF ReadNets, Nets
  <2>4. QED
    BY <2>1, <2>3 DEF NetsAddUp, Opening
<1>3. CASE SettleCommit
  <2>1. Nets' = Nets /\ usersRead # NoSnapshot /\ usersRead' = NoSnapshot
    BY <1>3 DEF SettleCommit, vars, ledgerVars, bankVars, Nets, Net
  <2>2. \A u \in Users :
          settlement'[u].net = usersRead[u].coin - usersRead[u].bankDebt
    BY <1>3 DEF SettleCommit, Snapshots
  <2>3. [u \in Users |-> settlement'[u].net] = ReadNets
    BY <2>2 DEF ReadNets
  <2>4. SettlementBalances'
    BY <2>1, <2>3 DEF SettlementBalances, NetsAddUp, Opening
  <2>5. QED
    BY <2>1, <2>4 DEF NetsAddUp, Opening
<1>4. CASE SettleFail
  <2>1. Nets' = Nets /\ usersRead' = NoSnapshot /\ SettlementBalances'
    BY <1>4 DEF SettleFail, vars, ledgerVars, bankVars, Nets, Net, NetsAddUp,
                SettlementBalances
  <2>2. QED
    BY <2>1 DEF NetsAddUp, Opening
<1>5. CASE UNCHANGED allVars
  <2>1. /\ Nets' = Nets /\ ReadNets' = ReadNets /\ usersRead' = usersRead
        /\ SettlementBalances'
    BY <1>5 DEF allVars, vars, ledgerVars, bankVars, settlementVars, Nets, Net,
                ReadNets, NetsAddUp, SettlementBalances
  <2>2. QED
    BY <2>1 DEF NetsAddUp, Opening
<1>6. QED
  BY <1>1, <1>2, <1>3, <1>4, <1>5 DEF SettlementsNext

(* Every settlement is a consistent cut: the nets of its snapshot rows add *)
(* up to the opening money, whatever commits between its read and its      *)
(* write, for any number of users.                                         *)
THEOREM SettlementCorrect == SettlementsSpec => []SettlementBalances
<1>1. SettlementsInit => TypeOK /\ NetsAddUp
  BY TypeInit, NetsInitially DEF SettlementsInit
<1>2. TypeOK /\ NetsAddUp /\ [SettlementsNext]_allVars => (TypeOK /\ NetsAddUp)'
  <2>1. [SettlementsNext]_allVars => [TransactionsNext]_vars
    BY DEF SettlementsNext, SettleRead, SettleCommit, SettleFail, allVars
  <2>2. QED
    BY <2>1, TypeNext, NetsNext
<1>3. NetsAddUp => SettlementBalances
  BY DEF NetsAddUp
<1>4. QED
  BY <1>1, <1>2, <1>3, PTL DEF SettlementsSpec

=============================================================================
