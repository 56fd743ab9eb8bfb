---------------------------- MODULE Transactions ----------------------------
(***************************************************************************)
(* TransactionsService: transfer, borrow and repay.                        *)
(*                                                                         *)
(* A request is served by one of Handlers.  transfer and repay read the    *)
(* balances outside any transaction, await, and only then open the         *)
(* transaction that moves the money, so each is two steps with every other *)
(* request free to run between them.  A transaction (READ COMMITTED, row   *)
(* locks held until commit, relative updates) is one step against the      *)
(* values committed at that moment.  A request whose guard fails answers   *)
(* with an error and changes nothing, so it is no step at all.             *)
(***************************************************************************)
EXTENDS Ledger, FiniteSetsExt

CONSTANTS
  Handlers,   \* the requests the server can have in flight at once
  Amounts     \* the amounts asked for

ASSUME TransactionsAssumption == Amounts \subseteq 1 .. MaxInt

(* Bounds on what requests under way can take together need there to be    *)
(* finitely many of them, and at least one.                                *)
ASSUME BankLoadAssumption ==
  Amounts # {} /\ Handlers # {} /\ IsFiniteSet(Handlers)

VARIABLES
  bankDebt,   \* bankDebt[u]: users.bankDebt
  owed,       \* owed[u]: BORROW rows minus REPAY rows of u
  bankReq     \* bankReq[h]: the request h has checked and not yet committed

bankVars == <<bankDebt, owed, bankReq>>
vars == <<ledgerVars, bankVars>>

Idle == [op |-> "idle"]

BankRequests ==
  {r \in [op : {"transfer"}, user : Users, to : Users, amount : Amounts] :
     r.user # r.to}
  \cup [op : {"repay"}, user : Users, amount : Amounts]

TransactionsInit ==
  /\ LedgerInit
  /\ bankDebt = [u \in Users |-> 0]
  /\ owed = [u \in Users |-> 0]
  /\ bankReq = [h \in Handlers |-> Idle]

-----------------------------------------------------------------------------
(* Guards.                                                                 *)

OffByOneBalance(u, a) == coin[u] + 1 >= a
SufficientBalance(u, a) == coin[u] >= a

UncheckedTarget(from, to) == TRUE
OtherUser(from, to) == from # to

PartialDebtCheck(u, a) == bankDebt[u] > 0
WithinDebt(u, a) == bankDebt[u] >= a

(* Rows.                                                                   *)

ReversedRepayRow(u, a) == Row(booked, NoUser, u, a)
RepayRow(u, a) == Row(booked, u, NoUser, a)

-----------------------------------------------------------------------------
(* transfer: the checks, read from the users table outside a transaction.  *)
TransferCheck(h, from, to, a) ==
  /\ bankReq[h] = Idle
  /\ OtherUser(from, to)
  /\ SufficientBalance(from, a)
  /\ bankReq' = [bankReq EXCEPT ![h] =
       [op |-> "transfer", user |-> from, to |-> to, amount |-> a]]
  /\ UNCHANGED <<ledgerVars, bankDebt, owed>>

(* transfer: the transaction.  Nothing is read again.                      *)
TransferCommit(h) ==
  LET r == bankReq[h] IN
  /\ r.op = "transfer"
  /\ coin' = Move(coin, r.user, r.to, r.amount)
  /\ Fits(coin')
  /\ booked' = Row(booked, r.user, r.to, r.amount)
  /\ bankReq' = [bankReq EXCEPT ![h] = Idle]
  /\ UNCHANGED <<bankDebt, owed>>

(* borrow: one transaction that reads nothing, hence a single step.        *)
Borrow(u, a) ==
  /\ coin' = Credit(coin, u, a)
  /\ bankDebt' = Credit(bankDebt, u, a)
  /\ Fits(coin') /\ Fits(bankDebt')
  /\ booked' = Row(booked, NoUser, u, a)
  /\ owed' = Credit(owed, u, a)
  /\ UNCHANGED bankReq

(* repay: the checks, outside the transaction.                             *)
RepayCheck(h, u, a) ==
  /\ bankReq[h] = Idle
  /\ SufficientBalance(u, a)
  /\ WithinDebt(u, a)
  /\ bankReq' = [bankReq EXCEPT ![h] =
       [op |-> "repay", user |-> u, amount |-> a]]
  /\ UNCHANGED <<ledgerVars, bankDebt, owed>>

ForgetfulRepay(u, a) == bankDebt
RepaidDebt(u, a) == Debit(bankDebt, u, a)

(* repay: the transaction.                                                 *)
RepayCommit(h) ==
  LET r == bankReq[h] IN
  /\ r.op = "repay"
  /\ coin' = Debit(coin, r.user, r.amount)
  /\ bankDebt' = RepaidDebt(r.user, r.amount)
  /\ Fits(coin') /\ Fits(bankDebt')
  /\ booked' = RepayRow(r.user, r.amount)
  /\ owed' = Debit(owed, r.user, r.amount)
  /\ bankReq' = [bankReq EXCEPT ![h] = Idle]

(* The transaction of h is rolled back: an Int overflow, a deadlock of the *)
(* two row updates, the time limit, a lost connection, a crash.            *)
BankFail(h) ==
  /\ bankReq[h] # Idle
  /\ bankReq' = [bankReq EXCEPT ![h] = Idle]
  /\ UNCHANGED <<ledgerVars, bankDebt, owed>>

TransactionsNext ==
  \/ \E u \in Users, a \in Amounts : Borrow(u, a)
  \/ \E h \in Handlers :
       \/ \E from, to \in Users, a \in Amounts : TransferCheck(h, from, to, a)
       \/ TransferCommit(h)
       \/ \E u \in Users, a \in Amounts : RepayCheck(h, u, a)
       \/ RepayCommit(h)
       \/ BankFail(h)

TransactionsSpec == TransactionsInit /\ [][TransactionsNext]_vars

(* The same system when a user never has two transfers or repayments under *)
(* way: what a client that waits for each answer produces.  Other users'   *)
(* requests still interleave freely.                                       *)
OneAtATime ==
  \A g, h \in Handlers :
    (bankReq[g] # Idle /\ bankReq[h] # Idle /\ bankReq[g].user = bankReq[h].user)
      => g = h

WaitingClientsSpec == TransactionsInit /\ [][TransactionsNext /\ OneAtATime']_vars

-----------------------------------------------------------------------------
(* Type invariant: balances and debts stay in their columns and a request  *)
(* under way is one the checks let through.                                *)
TypeOK ==
  /\ coin \in [Users -> Int4]
  /\ bankDebt \in [Users -> Int4]
  /\ booked \in [Users -> Int]
  /\ owed \in [Users -> Int]
  /\ bankReq \in [Handlers -> BankRequests \cup {Idle}]

(* The public ledger accounts for the users table: replaying the committed *)
(* rows over the opening balances gives every coin balance, and the BORROW *)
(* and REPAY rows give every debt, after any interleaving and any abort.   *)
LedgerExplainsBalances ==
  \A u \in Users : /\ coin[u] = StartCoin[u] + booked[u]
                   /\ bankDebt[u] = owed[u]

(* What a user owns once the debt to the bank is taken off.                *)
Net(u) == coin[u] - bankDebt[u]

(* No step creates or destroys net worth: whatever one user gains, exactly *)
(* one other user loses; borrowing and repaying change no one's net worth. *)
NetWorthOnlyMoves ==
  [][\/ \A u \in Users : Net(u)' = Net(u)
     \/ \E from, to \in Users, a \in Amounts :
          /\ Net(from)' = Net(from) - a
          /\ Net(to)' = Net(to) + a
          /\ \A u \in Users \ {from, to} : Net(u)' = Net(u)]_vars

(* transfer and repay refuse amounts above the balance: with clients that  *)
(* wait for their answers a balance never goes below zero.                 *)
NoOverdraft == \A u \in Users : coin[u] >= 0

(* repay refuses more than the debt: nobody ever owes the bank a negative  *)
(* amount.                                                                 *)
NoOverRepay == \A u \in Users : bankDebt[u] >= 0

(* Stale checks cost at most what the other requests under way can take:   *)
(* each of them passed its check, so one of them alone never overdraws and *)
(* a balance stays above minus the others' largest amounts.                *)
OverdraftBounded ==
  \A u \in Users : coin[u] >= -((Cardinality(Handlers) - 1) * Max(Amounts))
=============================================================================
