----------------------------- MODULE MarketProofs -----------------------------
(***************************************************************************)
(* Theorems about Market, for any users, rows, amounts and requests in     *)
(* flight: with clients that wait for their answers, the checks that each  *)
(* component makes on an unlocked read are enough against all of them.     *)
(***************************************************************************)
EXTENDS Market, Sequences, SumTheorems, TLAPS

(* Requests and rows have their shape, and a request about a row found it. *)
BankShape ==
  /\ coin \in [Users -> Int] /\ bankDebt \in [Users -> Int]
  /\ bankReq \in [Handlers -> BankRequests \cup {Idle}]

InvoicesShape ==
  /\ invoice \in [InvoiceIds -> Inv!Rows \cup {Inv!NoInvoice}]
  /\ invReq \in [InvHandlers -> Inv!InvoiceRequests \cup {Idle}]
  /\ \A h \in InvHandlers : invReq[h] # Idle => invoice[invReq[h].id] \in Inv!Rows

ArenaShape ==
  /\ room \in [RoomIds -> Arn!Rooms \cup {Arn!NoRoom}]
  /\ arenaReq \in [ArenaHandlers -> Arn!ArenaRequests \cup {Idle}]
  /\ \A h \in ArenaHandlers : arenaReq[h].op \in {"joinCoin", "join"} =>
       room[arenaReq[h].id] \in Arn!Rooms

Shape == BankShape /\ InvoicesShape /\ ArenaShape

(* Whatever a request under way has checked still covers what it will take.*)
BankCovered ==
  \A h \in Handlers : bankReq[h] # Idle =>
    /\ coin[bankReq[h].user] >= bankReq[h].amount
    /\ bankReq[h].op = "repay" => bankDebt[bankReq[h].user] >= bankReq[h].amount

InvoicesCovered ==
  \A h \in InvHandlers : invReq[h].op = "pay" =>
    coin[invReq[h].user] >= invoice[invReq[h].id].amount

ArenaCovered ==
  \A h \in ArenaHandlers :
    /\ arenaReq[h].op = "create" => coin[arenaReq[h].user] >= arenaReq[h].amount
    /\ arenaReq[h].op = "join" =>
         coin[arenaReq[h].user] >= room[arenaReq[h].id].amount

Covered == BankCovered /\ InvoicesCovered /\ ArenaCovered

Solvent == NoOverdraft /\ NoOverRepay

MarketInv == Shape /\ Covered /\ Solvent /\ OneRequestPerUser

-----------------------------------------------------------------------------
LEMMA AmountsArePositive ==
  /\ \A a \in Amounts : a \in Nat \ {0}
  /\ \A a \in Arn!Stakes : a \in Nat \ {0}
  /\ NoUser \notin Users
BY LedgerAssumption, TransactionsAssumption DEF Arn!Stakes

LEMMA IdleIsIdle == Inv!Idle = Idle /\ Arn!Idle = Idle
BY DEF Idle, Inv!Idle, Arn!Idle

LEMMA BankRequestIsTyped ==
  ASSUME Shape, NEW h \in Handlers, bankReq[h] # Idle
  PROVE  /\ bankReq[h].user \in Users /\ bankReq[h].amount \in Nat \ {0}
         /\ bankReq[h].op = "transfer" => bankReq[h].to \in Users
BY AmountsArePositive DEF Shape, BankShape, BankRequests, Idle

LEMMA InvoiceRequestIsTyped ==
  ASSUME Shape, NEW h \in InvHandlers, invReq[h] # Idle
  PROVE  /\ invReq[h].user \in Users /\ invReq[h].id \in InvoiceIds
         /\ invoice[invReq[h].id].creator \in Users
         /\ invoice[invReq[h].id].amount \in Nat \ {0}
BY AmountsArePositive
   DEF Shape, InvoicesShape, Inv!InvoiceRequests, Inv!Rows, Idle

LEMMA ArenaRequestIsTyped ==
  ASSUME Shape, NEW h \in ArenaHandlers, arenaReq[h] # Idle
  PROVE  /\ arenaReq[h].user \in Users
         /\ arenaReq[h].op = "create" => arenaReq[h].amount \in Nat \ {0}
         /\ arenaReq[h].op \in {"joinCoin", "join"} =>
              /\ arenaReq[h].id \in RoomIds
              /\ room[arenaReq[h].id].owner \in Users
              /\ room[arenaReq[h].id].amount \in Nat \ {0}
BY AmountsArePositive
   DEF Shape, ArenaShape, Arn!ArenaRequests, Arn!Rooms, Idle

(* A step takes a from w at most, and nothing from anybody else.           *)
Takes(w, a) ==
  /\ coin' \in [Users -> Int]
  /\ \A v \in Users : IF v = w THEN coin'[v] >= coin[v] - a
                      ELSE coin'[v] >= coin[v]

LEMMA MoveTakes ==
  ASSUME Shape, NEW from \in Users, NEW to \in Users, NEW a \in Nat,
         coin' = Move(coin, from, to, a)
  PROVE  Takes(from, a)
<1> DEFINE b == Debit(coin, from, a)
<1>1. /\ b \in [Users -> Int]
      /\ \A v \in Users : b[v] = IF v = from THEN coin[v] - a ELSE coin[v]
  BY DEF Shape, BankShape, Debit
<1>2. coin' = [b EXCEPT ![to] = @ + a]
  BY DEF Move, Credit
<1> HIDE DEF b
<1>3. /\ coin' \in [Users -> Int]
      /\ \A v \in Users : coin'[v] = IF v = to THEN b[v] + a ELSE b[v]
  BY <1>1, <1>2
<1>4. ASSUME NEW v \in Users
      PROVE  IF v = from THEN coin'[v] >= coin[v] - a ELSE coin'[v] >= coin[v]
  <2>1. coin[v] \in Int
    BY DEF Shape, BankShape
  <2>2. QED
    BY <1>1, <1>3, <2>1
<1>5. QED
  BY <1>3, <1>4 DEF Takes

LEMMA DebitTakes ==
  ASSUME Shape, NEW w \in Users, NEW a \in Nat, coin' = Debit(coin, w, a)
  PROVE  Takes(w, a)
<1>1. /\ coin' \in [Users -> Int]
      /\ \A v \in Users : coin'[v] = IF v = w THEN coin[v] - a ELSE coin[v]
  BY DEF Shape, BankShape, Debit
<1>2. \A v \in Users : coin[v] \in Int
  BY DEF Shape, BankShape
<1>3. QED
  BY <1>1, <1>2 DEF Takes

(* A match takes the stake of the challenger, and pays.                    *)
LEMMA PayoutTakes ==
  ASSUME Shape, NEW owner \in Users, NEW w \in Users, NEW a \in Nat,
         NEW winner \in {owner, w, NoUser},
         coin' = Arn!Payout(owner, w, winner, a)
  PROVE  Takes(w, a)
<1> DEFINE b == Debit(coin, w, a)
<1>1. /\ b \in [Users -> Int]
      /\ \A v \in Users : b[v] = IF v = w THEN coin[v] - a ELSE coin[v]
  BY DEF Shape, BankShape, Debit
<1>2. coin' = IF winner = NoUser
              THEN [[b EXCEPT ![owner] = @ + a] EXCEPT ![w] = @ + a]
              ELSE [b EXCEPT ![winner] = @ + 2 * a]
  BY DEF Arn!Payout, Arn!Debit, Arn!Credit, Debit, Credit
<1> HIDE DEF b
<1>3. coin' \in [Users -> Int] /\ \A v \in Users : coin'[v] >= b[v]
  <2>1. CASE winner = NoUser
    <3> DEFINE c == [b EXCEPT ![owner] = @ + a]
    <3>1. c \in [Users -> Int] /\ \A v \in Users : c[v] >= b[v]
      BY <1>1
    <3>2. coin' = [c EXCEPT ![w] = @ + a]
      BY <1>2, <2>1
    <3> HIDE DEF c
    <3>3. coin' \in [Users -> Int] /\ \A v \in Users : coin'[v] >= c[v]
      BY <3>1, <3>2
    <3>4. \A v \in Users : b[v] \in Int /\ c[v] \in Int /\ coin'[v] \in Int
      BY <1>1, <3>1, <3>3
    <3>5. QED
      BY <3>1, <3>3, <3>4
  <2>2. CASE winner # NoUser
    <3>1. winner \in Users /\ coin' = [b EXCEPT ![winner] = @ + 2 * a]
      BY <1>2, <2>2
    <3>2. QED
      BY <1>1, <3>1
  <2>3. QED
    BY <2>1, <2>2
<1>4. \A v \in Users : coin[v] \in Int
  BY DEF Shape, BankShape
<1>5. QED
  BY <1>1, <1>3, <1>4 DEF Takes

(* Whoever had the coins keeps at least zero.                              *)
LEMMA TakenFromTheCovered ==
  ASSUME Shape, NoOverdraft, NEW w, NEW a \in Nat, Takes(w, a),
         w \in Users => coin[w] >= a
  PROVE  NoOverdraft'
<1>1. \A v \in Users : coin[v] \in Int /\ coin'[v] \in Int /\ coin[v] >= 0
  BY DEF Shape, BankShape, NoOverdraft, Takes
<1>2. QED
  BY <1>1 DEF Takes, NoOverdraft

-----------------------------------------------------------------------------
(* A step of w leaves the requests of everybody else covered.              *)
LEMMA BankStaysCovered ==
  ASSUME Shape, BankCovered, NEW w, NEW a \in Nat, Takes(w, a),
         bankDebt' \in [Users -> Int],
         \A v \in Users : v # w => bankDebt'[v] >= bankDebt[v],
         \A g \in Handlers : bankReq'[g] # Idle =>
           bankReq'[g] = bankReq[g] /\ bankReq[g].user # w
  PROVE  BankCovered'
<1> SUFFICES ASSUME NEW g \in Handlers, bankReq'[g] # Idle
             PROVE  /\ coin'[bankReq[g].user] >= bankReq[g].amount
                    /\ bankReq[g].op = "repay" =>
                         bankDebt'[bankReq[g].user] >= bankReq[g].amount
  BY DEF BankCovered, Idle
<1> DEFINE u == bankReq[g].user
<1>1. /\ bankReq[g] # Idle /\ u # w /\ u \in Users /\ bankReq[g].amount \in Nat
  BY BankRequestIsTyped
<1>2. /\ coin[u] \in Int /\ coin'[u] \in Int /\ coin'[u] >= coin[u]
      /\ bankDebt[u] \in Int /\ bankDebt'[u] \in Int /\ bankDebt'[u] >= bankDebt[u]
  BY <1>1 DEF Shape, BankShape, Takes
<1>3. /\ coin[u] >= bankReq[g].amount
      /\ bankReq[g].op = "repay" => bankDebt[u] >= bankReq[g].amount
  BY <1>1 DEF BankCovered
<1>4. QED
  BY <1>1, <1>2, <1>3

LEMMA InvoicesStayCovered ==
  ASSUME Shape, InvoicesCovered, NEW w, NEW a \in Nat, Takes(w, a),
         \A i \in InvoiceIds : invoice[i] \in Inv!Rows =>
           invoice'[i].amount = invoice[i].amount,
         \A g \in InvHandlers : invReq'[g] # Idle =>
           invReq'[g] = invReq[g] /\ invReq[g].user # w
  PROVE  InvoicesCovered'
<1> SUFFICES ASSUME NEW g \in InvHandlers, invReq'[g].op = "pay"
             PROVE  coin'[invReq'[g].user] >= invoice'[invReq'[g].id].amount
  BY DEF InvoicesCovered
<1> DEFINE u == invReq[g].user
           i == invReq[g].id
<1>1. invReq'[g] = invReq[g] /\ invReq[g] # Idle /\ u # w
  BY DEF Idle
<1>2. /\ u \in Users /\ i \in InvoiceIds /\ invoice[i] \in Inv!Rows
      /\ invoice[i].amount \in Nat
  BY <1>1, InvoiceRequestIsTyped DEF Shape, InvoicesShape
<1>3. coin[u] \in Int /\ coin'[u] \in Int /\ coin'[u] >= coin[u]
  BY <1>1, <1>2 DEF Shape, BankShape, Takes
<1>4. coin[u] >= invoice[i].amount
  BY <1>1 DEF InvoicesCovered
<1>5. coin'[u] >= invoice'[i].amount
  BY <1>2, <1>3, <1>4
<1>6. QED
  BY <1>1, <1>5

LEMMA ArenaStayCovered ==
  ASSUME Shape, ArenaCovered, NEW w, NEW a \in Nat, Takes(w, a),
         \A r \in RoomIds : room[r] \in Arn!Rooms =>
           room'[r].amount = room[r].amount,
         \A g \in ArenaHandlers : arenaReq'[g] # Idle =>
           arenaReq'[g] = arenaReq[g] /\ arenaReq[g].user # w
  PROVE  ArenaCovered'
<1> SUFFICES ASSUME NEW g \in ArenaHandlers, arenaReq'[g].op \in {"create", "join"}
             PROVE  /\ arenaReq'[g].op = "create" =>
                         coin'[arenaReq'[g].user] >= arenaReq'[g].amount
                    /\ arenaReq'[g].op = "join" =>
                         coin'[arenaReq'[g].user] >= room'[arenaReq'[g].id].amount
  BY DEF ArenaCovered
<1> DEFINE u == arenaReq[g].user
<1>1. arenaReq'[g] = arenaReq[g] /\ arenaReq[g] # Idle /\ u # w
  BY DEF Idle
<1>2. u \in Users /\ coin[u] \in Int /\ coin'[u] \in Int /\ coin'[u] >= coin[u]
  BY <1>1, ArenaRequestIsTyped DEF Shape, BankShape, Takes
<1>3. CASE arenaReq[g].op = "create"
  <2>1. coin[u] >= arenaReq[g].amount /\ arenaReq[g].amount \in Nat
    BY <1>1, <1>3, ArenaRequestIsTyped DEF ArenaCovered
  <2>2. QED
    BY <1>1, <1>2, <1>3, <2>1
<1>4. CASE arenaReq[g].op = "join"
  <2> DEFINE r == arenaReq[g].id
  <2>1. /\ r \in RoomIds /\ room[r] \in Arn!Rooms /\ room[r].amount \in Nat
        /\ coin[u] >= room[r].amount
    BY <1>1, <1>4, ArenaRequestIsTyped DEF ArenaCovered, Shape, ArenaShape
  <2>2. coin'[u] >= room'[r].amount
    BY <1>2, <2>1
  <2>3. QED
    BY <1>1, <1>4, <2>2
<1>5. QED
  BY <1>1, <1>3, <1>4

-----------------------------------------------------------------------------
(* Clients that wait: whoever has a request under way has no other.        *)
LEMMA BankUserWaits ==
  ASSUME OneRequestPerUser, NEW h \in Handlers, bankReq[h] # Idle
  PROVE  /\ \A g \in Handlers \ {h} : bankReq[g] # Idle =>
              bankReq[g].user # bankReq[h].user
         /\ bankReq[h].user \in Users =>
              /\ \A g \in InvHandlers : invReq[g] # Idle =>
                   invReq[g].user # bankReq[h].user
              /\ \A g \in ArenaHandlers : arenaReq[g] # Idle =>
                   arenaReq[g].user # bankReq[h].user
BY DEF OneRequestPerUser, OneAtATime, BankBusy, InvoicesBusy, ArenaBusy

LEMMA InvoiceUserWaits ==
  ASSUME OneRequestPerUser, NEW h \in InvHandlers, invReq[h] # Idle
  PROVE  /\ \A g \in InvHandlers \ {h} : invReq[g] # Idle =>
              invReq[g].user # invReq[h].user
         /\ invReq[h].user \in Users =>
              /\ \A g \in Handlers : bankReq[g] # Idle =>
                   bankReq[g].user # invReq[h].user
              /\ \A g \in ArenaHandlers : arenaReq[g] # Idle =>
                   arenaReq[g].user # invReq[h].user
BY DEF OneRequestPerUser, BankBusy, InvoicesBusy, ArenaBusy

LEMMA ArenaUserWaits ==
  ASSUME OneRequestPerUser, NEW h \in ArenaHandlers, arenaReq[h] # Idle
  PROVE  /\ \A g \in ArenaHandlers \ {h} : arenaReq[g] # Idle =>
              arenaReq[g].user # arenaReq[h].user
         /\ arenaReq[h].user \in Users =>
              /\ \A g \in Handlers : bankReq[g] # Idle =>
                   bankReq[g].user # arenaReq[h].user
              /\ \A g \in InvHandlers : invReq[g] # Idle =>
                   invReq[g].user # arenaReq[h].user
BY DEF OneRequestPerUser, BankBusy, InvoicesBusy, ArenaBusy

(* What holds after a step, apart from how many requests a user has.       *)
Safe == Shape /\ Covered /\ Solvent

LEMMA SameCoinTakes ==
  ASSUME Shape, UNCHANGED coin
  PROVE  \A w : Takes(w, 0)
<1>1. coin' \in [Users -> Int] /\ \A v \in Users : coin[v] \in Int
  BY DEF Shape, BankShape
<1>2. QED
  BY <1>1 DEF Takes

-----------------------------------------------------------------------------
(* Steps of the bank.                                                      *)
LEMMA BankStepIsSafe ==
  ASSUME MarketInv, UNCHANGED <<invoiceVars, arenaVars>>,
         NEW w, NEW a \in Nat, Takes(w, a), w \in Users => coin[w] >= a,
         \A g \in InvHandlers : invReq[g] # Idle => invReq[g].user # w,
         \A g \in ArenaHandlers : arenaReq[g] # Idle => arenaReq[g].user # w,
         BankShape', BankCovered', NoOverRepay'
  PROVE  Safe'
<1>1. UNCHANGED <<invoice, receipts, invReq, room, matches, arenaReq>>
  BY DEF invoiceVars, arenaVars
<1>2. InvoicesShape' /\ ArenaShape'
  BY <1>1 DEF MarketInv, Shape, InvoicesShape, ArenaShape
<1>3. InvoicesCovered' /\ ArenaCovered'
  BY <1>1, InvoicesStayCovered, ArenaStayCovered DEF MarketInv, Covered
<1>4. NoOverdraft'
  BY TakenFromTheCovered DEF MarketInv, Solvent
<1>5. QED
  BY <1>2, <1>3, <1>4 DEF Safe, Shape, Covered, Solvent

LEMMA BankEndIsSafe ==
  ASSUME MarketInv, UNCHANGED <<invoiceVars, arenaVars>>,
         NEW h \in Handlers, bankReq[h] # Idle,
         bankReq' = [bankReq EXCEPT ![h] = Idle],
         NEW a \in Nat, Takes(bankReq[h].user, a), coin[bankReq[h].user] >= a,
         bankDebt' \in [Users -> Int], NoOverRepay',
         \A v \in Users : v # bankReq[h].user => bankDebt'[v] >= bankDebt[v]
  PROVE  Safe'
<1> DEFINE w == bankReq[h].user
<1>0. Shape /\ Covered /\ OneRequestPerUser
  BY DEF MarketInv
<1>1. w \in Users
  BY <1>0, BankRequestIsTyped
<1>2. BankShape'
  BY <1>0 DEF Shape, BankShape, Takes
<1>3. \A g \in Handlers : bankReq'[g] # Idle =>
        bankReq'[g] = bankReq[g] /\ bankReq[g].user # w
  <2>1. \A g \in Handlers : bankReq'[g] = IF g = h THEN Idle ELSE bankReq[g]
    BY <1>0 DEF Shape, BankShape
  <2>2. QED
    BY <1>0, <2>1, BankUserWaits
<1>4. BankCovered'
  BY <1>0, <1>3, BankStaysCovered DEF Covered
<1>5. QED
  BY <1>0, <1>1, <1>2, <1>4, BankUserWaits, BankStepIsSafe

(* A check that passes: its request is covered, and nothing has moved.     *)
LEMMA BankCheckIsSafe ==
  ASSUME MarketInv, UNCHANGED <<invoiceVars, arenaVars, ledgerVars, bankDebt>>,
         NEW h \in Handlers, NEW q \in BankRequests,
         bankReq' = [bankReq EXCEPT ![h] = q],
         coin[q.user] >= q.amount,
         q.op = "repay" => bankDebt[q.user] >= q.amount
  PROVE  Safe'
<1>0. Shape /\ Covered /\ Solvent
  BY DEF MarketInv
<1>1. UNCHANGED <<coin, bankDebt>>
  BY DEF ledgerVars
<1>2. BankShape' /\ NoOverRepay'
  BY <1>0, <1>1 DEF Shape, BankShape, Solvent, NoOverRepay
<1>3. \A g \in Handlers : bankReq'[g] = IF g = h THEN q ELSE bankReq[g]
  BY <1>0 DEF Shape, BankShape
<1>4. BankCovered'
  BY <1>0, <1>1, <1>3 DEF Covered, BankCovered
<1>5. /\ \A g \in InvHandlers : invReq[g] # Idle => invReq[g].user # NoUser
      /\ \A g \in ArenaHandlers : arenaReq[g] # Idle => arenaReq[g].user # NoUser
  BY <1>0, InvoiceRequestIsTyped, ArenaRequestIsTyped, AmountsArePositive
<1>6. QED
  BY <1>0, <1>1, <1>2, <1>4, <1>5, SameCoinTakes, BankStepIsSafe, AmountsArePositive

LEMMA BankIsSafe ==
  ASSUME MarketInv, TransactionsNext, UNCHANGED <<invoiceVars, arenaVars>>
  PROVE  Safe'
<1>0. Shape /\ Covered /\ Solvent
  BY DEF MarketInv
<1>1. /\ \A v \in Users : coin[v] \in Int /\ bankDebt[v] \in Int
      /\ \A v \in Users : bankDebt[v] >= 0
  BY <1>0 DEF Shape, BankShape, Solvent, NoOverRepay
<1>2. ASSUME NEW u \in Users, NEW a \in Amounts, Borrow(u, a) PROVE Safe'
  <2>1. /\ coin' = [coin EXCEPT ![u] = @ + a]
        /\ bankDebt' = [bankDebt EXCEPT ![u] = @ + a] /\ bankReq' = bankReq
        /\ a \in Nat
    BY <1>2, AmountsArePositive DEF Borrow, Credit
  <2>2. /\ coin' \in [Users -> Int] /\ bankDebt' \in [Users -> Int]
        /\ \A v \in Users : coin'[v] >= coin[v] /\ bankDebt'[v] >= bankDebt[v]
    BY <1>0, <1>1, <2>1 DEF Shape, BankShape
  <2>3. Takes(NoUser, 0)
    BY <2>2, AmountsArePositive DEF Takes
  <2>4. BankShape' /\ NoOverRepay'
    BY <1>0, <1>1, <2>1, <2>2 DEF Shape, BankShape, NoOverRepay
  <2>5. /\ \A g \in Handlers : bankReq[g] # Idle => bankReq[g].user # NoUser
        /\ \A g \in InvHandlers : invReq[g] # Idle => invReq[g].user # NoUser
        /\ \A g \in ArenaHandlers : arenaReq[g] # Idle => arenaReq[g].user # NoUser
    BY <1>0, BankRequestIsTyped, InvoiceRequestIsTyped, ArenaRequestIsTyped,
       AmountsArePositive
  <2>6. BankCovered'
    BY <1>0, <2>1, <2>2, <2>3, <2>5, BankStaysCovered DEF Covered
  <2>7. QED
    BY <2>3, <2>4, <2>5, <2>6, BankStepIsSafe, AmountsArePositive
<1>3. ASSUME NEW h \in Handlers, NEW from \in Users, NEW to \in Users,
             NEW a \in Amounts, TransferCheck(h, from, to, a)
      PROVE  Safe'
  <2> DEFINE q == [op |-> "transfer", user |-> from, to |-> to, amount |-> a]
  <2>1. q \in BankRequests /\ coin[q.user] >= q.amount /\ q.op # "repay"
    BY <1>3 DEF TransferCheck, OtherUser, SufficientBalance, BankRequests
  <2>2. bankReq' = [bankReq EXCEPT ![h] = q] /\ UNCHANGED <<ledgerVars, bankDebt>>
    BY <1>3 DEF TransferCheck
  <2> HIDE DEF q
  <2>3. QED
    BY <2>1, <2>2, BankCheckIsSafe
<1>4. ASSUME NEW h \in Handlers, NEW u \in Users, NEW a \in Amounts, RepayCheck(h, u, a)
      PROVE  Safe'
  <2> DEFINE q == [op |-> "repay", user |-> u, amount |-> a]
  <2>1. q \in BankRequests /\ coin[q.user] >= q.amount /\ bankDebt[q.user] >= q.amount
    BY <1>4 DEF RepayCheck, SufficientBalance, WithinDebt, BankRequests
  <2>2. bankReq' = [bankReq EXCEPT ![h] = q] /\ UNCHANGED <<ledgerVars, bankDebt>>
    BY <1>4 DEF RepayCheck
  <2> HIDE DEF q
  <2>3. QED
    BY <2>1, <2>2, BankCheckIsSafe
<1>5. ASSUME NEW h \in Handlers, TransferCommit(h) \/ RepayCommit(h) \/ BankFail(h)
      PROVE  Safe'
  <2> DEFINE w == bankReq[h].user
             a == bankReq[h].amount
  <2>1. bankReq[h] # Idle /\ bankReq' = [bankReq EXCEPT ![h] = Idle]
    BY <1>5 DEF TransferCommit, RepayCommit, BankFail, Idle
  <2>2. /\ w \in Users /\ a \in Nat /\ coin[w] >= a /\ coin[w] >= 0
        /\ bankReq[h].op = "transfer" => bankReq[h].to \in Users
        /\ bankReq[h].op = "repay" => bankDebt[w] >= a
    BY <1>0, <2>1, BankRequestIsTyped
       DEF Covered, BankCovered, Solvent, NoOverdraft
  <2>3. CASE TransferCommit(h)
    <3>1. Takes(w, a) /\ bankDebt' = bankDebt
      BY <1>0, <2>2, <2>3, MoveTakes DEF TransferCommit
    <3>2. bankDebt' \in [Users -> Int] /\ NoOverRepay'
          /\ \A v \in Users : bankDebt'[v] >= bankDebt[v]
      BY <1>0, <1>1, <3>1 DEF Shape, BankShape, Solvent, NoOverRepay
    <3>3. QED
      BY <2>1, <2>2, <3>1, <3>2, BankEndIsSafe
  <2>4. CASE RepayCommit(h)
    <3>1. Takes(w, a) /\ bankDebt' = [bankDebt EXCEPT ![w] = @ - a]
      BY <1>0, <2>2, <2>4, DebitTakes DEF RepayCommit, RepaidDebt, Debit
    <3>2. bankDebt[w] >= a
      BY <2>2, <2>4 DEF RepayCommit
    <3>3. /\ bankDebt' \in [Users -> Int]
          /\ \A v \in Users : v # w => bankDebt'[v] = bankDebt[v]
          /\ bankDebt'[w] = bankDebt[w] - a
      BY <1>0, <1>1, <2>2, <3>1 DEF Shape, BankShape
    <3>4. NoOverRepay' /\ \A v \in Users : v # w => bankDebt'[v] >= bankDebt[v]
      BY <1>1, <2>2, <3>2, <3>3 DEF NoOverRepay
    <3>5. QED
      BY <2>1, <2>2, <3>1, <3>3, <3>4, BankEndIsSafe
  <2>5. CASE BankFail(h)
    <3>1. coin' = coin /\ bankDebt' = bankDebt
      BY <2>5 DEF BankFail, ledgerVars
    <3>2. Takes(w, 0)
      BY <1>0, <3>1, SameCoinTakes
    <3>3. bankDebt' \in [Users -> Int] /\ NoOverRepay'
          /\ \A v \in Users : bankDebt'[v] >= bankDebt[v]
      BY <1>0, <1>1, <3>1 DEF Shape, BankShape, Solvent, NoOverRepay
    <3>4. QED
      BY <2>1, <2>2, <3>2, <3>3, BankEndIsSafe
  <2>6. QED
    BY <1>5, <2>3, <2>4, <2>5
<1>6. QED
  BY <1>2, <1>3, <1>4, <1>5 DEF TransactionsNext

-----------------------------------------------------------------------------
(* Steps of the invoices.                                                  *)
InvoicesKept ==
  /\ invoice' \in [InvoiceIds -> Inv!Rows \cup {Inv!NoInvoice}]
  /\ \A i \in InvoiceIds : invoice[i] \in Inv!Rows =>
       invoice'[i] \in Inv!Rows /\ invoice'[i].amount = invoice[i].amount

LEMMA InvoiceStepIsSafe ==
  ASSUME MarketInv, UNCHANGED <<bankVars, arenaVars>>,
         NEW w, NEW a \in Nat, Takes(w, a), w \in Users => coin[w] >= a,
         \A g \in Handlers : bankReq[g] # Idle => bankReq[g].user # w,
         \A g \in ArenaHandlers : arenaReq[g] # Idle => arenaReq[g].user # w,
         InvoicesShape', InvoicesCovered'
  PROVE  Safe'
<1>0. Shape /\ Covered /\ Solvent
  BY DEF MarketInv
<1>1. UNCHANGED <<bankDebt, bankReq, room, matches, arenaReq>>
  BY DEF bankVars, arenaVars
<1>2. BankShape' /\ ArenaShape'
  BY <1>0, <1>1 DEF Shape, BankShape, ArenaShape, Takes
<1>3. NoOverRepay' /\ \A v \in Users : v # w => bankDebt'[v] >= bankDebt[v]
  BY <1>0, <1>1 DEF Shape, BankShape, Solvent, NoOverRepay
<1>4. bankDebt' \in [Users -> Int]
  BY <1>2 DEF BankShape
<1>5. BankCovered' /\ ArenaCovered'
  BY <1>0, <1>1, <1>3, <1>4, BankStaysCovered, ArenaStayCovered DEF Covered
<1>6. NoOverdraft'
  BY <1>0, TakenFromTheCovered DEF Solvent
<1>7. QED
  BY <1>2, <1>3, <1>5, <1>6 DEF Safe, Shape, Covered, Solvent

LEMMA InvoiceEndIsSafe ==
  ASSUME MarketInv, UNCHANGED <<bankVars, arenaVars>>,
         NEW h \in InvHandlers, invReq[h] # Idle,
         invReq' = [invReq EXCEPT ![h] = Idle],
         NEW a \in Nat, Takes(invReq[h].user, a), coin[invReq[h].user] >= a,
         InvoicesKept
  PROVE  Safe'
<1> DEFINE w == invReq[h].user
<1>0. Shape /\ Covered /\ OneRequestPerUser
  BY DEF MarketInv
<1>1. w \in Users
  BY <1>0, InvoiceRequestIsTyped
<1>2. \A g \in InvHandlers : invReq'[g] = IF g = h THEN Idle ELSE invReq[g]
  BY <1>0 DEF Shape, InvoicesShape
<1>3. \A g \in InvHandlers : invReq'[g] # Idle =>
        invReq'[g] = invReq[g] /\ invReq[g].user # w
  BY <1>0, <1>2, InvoiceUserWaits
<1>4. InvoicesShape'
  <2>1. \A g \in InvHandlers : invReq'[g] # Idle => invoice'[invReq'[g].id] \in Inv!Rows
    BY <1>0, <1>3, InvoiceRequestIsTyped DEF Shape, InvoicesShape, InvoicesKept
  <2>2. QED
    BY <1>0, <2>1 DEF Shape, InvoicesShape, InvoicesKept
<1>5. InvoicesCovered'
  BY <1>0, <1>3, InvoicesStayCovered DEF Covered, InvoicesKept
<1>6. QED
  BY <1>0, <1>1, <1>4, <1>5, InvoiceUserWaits, InvoiceStepIsSafe

LEMMA InvoiceReadIsSafe ==
  ASSUME MarketInv, UNCHANGED <<bankVars, arenaVars, ledgerVars, invoice>>,
         NEW h \in InvHandlers, NEW q \in Inv!InvoiceRequests,
         invReq' = [invReq EXCEPT ![h] = q],
         invoice[q.id] \in Inv!Rows,
         q.op = "pay" => coin[q.user] >= invoice[q.id].amount
  PROVE  Safe'
<1>0. Shape /\ Covered
  BY DEF MarketInv
<1>1. coin' = coin
  BY DEF ledgerVars
<1>2. \A g \in InvHandlers : invReq'[g] = IF g = h THEN q ELSE invReq[g]
  BY <1>0 DEF Shape, InvoicesShape
<1>3. InvoicesShape'
  BY <1>0, <1>2 DEF Shape, InvoicesShape
<1>4. InvoicesCovered'
  BY <1>0, <1>1, <1>2 DEF Covered, InvoicesCovered
<1>5. /\ \A g \in Handlers : bankReq[g] # Idle => bankReq[g].user # NoUser
      /\ \A g \in ArenaHandlers : arenaReq[g] # Idle => arenaReq[g].user # NoUser
  BY <1>0, BankRequestIsTyped, ArenaRequestIsTyped, AmountsArePositive
<1>6. QED
  BY <1>0, <1>1, <1>3, <1>4, <1>5, SameCoinTakes, InvoiceStepIsSafe, AmountsArePositive

LEMMA InvoicesAreSafe ==
  ASSUME MarketInv, Inv!InvoicesNext, UNCHANGED <<bankVars, arenaVars>>
  PROVE  Safe'
<1>0. Shape /\ Covered /\ Solvent
  BY DEF MarketInv
<1>1. ASSUME NEW i \in InvoiceIds, NEW u \in Users, NEW receiver \in Users,
             NEW a \in Amounts, Inv!CreateInvoice(i, u, receiver, a)
      PROVE  Safe'
  <2> DEFINE row == [status |-> "pending", creator |-> u, payer |-> receiver, amount |-> a]
  <2>1. /\ invoice[i] = Inv!NoInvoice /\ invoice' = [invoice EXCEPT ![i] = row]
        /\ UNCHANGED <<ledgerVars, invReq>>
    BY <1>1 DEF Inv!CreateInvoice, Inv!ledgerVars, ledgerVars
  <2>2. row \in Inv!Rows
    BY DEF Inv!Rows
  <2> HIDE DEF row
  <2>3. \A j \in InvoiceIds : invoice'[j] = IF j = i THEN row ELSE invoice[j]
    BY <1>0, <2>1 DEF Shape, InvoicesShape
  <2>4. invoice[i] \notin Inv!Rows
    BY <2>1 DEF Inv!NoInvoice, Inv!Rows
  <2>5. InvoicesKept
    BY <1>0, <2>1, <2>2, <2>3, <2>4 DEF InvoicesKept, Shape, InvoicesShape
  <2>6. coin' = coin /\ Takes(NoUser, 0)
    BY <1>0, <2>1, SameCoinTakes DEF ledgerVars
  <2>7. /\ \A g \in Handlers : bankReq[g] # Idle => bankReq[g].user # NoUser
        /\ \A g \in InvHandlers : invReq[g] # Idle => invReq[g].user # NoUser
        /\ \A g \in ArenaHandlers : arenaReq[g] # Idle => arenaReq[g].user # NoUser
    BY <1>0, BankRequestIsTyped, InvoiceRequestIsTyped, ArenaRequestIsTyped,
       AmountsArePositive
  <2>8. InvoicesShape'
    <3>1. \A g \in InvHandlers : invReq'[g] # Idle =>
            invoice'[invReq'[g].id] \in Inv!Rows
      BY <1>0, <2>1, <2>5, InvoiceRequestIsTyped DEF Shape, InvoicesShape, InvoicesKept
    <3>2. QED
      BY <1>0, <2>1, <2>5, <3>1 DEF Shape, InvoicesShape, InvoicesKept
  <2>9. InvoicesCovered'
    BY <1>0, <2>1, <2>5, <2>6, <2>7, InvoicesStayCovered DEF Covered, InvoicesKept
  <2>10. QED
    BY <2>6, <2>7, <2>8, <2>9, InvoiceStepIsSafe, AmountsArePositive
<1>2. ASSUME NEW h \in InvHandlers, NEW u \in Users, NEW i \in InvoiceIds,
             \/ Inv!PayRead(h, u, i) \/ Inv!CancelRead(h, u, i)
             \/ \E to \in Users : Inv!TransferDebtRead(h, u, i, to)
      PROVE  Safe'
  <2>1. invoice[i].status = "pending" /\ UNCHANGED <<ledgerVars, invoice>>
    BY <1>2 DEF Inv!PayRead, Inv!CancelRead, Inv!TransferDebtRead, Inv!OwesInvoice,
                Inv!Pending, Inv!ledgerVars, ledgerVars
  <2>2. invoice[i] \in Inv!Rows
    BY <1>0, <2>1 DEF Shape, InvoicesShape, Inv!NoInvoice
  <2>3. PICK q \in Inv!InvoiceRequests :
          q.id = i /\ q.op # "pay" /\ invReq' = [invReq EXCEPT ![h] = q]
    <3>1. CASE Inv!PayRead(h, u, i)
      <4> DEFINE q == [op |-> "payCoin", user |-> u, id |-> i]
      <4>1. q \in Inv!InvoiceRequests /\ q.id = i /\ q.op # "pay"
        BY DEF Inv!InvoiceRequests
      <4>2. QED
        BY <3>1, <4>1 DEF Inv!PayRead
    <3>2. CASE Inv!CancelRead(h, u, i)
      <4> DEFINE q == [op |-> "cancel", user |-> u, id |-> i]
      <4>1. q \in Inv!InvoiceRequests /\ q.id = i /\ q.op # "pay"
        BY DEF Inv!InvoiceRequests
      <4>2. QED
        BY <3>2, <4>1 DEF Inv!CancelRead
    <3>3. ASSUME NEW to \in Users, Inv!TransferDebtRead(h, u, i, to)
          PROVE  \E q \in Inv!InvoiceRequests :
                   q.id = i /\ q.op # "pay" /\ invReq' = [invReq EXCEPT ![h] = q]
      <4> DEFINE q == [op |-> "assign", user |-> u, id |-> i, to |-> to]
      <4>1. q \in Inv!InvoiceRequests /\ q.id = i /\ q.op # "pay"
        BY <3>3 DEF Inv!InvoiceRequests, Inv!TransferDebtRead, Inv!NewDebtor
      <4>2. QED
        BY <3>3, <4>1 DEF Inv!TransferDebtRead
    <3>4. QED
      BY <1>2, <3>1, <3>2, <3>3
  <2>4. QED
    BY <2>1, <2>2, <2>3, InvoiceReadIsSafe
<1>3. ASSUME NEW h \in InvHandlers, Inv!PayReadCoin(h) PROVE Safe'
  <2> DEFINE r == invReq[h]
             q == [r EXCEPT !.op = "pay"]
  <2>1. /\ r.op = "payCoin" /\ coin[r.user] >= invoice[r.id].amount
        /\ invReq' = [invReq EXCEPT ![h].op = "pay"] /\ UNCHANGED <<ledgerVars, invoice>>
    BY <1>3 DEF Inv!PayReadCoin, Inv!CanPay, Inv!ledgerVars, ledgerVars
  <2>2. r \in Inv!InvoiceRequests /\ r # Idle
    BY <1>0, <2>1 DEF Shape, InvoicesShape, Idle
  <2>3. q \in Inv!InvoiceRequests /\ q.user = r.user /\ q.id = r.id
    BY <2>1, <2>2 DEF Inv!InvoiceRequests
  <2>4. invReq' = [invReq EXCEPT ![h] = q]
    BY <1>0, <2>1 DEF Shape, InvoicesShape
  <2>5. invoice[r.id] \in Inv!Rows
    BY <1>0, <2>2 DEF Shape, InvoicesShape
  <2> HIDE DEF q
  <2>6. QED
    BY <2>1, <2>3, <2>4, <2>5, InvoiceReadIsSafe
<1>4. ASSUME NEW h \in InvHandlers, Inv!PayCommit(h) PROVE Safe'
  <2> DEFINE r == invReq[h]
  <2>1. /\ r.op = "pay" /\ r # Idle
        /\ invoice' = [invoice EXCEPT ![r.id].status = "paid"]
        /\ coin' = Inv!Move(coin, r.user, invoice[r.id].creator, invoice[r.id].amount)
        /\ invReq' = [invReq EXCEPT ![h] = Idle]
    BY <1>4 DEF Inv!PayCommit, Inv!MarkedPaid, Inv!Done, Inv!Idle, Idle
  <2>2. /\ r.user \in Users /\ r.id \in InvoiceIds /\ invoice[r.id] \in Inv!Rows
        /\ invoice[r.id].creator \in Users /\ invoice[r.id].amount \in Nat
    BY <1>0, <2>1, InvoiceRequestIsTyped DEF Shape, InvoicesShape
  <2>3. Takes(r.user, invoice[r.id].amount)
    BY <1>0, <2>1, <2>2, MoveTakes
       DEF Inv!Move, Inv!Credit, Inv!Debit, Move, Credit, Debit
  <2>4. coin[r.user] >= invoice[r.id].amount
    BY <1>0, <2>1 DEF Covered, InvoicesCovered
  <2>5. InvoicesKept
    BY <1>0, <2>1, <2>2 DEF InvoicesKept, Shape, InvoicesShape, Inv!Rows
  <2>6. QED
    BY <2>1, <2>2, <2>3, <2>4, <2>5, InvoiceEndIsSafe
<1>5. ASSUME NEW h \in InvHandlers,
             \/ Inv!PayConflict(h) \/ Inv!TransferDebtCommit(h)
             \/ Inv!CancelCommit(h) \/ Inv!CancelConflict(h) \/ Inv!InvoiceFail(h)
      PROVE  Safe'
  <2> DEFINE r == invReq[h]
  <2>1. r # Idle /\ invReq' = [invReq EXCEPT ![h] = Idle] /\ coin' = coin
    BY <1>5 DEF Inv!PayConflict, Inv!TransferDebtCommit, Inv!CancelCommit,
       Inv!CancelConflict, Inv!InvoiceFail, Inv!Done, Inv!Idle, Idle, Inv!ledgerVars
  <2>2. /\ r.user \in Users /\ r.id \in InvoiceIds /\ invoice[r.id] \in Inv!Rows
        /\ coin[r.user] >= 0
    BY <1>0, <2>1, InvoiceRequestIsTyped
       DEF Shape, InvoicesShape, Solvent, NoOverdraft
  <2>3. Takes(r.user, 0)
    BY <1>0, <2>1, SameCoinTakes
  <2>4. InvoicesKept
    <3>1. CASE invoice' = invoice
      BY <1>0, <3>1 DEF InvoicesKept, Shape, InvoicesShape
    <3>2. CASE Inv!TransferDebtCommit(h)
      <4>1. r.op = "assign" /\ invoice' = [invoice EXCEPT ![r.id].payer = r.to]
        BY <3>2 DEF Inv!TransferDebtCommit
      <4>2. r.to \in Users
        BY <1>0, <2>1, <4>1 DEF Shape, InvoicesShape, Inv!InvoiceRequests
      <4>3. QED
        BY <1>0, <2>2, <4>1, <4>2 DEF InvoicesKept, Shape, InvoicesShape, Inv!Rows
    <3>3. CASE Inv!CancelCommit(h)
      <4>1. invoice' = [invoice EXCEPT ![r.id].status = "cancelled"]
        BY <3>3 DEF Inv!CancelCommit
      <4>2. QED
        BY <1>0, <2>2, <4>1 DEF InvoicesKept, Shape, InvoicesShape, Inv!Rows
    <3>4. QED
      BY <1>5, <3>1, <3>2, <3>3 DEF Inv!PayConflict, Inv!CancelConflict, Inv!InvoiceFail
  <2>5. QED
    BY <2>1, <2>2, <2>3, <2>4, InvoiceEndIsSafe
<1>6. QED
  BY <1>1, <1>2, <1>3, <1>4, <1>5 DEF Inv!InvoicesNext

-----------------------------------------------------------------------------
(* Steps of the arena.                                                     *)
RoomsKept ==
  /\ room' \in [RoomIds -> Arn!Rooms \cup {Arn!NoRoom}]
  /\ \A r \in RoomIds : room[r] \in Arn!Rooms =>
       room'[r] \in Arn!Rooms /\ room'[r].amount = room[r].amount

LEMMA ArenaStepIsSafe ==
  ASSUME MarketInv, UNCHANGED <<bankVars, invoiceVars>>,
         NEW w, NEW a \in Nat, Takes(w, a), w \in Users => coin[w] >= a,
         \A g \in Handlers : bankReq[g] # Idle => bankReq[g].user # w,
         \A g \in InvHandlers : invReq[g] # Idle => invReq[g].user # w,
         ArenaShape', ArenaCovered'
  PROVE  Safe'
<1>0. Shape /\ Covered /\ Solvent
  BY DEF MarketInv
<1>1. UNCHANGED <<bankDebt, bankReq, invoice, receipts, invReq>>
  BY DEF bankVars, invoiceVars
<1>2. BankShape' /\ InvoicesShape'
  BY <1>0, <1>1 DEF Shape, BankShape, InvoicesShape, Takes
<1>3. NoOverRepay' /\ \A v \in Users : v # w => bankDebt'[v] >= bankDebt[v]
  BY <1>0, <1>1 DEF Shape, BankShape, Solvent, NoOverRepay
<1>4. bankDebt' \in [Users -> Int]
  BY <1>2 DEF BankShape
<1>5. BankCovered' /\ InvoicesCovered'
  BY <1>0, <1>1, <1>3, <1>4, BankStaysCovered, InvoicesStayCovered DEF Covered
<1>6. NoOverdraft'
  BY <1>0, TakenFromTheCovered DEF Solvent
<1>7. QED
  BY <1>2, <1>3, <1>5, <1>6 DEF Safe, Shape, Covered, Solvent

LEMMA ArenaEndIsSafe ==
  ASSUME MarketInv, UNCHANGED <<bankVars, invoiceVars>>,
         NEW h \in ArenaHandlers, arenaReq[h] # Idle,
         arenaReq' = [arenaReq EXCEPT ![h] = Idle],
         NEW a \in Nat, Takes(arenaReq[h].user, a), coin[arenaReq[h].user] >= a,
         RoomsKept
  PROVE  Safe'
<1> DEFINE w == arenaReq[h].user
<1>0. Shape /\ Covered /\ OneRequestPerUser
  BY DEF MarketInv
<1>1. w \in Users
  BY <1>0, ArenaRequestIsTyped
<1>2. \A g \in ArenaHandlers : arenaReq'[g] = IF g = h THEN Idle ELSE arenaReq[g]
  BY <1>0 DEF Shape, ArenaShape
<1>3. \A g \in ArenaHandlers : arenaReq'[g] # Idle =>
        arenaReq'[g] = arenaReq[g] /\ arenaReq[g].user # w
  BY <1>0, <1>2, ArenaUserWaits
<1>4. ArenaShape'
  <2>1. ASSUME NEW g \in ArenaHandlers, arenaReq'[g].op \in {"joinCoin", "join"}
        PROVE  room'[arenaReq'[g].id] \in Arn!Rooms
    <3>1. arenaReq'[g] = arenaReq[g] /\ arenaReq[g] # Idle
      BY <1>3, <2>1 DEF Idle
    <3>2. arenaReq[g].id \in RoomIds /\ room[arenaReq[g].id] \in Arn!Rooms
      BY <1>0, <2>1, <3>1, ArenaRequestIsTyped DEF Shape, ArenaShape
    <3>3. QED
      BY <3>1, <3>2 DEF RoomsKept
  <2>2. arenaReq' \in [ArenaHandlers -> Arn!ArenaRequests \cup {Idle}]
    BY <1>0 DEF Shape, ArenaShape
  <2>3. QED
    BY <2>1, <2>2 DEF ArenaShape, RoomsKept
<1>5. ArenaCovered'
  BY <1>0, <1>3, ArenaStayCovered DEF Covered, RoomsKept
<1>6. QED
  BY <1>0, <1>1, <1>4, <1>5, ArenaUserWaits, ArenaStepIsSafe

LEMMA ArenaReadIsSafe ==
  ASSUME MarketInv, UNCHANGED <<bankVars, invoiceVars, ledgerVars, room>>,
         NEW h \in ArenaHandlers, NEW q \in Arn!ArenaRequests,
         arenaReq' = [arenaReq EXCEPT ![h] = q],
         q.op = "create" => coin[q.user] >= q.amount,
         q.op \in {"joinCoin", "join"} => room[q.id] \in Arn!Rooms,
         q.op = "join" => coin[q.user] >= room[q.id].amount
  PROVE  Safe'
<1>0. Shape /\ Covered
  BY DEF MarketInv
<1>1. coin' = coin
  BY DEF ledgerVars
<1>2. \A g \in ArenaHandlers : arenaReq'[g] = IF g = h THEN q ELSE arenaReq[g]
  BY <1>0 DEF Shape, ArenaShape
<1>3. ArenaShape'
  BY <1>0, <1>2 DEF Shape, ArenaShape
<1>4. ArenaCovered'
  BY <1>0, <1>1, <1>2 DEF Covered, ArenaCovered
<1>5. /\ \A g \in Handlers : bankReq[g] # Idle => bankReq[g].user # NoUser
      /\ \A g \in InvHandlers : invReq[g] # Idle => invReq[g].user # NoUser
  BY <1>0, BankRequestIsTyped, InvoiceRequestIsTyped, AmountsArePositive
<1>6. QED
  BY <1>0, <1>1, <1>3, <1>4, <1>5, SameCoinTakes, ArenaStepIsSafe, AmountsArePositive

LEMMA ArenaIsSafe ==
  ASSUME MarketInv, Arn!ArenaNext, UNCHANGED <<bankVars, invoiceVars>>
  PROVE  Safe'
<1>0. Shape /\ Covered /\ Solvent
  BY DEF MarketInv
<1>1. ASSUME NEW h \in ArenaHandlers, NEW u \in Users, NEW c \in Arn!Hands,
             NEW a \in Amounts, Arn!CreateRead(h, u, a, c)
      PROVE  Safe'
  <2> DEFINE q == [op |-> "create", user |-> u, amount |-> a, choice |-> c]
  <2>1. /\ Arn!ValidStake(a) /\ coin[u] >= a /\ arenaReq' = [arenaReq EXCEPT ![h] = q]
        /\ UNCHANGED <<ledgerVars, room>>
    BY <1>1 DEF Arn!CreateRead, Arn!CanStake, Arn!ledgerVars, ledgerVars
  <2>2. a \in Arn!Stakes
    BY <2>1, TransactionsAssumption DEF Arn!ValidStake, Arn!Stakes
  <2>3. q \in Arn!ArenaRequests /\ q.op = "create" /\ q.user = u /\ q.amount = a
    BY <2>2 DEF Arn!ArenaRequests
  <2> HIDE DEF q
  <2>4. QED
    BY <2>1, <2>3, ArenaReadIsSafe
<1>2. ASSUME NEW h \in ArenaHandlers, NEW u \in Users, NEW c \in Arn!Hands,
             NEW r \in RoomIds, Arn!JoinReadRoom(h, u, r, c)
      PROVE  Safe'
  <2> DEFINE q == [op |-> "joinCoin", user |-> u, id |-> r, choice |-> c]
  <2>1. /\ room[r].status = "open" /\ arenaReq' = [arenaReq EXCEPT ![h] = q]
        /\ UNCHANGED <<ledgerVars, room>>
    BY <1>2 DEF Arn!JoinReadRoom, Arn!ledgerVars, ledgerVars
  <2>2. room[r] \in Arn!Rooms
    BY <1>0, <2>1 DEF Shape, ArenaShape, Arn!NoRoom
  <2>3. q \in Arn!ArenaRequests /\ q.op = "joinCoin" /\ q.id = r
    BY DEF Arn!ArenaRequests
  <2> HIDE DEF q
  <2>4. QED
    BY <2>1, <2>2, <2>3, ArenaReadIsSafe
<1>3. ASSUME NEW h \in ArenaHandlers, Arn!JoinReadCoin(h) PROVE Safe'
  <2> DEFINE r == arenaReq[h]
             q == [r EXCEPT !.op = "join"]
  <2>1. /\ r.op = "joinCoin" /\ coin[r.user] >= room[r.id].amount
        /\ arenaReq' = [arenaReq EXCEPT ![h].op = "join"]
        /\ UNCHANGED <<ledgerVars, room>>
    BY <1>3 DEF Arn!JoinReadCoin, Arn!CanStake, Arn!ledgerVars, ledgerVars
  <2>2. r \in Arn!ArenaRequests
    BY <1>0, <2>1 DEF Shape, ArenaShape, Idle
  <2>3. q \in Arn!ArenaRequests /\ q.user = r.user /\ q.id = r.id /\ q.op = "join"
    BY <2>1, <2>2 DEF Arn!ArenaRequests
  <2>4. arenaReq' = [arenaReq EXCEPT ![h] = q]
    BY <1>0, <2>1 DEF Shape, ArenaShape
  <2>5. room[r.id] \in Arn!Rooms
    BY <1>0, <2>1 DEF Shape, ArenaShape
  <2> HIDE DEF q
  <2>6. QED
    BY <2>1, <2>3, <2>4, <2>5, ArenaReadIsSafe
<1>4. ASSUME NEW h \in ArenaHandlers, NEW r \in RoomIds, Arn!CreateCommit(h, r)
      PROVE  Safe'
  <2> DEFINE q == arenaReq[h]
             row == [status |-> "open", owner |-> q.user,
                     amount |-> q.amount, choice |-> q.choice]
  <2>1. /\ q.op = "create" /\ q # Idle /\ room[r] = Arn!NoRoom
        /\ coin' = Arn!Debit(coin, q.user, q.amount)
        /\ room' = [room EXCEPT ![r] = row]
        /\ arenaReq' = [arenaReq EXCEPT ![h] = Idle]
    BY <1>4 DEF Arn!CreateCommit, Arn!Done, Arn!Idle, Idle
  <2>2. /\ q.user \in Users /\ q.amount \in Nat /\ q.amount \in Arn!Stakes
        /\ q.choice \in Arn!Hands /\ coin[q.user] >= q.amount
    BY <1>0, <2>1, ArenaRequestIsTyped
       DEF Shape, ArenaShape, Arn!ArenaRequests, Covered, ArenaCovered
  <2>3. Takes(q.user, q.amount)
    BY <1>0, <2>1, <2>2, DebitTakes DEF Arn!Debit, Debit
  <2>4. RoomsKept
    <3>1. row \in Arn!Rooms
      BY <2>2 DEF Arn!Rooms
    <3>2. room[r] \notin Arn!Rooms
      BY <2>1 DEF Arn!NoRoom, Arn!Rooms
    <3> HIDE DEF row
    <3>3. QED
      BY <1>0, <2>1, <3>1, <3>2 DEF RoomsKept, Shape, ArenaShape
  <2>5. QED
    BY <2>1, <2>2, <2>3, <2>4, ArenaEndIsSafe
<1>5. ASSUME NEW h \in ArenaHandlers, Arn!JoinCommit(h) PROVE Safe'
  <2> DEFINE q == arenaReq[h]
             rm == room[q.id]
             result == Arn!ResolveMatch(rm.choice, q.choice)
             winner == Arn!WinnerOf(rm.owner, q.user, result)
  <2>1. /\ q.op = "join" /\ q # Idle
        /\ coin' = Arn!Payout(rm.owner, q.user, winner, rm.amount)
        /\ room' = [room EXCEPT ![q.id].status = "resolved"]
        /\ arenaReq' = [arenaReq EXCEPT ![h] = Idle]
    BY <1>5 DEF Arn!JoinCommit, Arn!Done, Arn!Idle, Idle
  <2>2. /\ q.user \in Users /\ q.id \in RoomIds /\ rm \in Arn!Rooms
        /\ rm.owner \in Users /\ rm.amount \in Nat /\ coin[q.user] >= rm.amount
    BY <1>0, <2>1, ArenaRequestIsTyped DEF Shape, ArenaShape, Covered, ArenaCovered
  <2>3. winner \in {rm.owner, q.user, NoUser}
    BY DEF Arn!ResolveMatch, Arn!WinnerOf
  <2>4. Takes(q.user, rm.amount)
    BY <1>0, <2>1, <2>2, <2>3, PayoutTakes
  <2>5. RoomsKept
    BY <1>0, <2>1, <2>2 DEF RoomsKept, Shape, ArenaShape, Arn!Rooms
  <2>6. QED
    BY <2>1, <2>2, <2>4, <2>5, ArenaEndIsSafe
<1>6. ASSUME NEW h \in ArenaHandlers, Arn!ArenaFail(h) PROVE Safe'
  <2>1. /\ arenaReq[h] # Idle /\ arenaReq' = [arenaReq EXCEPT ![h] = Idle]
        /\ coin' = coin /\ room' = room
    BY <1>6 DEF Arn!ArenaFail, Arn!Done, Arn!Idle, Idle, Arn!ledgerVars
  <2>2. arenaReq[h].user \in Users /\ coin[arenaReq[h].user] >= 0
    BY <1>0, <2>1, ArenaRequestIsTyped DEF Solvent, NoOverdraft
  <2>3. Takes(arenaReq[h].user, 0) /\ RoomsKept
    BY <1>0, <2>1, SameCoinTakes DEF RoomsKept, Shape, ArenaShape
  <2>4. QED
    BY <2>1, <2>2, <2>3, ArenaEndIsSafe
<1>7. QED
  BY <1>1, <1>2, <1>3, <1>4, <1>5, <1>6 DEF Arn!ArenaNext

-----------------------------------------------------------------------------
LEMMA MarketInitially ==
  ASSUME MarketInit
  PROVE  MarketInv
<1>1. /\ coin = StartCoin /\ bankDebt = [u \in Users |-> 0]
      /\ bankReq = [h \in Handlers |-> Idle]
      /\ invoice = [i \in InvoiceIds |-> Inv!NoInvoice]
      /\ invReq = [h \in InvHandlers |-> Idle]
      /\ room = [r \in RoomIds |-> Arn!NoRoom]
      /\ arenaReq = [h \in ArenaHandlers |-> Idle]
  BY IdleIsIdle DEF MarketInit, TransactionsInit, LedgerInit, Inv!InvoicesInit, Arn!ArenaInit
<1>2. \A u \in Users : StartCoin[u] \in Int /\ StartCoin[u] >= 0
  BY LedgerAssumption
<1>3. Shape
  BY <1>1, LedgerAssumption
     DEF Shape, BankShape, InvoicesShape, ArenaShape, Idle
<1>4. Covered
  BY <1>1 DEF Covered, BankCovered, InvoicesCovered, ArenaCovered, Idle
<1>5. Solvent
  BY <1>1, <1>2 DEF Solvent, NoOverdraft, NoOverRepay
<1>6. OneRequestPerUser
  BY <1>1 DEF OneRequestPerUser, OneAtATime, BankBusy, InvoicesBusy, ArenaBusy
<1>7. QED
  BY <1>3, <1>4, <1>5, <1>6 DEF MarketInv

LEMMA MarketStep ==
  ASSUME MarketInv, [MarketNext /\ OneRequestPerUser']_marketVars
  PROVE  MarketInv'
<1>1. CASE MarketNext /\ OneRequestPerUser'
  <2>1. Safe'
    BY <1>1, BankIsSafe, InvoicesAreSafe, ArenaIsSafe DEF MarketNext
  <2>2. QED
    BY <1>1, <2>1 DEF Safe, MarketInv
<1>2. CASE UNCHANGED marketVars
  <2>1. UNCHANGED <<coin, bankDebt, bankReq, invoice, invReq, room, arenaReq>>
    BY <1>2 DEF marketVars, vars, ledgerVars, bankVars, invoiceVars, arenaVars
  <2>2. Shape' /\ Covered' /\ Solvent'
    BY <2>1 DEF MarketInv, Shape, BankShape, InvoicesShape, ArenaShape, Covered,
       BankCovered, InvoicesCovered, ArenaCovered, Solvent, NoOverdraft, NoOverRepay
  <2>3. OneRequestPerUser'
    BY <2>1 DEF MarketInv, OneRequestPerUser, OneAtATime, BankBusy, InvoicesBusy,
                ArenaBusy
  <2>4. QED
    BY <2>2, <2>3 DEF MarketInv
<1>3. QED
  BY <1>1, <1>2

(* As long as a client waits for its answer before it asks for anything    *)
(* else, in any component, no balance goes below zero: what a request has  *)
(* checked on an unlocked read still covers it when it commits, whatever   *)
(* the other users transfer, pay, stake and win in between.                *)
THEOREM MarketNoOverdraft == WaitingMarketSpec => []NoOverdraft
<1>1. MarketInit => MarketInv
  BY MarketInitially
<1>2. MarketInv /\ [MarketNext /\ OneRequestPerUser']_marketVars => MarketInv'
  BY MarketStep
<1>3. MarketInv => NoOverdraft
  BY DEF MarketInv, Solvent
<1>4. QED
  BY <1>1, <1>2, <1>3, PTL DEF WaitingMarketSpec

(* Under the same condition nobody repays the bank more than the debt,     *)
(* although invoices and the arena move the coins it is repaid with.       *)
THEOREM MarketNoOverRepay == WaitingMarketSpec => []NoOverRepay
<1>1. MarketInit => MarketInv
  BY MarketInitially
<1>2. MarketInv /\ [MarketNext /\ OneRequestPerUser']_marketVars => MarketInv'
  BY MarketStep
<1>3. MarketInv => NoOverRepay
  BY DEF MarketInv, Solvent
<1>4. QED
  BY <1>1, <1>2, <1>3, PTL DEF WaitingMarketSpec

-----------------------------------------------------------------------------
(* Money, whatever clients do: every step of a component keeps what it     *)
(* adds to or takes from the balances in the debts or in the rooms.        *)
Pots == [r \in RoomIds |-> Arn!Pot(r)]

(* A resolved room has its match, so that no other join can commit.        *)
ResolvedHasMatch ==
  /\ matches = [r \in RoomIds |-> matches[r]]
  /\ \A r \in RoomIds : room[r].status = "resolved" => matches[r] # <<>>

MoneyInv == Shape /\ ResolvedHasMatch /\ MoneyConserved

LEMMA BankKeepsMoney ==
  ASSUME Shape, TransactionsNext
  PROVE  /\ BankShape'
         /\ SumFunction(coin') + SumFunction(bankDebt)
              = SumFunction(coin) + SumFunction(bankDebt')
<1>0. /\ coin \in [Users -> Int] /\ bankDebt \in [Users -> Int]
      /\ bankReq \in [Handlers -> BankRequests \cup {Idle}]
  BY DEF Shape, BankShape
<1>1. ASSUME NEW u \in Users, NEW a \in Amounts, Borrow(u, a)
      PROVE  /\ BankShape'
             /\ SumFunction(coin') + SumFunction(bankDebt)
                  = SumFunction(coin) + SumFunction(bankDebt')
  <2>1. /\ coin' = Credit(coin, u, a) /\ bankDebt' = Credit(bankDebt, u, a)
        /\ bankReq' = bankReq /\ a \in Int
    BY <1>1, AmountsArePositive DEF Borrow
  <2>2. /\ coin' \in [Users -> Int] /\ bankDebt' \in [Users -> Int]
        /\ SumFunction(coin') = SumFunction(coin) + a
        /\ SumFunction(bankDebt') = SumFunction(bankDebt) + a
        /\ SumFunction(coin) \in Int /\ SumFunction(bankDebt) \in Int
    BY <1>0, <2>1, SumCredit
  <2>3. QED
    BY <1>0, <2>1, <2>2 DEF BankShape
<1>2. ASSUME NEW h \in Handlers, TransferCommit(h)
      PROVE  /\ BankShape'
             /\ SumFunction(coin') + SumFunction(bankDebt)
                  = SumFunction(coin) + SumFunction(bankDebt')
  <2> DEFINE r == bankReq[h]
  <2>1. /\ r.op = "transfer" /\ coin' = Move(coin, r.user, r.to, r.amount)
        /\ bankDebt' = bankDebt /\ bankReq' = [bankReq EXCEPT ![h] = Idle]
    BY <1>2 DEF TransferCommit
  <2>2. r.user \in Users /\ r.to \in Users /\ r.amount \in Int
    BY <2>1, BankRequestIsTyped DEF Idle
  <2>3. coin' \in [Users -> Int] /\ SumFunction(coin') = SumFunction(coin)
    BY <1>0, <2>1, <2>2, SumMove
  <2>4. QED
    BY <1>0, <2>1, <2>3 DEF BankShape
<1>3. ASSUME NEW h \in Handlers, RepayCommit(h)
      PROVE  /\ BankShape'
             /\ SumFunction(coin') + SumFunction(bankDebt)
                  = SumFunction(coin) + SumFunction(bankDebt')
  <2> DEFINE r == bankReq[h]
  <2>1. /\ r.op = "repay" /\ coin' = Debit(coin, r.user, r.amount)
        /\ bankDebt' = Debit(bankDebt, r.user, r.amount)
        /\ bankReq' = [bankReq EXCEPT ![h] = Idle]
    BY <1>3 DEF RepayCommit, RepaidDebt
  <2>2. r.user \in Users /\ r.amount \in Int
    BY <2>1, BankRequestIsTyped DEF Idle
  <2>3. /\ coin' \in [Users -> Int] /\ bankDebt' \in [Users -> Int]
        /\ SumFunction(coin') = SumFunction(coin) - r.amount
        /\ SumFunction(bankDebt') = SumFunction(bankDebt) - r.amount
        /\ SumFunction(coin) \in Int /\ SumFunction(bankDebt) \in Int
    BY <1>0, <2>1, <2>2, SumDebit
  <2>4. QED
    BY <1>0, <2>1, <2>2, <2>3 DEF BankShape
<1>4. ASSUME NEW h \in Handlers, NEW from \in Users, NEW to \in Users,
             NEW a \in Amounts, TransferCheck(h, from, to, a)
      PROVE  BankShape' /\ UNCHANGED <<coin, bankDebt>>
  BY <1>0, <1>4 DEF TransferCheck, OtherUser, BankRequests, BankShape, ledgerVars
<1>5. ASSUME NEW h \in Handlers, NEW u \in Users, NEW a \in Amounts,
             RepayCheck(h, u, a)
      PROVE  BankShape' /\ UNCHANGED <<coin, bankDebt>>
  BY <1>0, <1>5 DEF RepayCheck, BankRequests, BankShape, ledgerVars
<1>6. ASSUME NEW h \in Handlers, BankFail(h)
      PROVE  BankShape' /\ UNCHANGED <<coin, bankDebt>>
  BY <1>0, <1>6 DEF BankFail, BankShape, ledgerVars
<1>7. QED
  BY <1>1, <1>2, <1>3, <1>4, <1>5, <1>6 DEF TransactionsNext

LEMMA InvoicesKeepMoney ==
  ASSUME Shape, Inv!InvoicesNext
  PROVE  /\ coin' \in [Users -> Int] /\ InvoicesShape'
         /\ SumFunction(coin') = SumFunction(coin)
<1>0. /\ coin \in [Users -> Int] /\ Inv!Idle = Idle
      /\ invoice \in [InvoiceIds -> Inv!Rows \cup {Inv!NoInvoice}]
      /\ invReq \in [InvHandlers -> Inv!InvoiceRequests \cup {Idle}]
      /\ \A h \in InvHandlers : invReq[h] # Idle => invoice[invReq[h].id] \in Inv!Rows
  BY IdleIsIdle DEF Shape, BankShape, InvoicesShape
<1>1. ASSUME InvoicesKept, NEW h \in InvHandlers,
             invReq' = [invReq EXCEPT ![h] = Idle]
      PROVE  InvoicesShape'
  <2>1. \A g \in InvHandlers : invReq'[g] # Idle =>
          invReq'[g] = invReq[g] /\ invoice'[invReq[g].id] \in Inv!Rows
    BY <1>0, <1>1, InvoiceRequestIsTyped DEF InvoicesKept
  <2>2. QED
    BY <1>0, <1>1, <2>1 DEF InvoicesKept, InvoicesShape
<1>2. ASSUME UNCHANGED <<ledgerVars, invoice>>, NEW h \in InvHandlers,
             NEW q \in Inv!InvoiceRequests \cup {Idle},
             invReq' = [invReq EXCEPT ![h] = q],
             q # Idle => invoice[q.id] \in Inv!Rows
      PROVE  coin' = coin /\ InvoicesShape'
  BY <1>0, <1>2 DEF InvoicesShape, ledgerVars
<1>3. ASSUME NEW i \in InvoiceIds, NEW u \in Users, NEW receiver \in Users,
             NEW a \in Amounts, Inv!CreateInvoice(i, u, receiver, a)
      PROVE  coin' = coin /\ InvoicesShape'
  <2> DEFINE row == [status |-> "pending", creator |-> u, payer |-> receiver, amount |-> a]
  <2>1. /\ invoice' = [invoice EXCEPT ![i] = row] /\ coin' = coin /\ invReq' = invReq
    BY <1>3 DEF Inv!CreateInvoice, Inv!ledgerVars
  <2>2. row \in Inv!Rows
    BY DEF Inv!Rows
  <2> HIDE DEF row
  <2>3. \A j \in InvoiceIds : invoice[j] \in Inv!Rows => invoice'[j] \in Inv!Rows
    BY <1>0, <2>1, <2>2
  <2>4. \A h \in InvHandlers : invReq[h] # Idle => invoice'[invReq[h].id] \in Inv!Rows
    BY <1>0, <2>3, InvoiceRequestIsTyped
  <2>5. QED
    BY <1>0, <2>1, <2>2, <2>4 DEF InvoicesShape
<1>4. ASSUME NEW h \in InvHandlers, NEW u \in Users, NEW i \in InvoiceIds,
             \/ Inv!PayRead(h, u, i)
             \/ Inv!CancelRead(h, u, i)
             \/ \E to \in Users : Inv!TransferDebtRead(h, u, i, to)
      PROVE  coin' = coin /\ InvoicesShape'
  <2>1. invoice[i] \in Inv!Rows /\ UNCHANGED <<ledgerVars, invoice>>
    BY <1>0, <1>4 DEF Inv!PayRead, Inv!CancelRead, Inv!TransferDebtRead,
       Inv!OwesInvoice, Inv!Pending, Inv!NoInvoice, Inv!ledgerVars, ledgerVars
  <2>2. ASSUME NEW q \in Inv!InvoiceRequests,
               invReq' = [invReq EXCEPT ![h] = q], q.id = i
        PROVE  coin' = coin /\ InvoicesShape'
    BY <1>2, <2>1, <2>2
  <2>3. CASE Inv!PayRead(h, u, i)
    <3> DEFINE q == [op |-> "payCoin", user |-> u, id |-> i]
    <3>1. q \in Inv!InvoiceRequests /\ q.id = i
      BY DEF Inv!InvoiceRequests
    <3>2. invReq' = [invReq EXCEPT ![h] = q]
      BY <2>3 DEF Inv!PayRead
    <3> HIDE DEF q
    <3>3. QED
      BY <2>2, <3>1, <3>2
  <2>4. CASE Inv!CancelRead(h, u, i)
    <3> DEFINE q == [op |-> "cancel", user |-> u, id |-> i]
    <3>1. q \in Inv!InvoiceRequests /\ q.id = i
      BY DEF Inv!InvoiceRequests
    <3>2. invReq' = [invReq EXCEPT ![h] = q]
      BY <2>4 DEF Inv!CancelRead
    <3> HIDE DEF q
    <3>3. QED
      BY <2>2, <3>1, <3>2
  <2>5. ASSUME NEW to \in Users, Inv!TransferDebtRead(h, u, i, to)
        PROVE  coin' = coin /\ InvoicesShape'
    <3> DEFINE q == [op |-> "assign", user |-> u, id |-> i, to |-> to]
    <3>1. q \in Inv!InvoiceRequests /\ q.id = i
      BY <2>5 DEF Inv!InvoiceRequests, Inv!TransferDebtRead, Inv!NewDebtor
    <3>2. invReq' = [invReq EXCEPT ![h] = q]
      BY <2>5 DEF Inv!TransferDebtRead
    <3> HIDE DEF q
    <3>3. QED
      BY <2>2, <3>1, <3>2
  <2>6. QED
    BY <1>4, <2>3, <2>4, <2>5
<1>5. ASSUME NEW h \in InvHandlers, Inv!PayReadCoin(h)
      PROVE  coin' = coin /\ InvoicesShape'
  <2> DEFINE r == invReq[h]
             q == [r EXCEPT !.op = "pay"]
  <2>1. /\ r.op = "payCoin" /\ invReq' = [invReq EXCEPT ![h].op = "pay"]
        /\ UNCHANGED <<ledgerVars, invoice>>
    BY <1>5 DEF Inv!PayReadCoin, Inv!ledgerVars, ledgerVars
  <2>2. r \in Inv!InvoiceRequests /\ r # Idle
    BY <1>0, <2>1 DEF Idle
  <2>3. q \in Inv!InvoiceRequests /\ q.id = r.id
    BY <2>1, <2>2 DEF Inv!InvoiceRequests
  <2>4. invReq' = [invReq EXCEPT ![h] = q] /\ invoice[r.id] \in Inv!Rows
    BY <1>0, <2>1, <2>2
  <2> HIDE DEF q
  <2>5. QED
    BY <1>2, <2>1, <2>3, <2>4
<1>6. ASSUME NEW h \in InvHandlers, Inv!PayCommit(h)
      PROVE  /\ coin' \in [Users -> Int] /\ InvoicesShape'
             /\ SumFunction(coin') = SumFunction(coin)
  <2> DEFINE r == invReq[h]
  <2>1. /\ r # Idle /\ invoice' = [invoice EXCEPT ![r.id].status = "paid"]
        /\ coin' = Inv!Move(coin, r.user, invoice[r.id].creator, invoice[r.id].amount)
        /\ invReq' = [invReq EXCEPT ![h] = Idle]
    BY <1>6 DEF Inv!PayCommit, Inv!MarkedPaid, Inv!Done, Inv!Idle, Idle
  <2>2. /\ r.user \in Users /\ r.id \in InvoiceIds /\ invoice[r.id] \in Inv!Rows
        /\ invoice[r.id].creator \in Users /\ invoice[r.id].amount \in Int
    BY <1>0, <2>1, InvoiceRequestIsTyped
  <2>3. coin' = Move(coin, r.user, invoice[r.id].creator, invoice[r.id].amount)
    BY <2>1 DEF Inv!Move, Inv!Credit, Inv!Debit, Move, Credit, Debit
  <2>4. coin' \in [Users -> Int] /\ SumFunction(coin') = SumFunction(coin)
    BY <1>0, <2>2, <2>3, SumMove
  <2>5. InvoicesKept
    BY <1>0, <2>1, <2>2 DEF InvoicesKept, Inv!Rows
  <2>6. QED
    BY <1>1, <2>1, <2>4, <2>5
<1>7. ASSUME NEW h \in InvHandlers,
             \/ Inv!PayConflict(h) \/ Inv!TransferDebtCommit(h)
             \/ Inv!CancelCommit(h) \/ Inv!CancelConflict(h) \/ Inv!InvoiceFail(h)
      PROVE  coin' = coin /\ InvoicesShape'
  <2> DEFINE r == invReq[h]
  <2>1. r # Idle /\ invReq' = [invReq EXCEPT ![h] = Idle] /\ coin' = coin
    BY <1>7 DEF Inv!PayConflict, Inv!TransferDebtCommit, Inv!CancelCommit,
       Inv!CancelConflict, Inv!InvoiceFail, Inv!Done, Inv!Idle, Idle, Inv!ledgerVars
  <2>2. r.id \in InvoiceIds /\ invoice[r.id] \in Inv!Rows
    BY <1>0, <2>1, InvoiceRequestIsTyped
  <2>3. InvoicesKept
    <3>1. CASE invoice' = invoice
      BY <1>0, <3>1 DEF InvoicesKept
    <3>2. CASE Inv!TransferDebtCommit(h)
      <4>1. r.op = "assign" /\ invoice' = [invoice EXCEPT ![r.id].payer = r.to]
        BY <3>2 DEF Inv!TransferDebtCommit
      <4>2. r.to \in Users
        BY <1>0, <2>1, <4>1 DEF Inv!InvoiceRequests
      <4>3. QED
        BY <1>0, <2>2, <4>1, <4>2 DEF InvoicesKept, Inv!Rows
    <3>3. CASE Inv!CancelCommit(h)
      <4>1. invoice' = [invoice EXCEPT ![r.id].status = "cancelled"]
        BY <3>3 DEF Inv!CancelCommit
      <4>2. QED
        BY <1>0, <2>2, <4>1 DEF InvoicesKept, Inv!Rows
    <3>4. QED
      BY <1>7, <3>1, <3>2, <3>3 DEF Inv!PayConflict, Inv!CancelConflict, Inv!InvoiceFail
  <2>4. QED
    BY <1>1, <2>1, <2>3
<1>8. QED
  BY <1>0, <1>3, <1>4, <1>5, <1>6, <1>7 DEF Inv!InvoicesNext

(* A payout gives back the stake it takes and the one the room holds.      *)
LEMMA SumPayout ==
  ASSUME coin \in [Users -> Int], NEW owner \in Users, NEW w \in Users,
         NEW a \in Int, NEW winner \in {owner, w, NoUser}
  PROVE  /\ Arn!Payout(owner, w, winner, a) \in [Users -> Int]
         /\ SumFunction(Arn!Payout(owner, w, winner, a)) = SumFunction(coin) + a
<1> DEFINE b == Debit(coin, w, a)
           c == Credit(b, owner, a)
<1>1. /\ b \in [Users -> Int] /\ SumFunction(coin) \in Int
      /\ SumFunction(b) = SumFunction(coin) - a
  BY SumDebit
<1>2. Arn!Payout(owner, w, winner, a)
        = IF winner = NoUser THEN Credit(c, w, a) ELSE Credit(b, winner, 2 * a)
  BY DEF Arn!Payout, Arn!Debit, Arn!Credit, Debit, Credit
<1> HIDE DEF b
<1>3. c \in [Users -> Int] /\ SumFunction(c) = SumFunction(b) + a
  BY <1>1, SumCredit
<1> HIDE DEF c
<1>4. CASE winner = NoUser
  <2>1. /\ Credit(c, w, a) \in [Users -> Int]
        /\ SumFunction(Credit(c, w, a)) = SumFunction(c) + a
    BY <1>3, SumCredit
  <2>2. QED
    BY <1>1, <1>2, <1>3, <1>4, <2>1
<1>5. CASE winner # NoUser
  <2>1. winner \in Users /\ 2 * a \in Int
    BY <1>5
  <2>2. /\ Credit(b, winner, 2 * a) \in [Users -> Int]
        /\ SumFunction(Credit(b, winner, 2 * a)) = SumFunction(b) + 2 * a
    BY <1>1, <2>1, SumCredit
  <2>3. QED
    BY <1>1, <1>2, <1>5, <2>2
<1>6. QED
  BY <1>4, <1>5

LEMMA PotIsTyped ==
  ASSUME Shape
  PROVE  Pots \in [RoomIds -> Int]
BY DEF Shape, ArenaShape, Pots, Arn!Pot, Arn!Rooms, Arn!NoRoom, Arn!Stakes

(* The pots move by what one room is changed by.                           *)
LEMMA OnePotMoves ==
  ASSUME Shape, NEW r \in RoomIds, NEW row \in Arn!Rooms,
         room' = [room EXCEPT ![r] = row]
  PROVE  /\ SumFunction(Pots) \in Int
         /\ SumFunction(Pots') = SumFunction(Pots) - Arn!Pot(r)
              + (IF row.status = "open" THEN row.amount ELSE 0)
<1> DEFINE v == IF row.status = "open" THEN row.amount ELSE 0
<1>1. v \in Int
  BY DEF Arn!Rooms, Arn!Stakes
<1>2. Pots \in [RoomIds -> Int] /\ Pots[r] = Arn!Pot(r)
  BY PotIsTyped DEF Pots
<1>3. Pots' = [Pots EXCEPT ![r] = v]
  <2>1. \A s \in RoomIds : room'[s] = IF s = r THEN row ELSE room[s]
    BY DEF Shape, ArenaShape
  <2>2. \A s \in RoomIds : Pots'[s] = IF s = r THEN v ELSE Pots[s]
    BY <2>1 DEF Pots, Arn!Pot
  <2> HIDE DEF v
  <2>3. Pots' = [s \in RoomIds |-> Pots'[s]]
    BY DEF Pots
  <2>4. QED
    BY <1>2, <2>2, <2>3
<1> HIDE DEF v
<1>4. /\ SumFunction(Pots) \in Int
      /\ SumFunction([Pots EXCEPT ![r] = v]) = SumFunction(Pots) + v - Pots[r]
  BY <1>1, <1>2, RoomsAssumption, SumMoves
<1>5. QED
  BY <1>1, <1>2, <1>3, <1>4 DEF v

LEMMA ArenaKeepsMoney ==
  ASSUME Shape, ResolvedHasMatch, Arn!ArenaNext
  PROVE  /\ coin' \in [Users -> Int] /\ ArenaShape' /\ ResolvedHasMatch'
         /\ SumFunction(coin') + SumFunction(Pots')
              = SumFunction(coin) + SumFunction(Pots)
<1> DEFINE Kept == /\ coin' \in [Users -> Int] /\ ArenaShape' /\ ResolvedHasMatch'
                   /\ SumFunction(coin') + SumFunction(Pots')
                        = SumFunction(coin) + SumFunction(Pots)
<1>0. /\ coin \in [Users -> Int] /\ Arn!Idle = Idle
      /\ room \in [RoomIds -> Arn!Rooms \cup {Arn!NoRoom}]
      /\ arenaReq \in [ArenaHandlers -> Arn!ArenaRequests \cup {Idle}]
      /\ \A h \in ArenaHandlers : arenaReq[h].op \in {"joinCoin", "join"} =>
           room[arenaReq[h].id] \in Arn!Rooms
  BY IdleIsIdle DEF Shape, BankShape, ArenaShape
<1>1. ASSUME RoomsKept, NEW h \in ArenaHandlers,
             arenaReq' = [arenaReq EXCEPT ![h] = Idle]
      PROVE  ArenaShape'
  <2>1. ASSUME NEW g \in ArenaHandlers, arenaReq'[g].op \in {"joinCoin", "join"}
        PROVE  room'[arenaReq'[g].id] \in Arn!Rooms
    <3>1. arenaReq'[g] = arenaReq[g] /\ arenaReq[g] # Idle
      BY <1>0, <1>1, <2>1 DEF Idle
    <3>2. arenaReq[g].id \in RoomIds /\ room[arenaReq[g].id] \in Arn!Rooms
      BY <1>0, <2>1, <3>1, ArenaRequestIsTyped
    <3>3. QED
      BY <1>1, <3>1, <3>2 DEF RoomsKept
  <2>2. arenaReq' \in [ArenaHandlers -> Arn!ArenaRequests \cup {Idle}]
    BY <1>0, <1>1
  <2>3. QED
    BY <1>1, <2>1, <2>2 DEF ArenaShape, RoomsKept
<1>2. ASSUME UNCHANGED <<coin, room, matches>>, NEW h \in ArenaHandlers,
             NEW q \in Arn!ArenaRequests \cup {Idle},
             arenaReq' = [arenaReq EXCEPT ![h] = q],
             q.op \in {"joinCoin", "join"} => room[q.id] \in Arn!Rooms
      PROVE  Kept
  <2>1. ArenaShape'
    BY <1>0, <1>2 DEF ArenaShape
  <2>2. ResolvedHasMatch' /\ Pots' = Pots
    BY <1>2 DEF ResolvedHasMatch, Pots, Arn!Pot
  <2>3. QED
    BY <1>0, <1>2, <2>1, <2>2
<1>3. ASSUME NEW h \in ArenaHandlers, NEW u \in Users, NEW c \in Arn!Hands,
             NEW a \in Amounts, Arn!CreateRead(h, u, a, c)
      PROVE  Kept
  <2> DEFINE q == [op |-> "create", user |-> u, amount |-> a, choice |-> c]
  <2>1. /\ Arn!ValidStake(a) /\ arenaReq' = [arenaReq EXCEPT ![h] = q]
        /\ UNCHANGED <<coin, room, matches>>
    BY <1>3 DEF Arn!CreateRead, Arn!ledgerVars
  <2>2. a \in Arn!Stakes
    BY <2>1, TransactionsAssumption DEF Arn!ValidStake, Arn!Stakes
  <2>3. q \in Arn!ArenaRequests /\ q.op = "create"
    BY <2>2 DEF Arn!ArenaRequests
  <2> HIDE DEF q
  <2>4. QED
    BY <1>2, <2>1, <2>3
<1>4. ASSUME NEW h \in ArenaHandlers, NEW u \in Users, NEW c \in Arn!Hands,
             NEW r \in RoomIds, Arn!JoinReadRoom(h, u, r, c)
      PROVE  Kept
  <2> DEFINE q == [op |-> "joinCoin", user |-> u, id |-> r, choice |-> c]
  <2>1. /\ room[r].status = "open" /\ arenaReq' = [arenaReq EXCEPT ![h] = q]
        /\ UNCHANGED <<coin, room, matches>>
    BY <1>4 DEF Arn!JoinReadRoom, Arn!ledgerVars
  <2>2. room[r] \in Arn!Rooms
    BY <1>0, <2>1 DEF Arn!NoRoom
  <2>3. q \in Arn!ArenaRequests /\ q.id = r
    BY DEF Arn!ArenaRequests
  <2> HIDE DEF q
  <2>4. QED
    BY <1>2, <2>1, <2>2, <2>3
<1>5. ASSUME NEW h \in ArenaHandlers, Arn!JoinReadCoin(h)
      PROVE  Kept
  <2> DEFINE r == arenaReq[h]
             q == [r EXCEPT !.op = "join"]
  <2>1. /\ r.op = "joinCoin" /\ arenaReq' = [arenaReq EXCEPT ![h].op = "join"]
        /\ UNCHANGED <<coin, room, matches>>
    BY <1>5 DEF Arn!JoinReadCoin, Arn!ledgerVars
  <2>2. r \in Arn!ArenaRequests
    BY <1>0, <2>1 DEF Idle
  <2>3. q \in Arn!ArenaRequests /\ q.id = r.id
    BY <2>1, <2>2 DEF Arn!ArenaRequests
  <2>4. arenaReq' = [arenaReq EXCEPT ![h] = q] /\ room[r.id] \in Arn!Rooms
    BY <1>0, <2>1
  <2> HIDE DEF q
  <2>5. QED
    BY <1>2, <2>1, <2>3, <2>4
<1>6. ASSUME NEW h \in ArenaHandlers, Arn!ArenaFail(h)
      PROVE  Kept
  <2>1. arenaReq' = [arenaReq EXCEPT ![h] = Idle] /\ UNCHANGED <<coin, room, matches>>
    BY <1>0, <1>6 DEF Arn!ArenaFail, Arn!Done, Arn!ledgerVars
  <2>2. QED
    BY <1>2, <2>1 DEF Idle
<1>7. ASSUME NEW h \in ArenaHandlers, NEW r \in RoomIds, Arn!CreateCommit(h, r)
      PROVE  Kept
  <2> DEFINE q == arenaReq[h]
             row == [status |-> "open", owner |-> q.user,
                     amount |-> q.amount, choice |-> q.choice]
  <2>1. /\ q.op = "create" /\ q # Idle /\ room[r] = Arn!NoRoom
        /\ coin' = Debit(coin, q.user, q.amount)
        /\ room' = [room EXCEPT ![r] = row] /\ matches' = matches
        /\ arenaReq' = [arenaReq EXCEPT ![h] = Idle]
    BY <1>0, <1>7 DEF Arn!CreateCommit, Arn!Done, Arn!Debit, Debit, Idle
  <2>2. /\ q.user \in Users /\ q.amount \in Int /\ q.amount \in Arn!Stakes
        /\ q.choice \in Arn!Hands
    BY <1>0, <2>1, ArenaRequestIsTyped DEF Arn!ArenaRequests
  <2>3. row \in Arn!Rooms /\ row.status = "open" /\ row.amount = q.amount
    BY <2>2 DEF Arn!Rooms
  <2>4. room[r] \notin Arn!Rooms /\ Arn!Pot(r) = 0
    BY <2>1 DEF Arn!NoRoom, Arn!Rooms, Arn!Pot
  <2> HIDE DEF row
  <2>5. RoomsKept
    BY <1>0, <2>1, <2>3, <2>4 DEF RoomsKept
  <2>6. ResolvedHasMatch'
    BY <1>0, <2>1, <2>3 DEF ResolvedHasMatch
  <2>7. /\ coin' \in [Users -> Int] /\ SumFunction(coin) \in Int
        /\ SumFunction(coin') = SumFunction(coin) - q.amount
    BY <1>0, <2>1, <2>2, SumDebit
  <2>8. /\ SumFunction(Pots) \in Int
        /\ SumFunction(Pots') = SumFunction(Pots) - 0 + q.amount
    BY <2>1, <2>3, <2>4, OnePotMoves
  <2>9. ArenaShape'
    BY <1>1, <2>1, <2>5
  <2>10. QED
    BY <2>2, <2>6, <2>7, <2>8, <2>9
<1>8. ASSUME NEW h \in ArenaHandlers, Arn!JoinCommit(h)
      PROVE  Kept
  <2> DEFINE q == arenaReq[h]
             rm == room[q.id]
             row == [rm EXCEPT !.status = "resolved"]
             result == Arn!ResolveMatch(rm.choice, q.choice)
             winner == Arn!WinnerOf(rm.owner, q.user, result)
  <2>1. /\ q.op = "join" /\ q # Idle /\ matches[q.id] = <<>>
        /\ coin' = Arn!Payout(rm.owner, q.user, winner, rm.amount)
        /\ room' = [room EXCEPT ![q.id].status = "resolved"]
        /\ arenaReq' = [arenaReq EXCEPT ![h] = Idle]
    BY <1>0, <1>8 DEF Arn!JoinCommit, Arn!Done, Arn!RoomIdFree, Idle
  <2>2. /\ q.user \in Users /\ q.id \in RoomIds /\ rm \in Arn!Rooms
        /\ rm.owner \in Users /\ rm.amount \in Int
    BY <1>0, <2>1, ArenaRequestIsTyped
  <2>3. winner \in {rm.owner, q.user, NoUser}
    BY DEF Arn!ResolveMatch, Arn!WinnerOf
  <2>4. rm.status = "open" /\ Arn!Pot(q.id) = rm.amount
    BY <2>1, <2>2 DEF ResolvedHasMatch, Arn!Rooms, Arn!Pot
  <2>5. /\ row \in Arn!Rooms /\ row.status # "open" /\ row.amount = rm.amount
        /\ room' = [room EXCEPT ![q.id] = row]
    BY <1>0, <2>1, <2>2 DEF Arn!Rooms
  <2>6. /\ coin' \in [Users -> Int] /\ SumFunction(coin) \in Int
        /\ SumFunction(coin') = SumFunction(coin) + rm.amount
    <3> HIDE DEF winner
    <3>1. SumFunction(coin) \in Int
      BY <1>0, <2>2, SumCredit
    <3>2. QED
      BY <1>0, <2>1, <2>2, <2>3, <3>1, SumPayout
  <2> HIDE DEF row, winner, result
  <2>7. RoomsKept
    BY <1>0, <2>2, <2>5 DEF RoomsKept
  <2>8. ResolvedHasMatch'
    <3>1. PICK m : matches' = [matches EXCEPT ![q.id] = Append(matches[q.id], m)]
      BY <1>8 DEF Arn!JoinCommit
    <3>2. /\ matches' = [r \in RoomIds |-> matches'[r]]
          /\ \A r \in RoomIds : matches'[r] = IF r = q.id THEN Append(<<>>, m)
                                               ELSE matches[r]
      BY <2>1, <2>2, <3>1 DEF ResolvedHasMatch
    <3>3. Append(<<>>, m) # <<>>
      OBVIOUS
    <3>4. \A r \in RoomIds : r # q.id => room'[r] = room[r]
      BY <1>0, <2>5
    <3>5. QED
      BY <3>2, <3>3, <3>4 DEF ResolvedHasMatch
  <2>9. /\ SumFunction(Pots) \in Int
        /\ SumFunction(Pots') = SumFunction(Pots) - rm.amount + 0
    BY <2>2, <2>4, <2>5, OnePotMoves
  <2>10. ArenaShape'
    BY <1>1, <2>1, <2>7
  <2>11. QED
    BY <2>2, <2>6, <2>8, <2>9, <2>10
<1>9. QED
  BY <1>3, <1>4, <1>5, <1>6, <1>7, <1>8 DEF Arn!ArenaNext

LEMMA MoneyInitially == MarketInit => MoneyInv
<1> SUFFICES ASSUME MarketInit PROVE MoneyInv
  OBVIOUS
<1>1. Shape
  BY MarketInitially DEF MarketInv
<1>2. ResolvedHasMatch
  BY DEF MarketInit, Arn!ArenaInit, ResolvedHasMatch, Arn!NoRoom
<1>3. SumFunction(Pots) = 0
  <2>1. Pots = [r \in RoomIds |-> 0]
    BY DEF MarketInit, Arn!ArenaInit, Pots, Arn!Pot, Arn!NoRoom
  <2>2. QED
    BY <2>1, RoomsAssumption, SumOfZeros
<1>4. coin = StartCoin /\ SumFunction(bankDebt) = 0
  BY UsersAssumption, SumOfZeros DEF MarketInit, TransactionsInit, LedgerInit
<1>5. SumFunction(coin) \in Int
  BY <1>1, UsersAssumption, SumIsInt DEF Shape, BankShape
<1>6. MoneyConserved
  BY <1>3, <1>4, <1>5 DEF MoneyConserved, Pots
<1>7. QED
  BY <1>1, <1>2, <1>6 DEF MoneyInv

LEMMA MoneyStep == MoneyInv /\ [MarketNext]_marketVars => MoneyInv'
<1> SUFFICES ASSUME MoneyInv, [MarketNext]_marketVars PROVE MoneyInv'
  OBVIOUS
<1>0. /\ Shape /\ ResolvedHasMatch
      /\ SumFunction(coin) + SumFunction(Pots)
           = SumFunction(StartCoin) + SumFunction(bankDebt)
  BY DEF MoneyInv, MoneyConserved, Pots
<1>1. SumFunction(StartCoin) \in Int
  BY LedgerAssumption, UsersAssumption, SumIsInt
<1>2. /\ Shape' /\ ResolvedHasMatch'
      /\ SumFunction(coin') + SumFunction(Pots') + SumFunction(bankDebt)
           = SumFunction(coin) + SumFunction(Pots) + SumFunction(bankDebt')
  <2>1. CASE TransactionsNext /\ UNCHANGED <<invoiceVars, arenaVars>>
    <3>1. UNCHANGED <<invoice, invReq, room, matches, arenaReq>>
      BY <2>1 DEF invoiceVars, arenaVars
    <3>2. InvoicesShape' /\ ArenaShape' /\ ResolvedHasMatch' /\ Pots' = Pots
      BY <1>0, <3>1 DEF Shape, InvoicesShape, ArenaShape, ResolvedHasMatch, Pots, Arn!Pot
    <3>3. /\ BankShape'
          /\ SumFunction(coin') + SumFunction(bankDebt)
               = SumFunction(coin) + SumFunction(bankDebt')
      BY <1>0, <2>1, BankKeepsMoney
    <3>4. Shape'
      BY <3>2, <3>3 DEF Shape
    <3>5. /\ SumFunction(coin) \in Int /\ SumFunction(bankDebt) \in Int
          /\ SumFunction(Pots) \in Int
          /\ SumFunction(coin') \in Int /\ SumFunction(bankDebt') \in Int
      BY <1>0, <3>4, PotIsTyped, UsersAssumption, RoomsAssumption, SumIsInt
         DEF Shape, BankShape
    <3>6. QED
      BY <3>2, <3>3, <3>4, <3>5
  <2>2. CASE Inv!InvoicesNext /\ UNCHANGED <<bankVars, arenaVars>>
    <3>1. UNCHANGED <<bankDebt, bankReq, room, matches, arenaReq>>
      BY <2>2 DEF bankVars, arenaVars
    <3>2. ArenaShape' /\ ResolvedHasMatch' /\ Pots' = Pots
      BY <1>0, <3>1 DEF Shape, ArenaShape, ResolvedHasMatch, Pots, Arn!Pot
    <3>3. /\ coin' \in [Users -> Int] /\ InvoicesShape'
          /\ SumFunction(coin') = SumFunction(coin)
      BY <1>0, <2>2, InvoicesKeepMoney
    <3>4. Shape'
      BY <1>0, <3>1, <3>2, <3>3 DEF Shape, BankShape
    <3>5. QED
      BY <1>0, <3>1, <3>2, <3>3, <3>4
  <2>3. CASE Arn!ArenaNext /\ UNCHANGED <<bankVars, invoiceVars>>
    <3>1. UNCHANGED <<bankDebt, bankReq, invoice, invReq>>
      BY <2>3 DEF bankVars, invoiceVars
    <3>2. InvoicesShape'
      BY <1>0, <3>1 DEF Shape, InvoicesShape
    <3>3. /\ coin' \in [Users -> Int] /\ ArenaShape' /\ ResolvedHasMatch'
          /\ SumFunction(coin') + SumFunction(Pots')
               = SumFunction(coin) + SumFunction(Pots)
      BY <1>0, <2>3, ArenaKeepsMoney
    <3>4. Shape'
      BY <1>0, <3>1, <3>2, <3>3 DEF Shape, BankShape
    <3>5. QED
      BY <3>1, <3>3, <3>4
  <2>4. CASE UNCHANGED marketVars
    <3>1. UNCHANGED <<coin, bankDebt, bankReq, invoice, invReq, room, matches, arenaReq>>
      BY <2>4 DEF marketVars, vars, ledgerVars, bankVars, invoiceVars, arenaVars
    <3>2. Shape' /\ ResolvedHasMatch' /\ Pots' = Pots
      BY <1>0, <3>1 DEF Shape, BankShape, InvoicesShape, ArenaShape,
         ResolvedHasMatch, Pots, Arn!Pot
    <3>3. QED
      BY <3>1, <3>2
  <2>5. QED
    BY <2>1, <2>2, <2>3, <2>4 DEF MarketNext
<1>3. /\ SumFunction(coin) \in Int /\ SumFunction(bankDebt) \in Int
      /\ SumFunction(Pots) \in Int
  BY <1>0, PotIsTyped, UsersAssumption, RoomsAssumption, SumIsInt DEF Shape, BankShape
<1>4. /\ SumFunction(coin') \in Int /\ SumFunction(bankDebt') \in Int
      /\ SumFunction(Pots') \in Int
  <2>1. coin' \in [Users -> Int] /\ bankDebt' \in [Users -> Int]
    BY <1>2 DEF Shape, BankShape
  <2>2. Pots' \in [RoomIds -> Int]
    BY <1>2 DEF Shape, ArenaShape, Pots, Arn!Pot, Arn!Rooms, Arn!NoRoom, Arn!Stakes
  <2>3. QED
    BY <2>1, <2>2, UsersAssumption, RoomsAssumption, SumIsInt
<1>5. SumFunction(coin') + SumFunction(Pots')
        = SumFunction(StartCoin) + SumFunction(bankDebt')
  <2> DEFINE c == SumFunction(coin)
             p == SumFunction(Pots)
             d == SumFunction(bankDebt)
             s == SumFunction(StartCoin)
             c1 == SumFunction(coin')
             p1 == SumFunction(Pots')
             d1 == SumFunction(bankDebt')
  <2>1. c \in Int /\ p \in Int /\ d \in Int /\ s \in Int
        /\ c1 \in Int /\ p1 \in Int /\ d1 \in Int
    BY <1>1, <1>3, <1>4
  <2>2. c + p = s + d /\ c1 + p1 + d = c + p + d1
    BY <1>0, <1>2
  <2> HIDE DEF c, p, d, s, c1, p1, d1
  <2>3. c1 + p1 = s + d1
    BY <2>1, <2>2
  <2>4. QED
    BY <2>3 DEF c1, p1, s, d1
<1>6. MoneyConserved'
  BY <1>5 DEF MoneyConserved, Pots
<1>7. QED
  BY <1>2, <1>6 DEF MoneyInv

(* Whatever clients do at the same time, and whatever fails: all coins are *)
(* in a balance or in an open room, and there are as many of them as there *)
(* were at first and as the bank has lent.                                 *)
THEOREM MarketMoneyConserved == MarketSpec => []MoneyConserved
<1>1. MoneyInv => MoneyConserved
  BY DEF MoneyInv
<1>2. QED
  BY <1>1, MoneyInitially, MoneyStep, PTL DEF MarketSpec
=============================================================================
