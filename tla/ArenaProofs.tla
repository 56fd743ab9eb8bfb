----------------------------- MODULE ArenaProofs -----------------------------
(***************************************************************************)
(* Theorems about Arena, for any users, rooms, handlers and stakes.        *)
(***************************************************************************)
EXTENDS Arena, SumTheorems, TLAPS

LEMMA Int4IsInt == Int4 \subseteq Int
BY LedgerAssumption DEF Int4

LEMMA StakeIsPositive ==
  ASSUME NEW a \in Stakes
  PROVE  a \in Int /\ a > 0 /\ 2 * a \in Int
BY LedgerAssumption DEF Stakes

(* A stake that passes the checks of createRoom is a valid one.            *)
LEMMA CoveredStake ==
  ASSUME NEW a \in Amounts, NEW c \in Int4, ValidStake(a), c >= a
  PROVE  a \in Stakes
BY LedgerAssumption, ArenaAssumption DEF Int4, ValidStake, Stakes

LEMMA CreditIsTyped ==
  ASSUME NEW b \in [Users -> Int], NEW u \in Users, NEW a \in Int
  PROVE  /\ Credit(b, u, a) \in [Users -> Int]
         /\ Debit(b, u, a) \in [Users -> Int]
BY DEF Credit, Debit

LEMMA RowIsTyped ==
  ASSUME NEW b \in [Users -> Int], NEW from, NEW to, NEW a \in Int
  PROVE  Row(b, from, to, a) \in [Users -> Int]
BY DEF Row

LEMMA FitsIsTyped ==
  ASSUME NEW b \in [Users -> Int], Fits(b)
  PROVE  b \in [Users -> Int4]
BY DEF Fits

(* A join under way found its room, and found another user to own it.      *)
JoinsNameRooms ==
  \A h \in ArenaHandlers : arenaReq[h].op \in {"joinCoin", "join"} =>
    /\ room[arenaReq[h].id] # NoRoom
    /\ room[arenaReq[h].id].owner # arenaReq[h].user

ArenaInv == TypeOK /\ JoinsNameRooms /\ OneMatchPerRoom

-----------------------------------------------------------------------------
LEMMA CreateIsTyped ==
  ASSUME TypeOK, NEW h \in ArenaHandlers, arenaReq[h].op = "create"
  PROVE  /\ arenaReq[h].user \in Users /\ arenaReq[h].amount \in Stakes
         /\ arenaReq[h].choice \in Hands /\ arenaReq[h] # Idle
BY DEF TypeOK, ArenaRequests, Idle

LEMMA JoinIsTyped ==
  ASSUME TypeOK, NEW h \in ArenaHandlers, arenaReq[h].op \in {"joinCoin", "join"}
  PROVE  /\ arenaReq[h].user \in Users /\ arenaReq[h].id \in RoomIds
         /\ arenaReq[h].choice \in Hands /\ arenaReq[h] # Idle
BY DEF TypeOK, ArenaRequests, Idle

LEMMA RoomIsTyped ==
  ASSUME TypeOK, NEW r \in RoomIds, room[r] # NoRoom
  PROVE  /\ room[r] \in Rooms
         /\ room[r].owner \in Users /\ room[r].amount \in Stakes
         /\ room[r].choice \in Hands
BY DEF TypeOK, Rooms

(* What a join that commits knows: the room it read is still open, and it  *)
(* belongs to someone else.                                                *)
LEMMA JoinFacts ==
  ASSUME TypeOK, JoinsNameRooms, OneMatchPerRoom,
         NEW h \in ArenaHandlers, JoinCommit(h)
  PROVE  LET q == arenaReq[h]
             rm == room[q.id]
         IN /\ q.user \in Users /\ q.id \in RoomIds /\ q.choice \in Hands
            /\ rm \in Rooms /\ rm.status = "open"
            /\ rm.owner \in Users /\ rm.amount \in Stakes /\ rm.choice \in Hands
            /\ rm.owner # q.user
            /\ matches[q.id] = <<>>
<1> DEFINE q == arenaReq[h]
           rm == room[q.id]
<1>1. /\ q.op = "join" /\ matches[q.id] = <<>>
  BY DEF JoinCommit, RoomIdFree
<1>2. q.user \in Users /\ q.id \in RoomIds /\ q.choice \in Hands
  BY <1>1, JoinIsTyped
<1>3. rm # NoRoom /\ rm.owner # q.user
  BY <1>1 DEF JoinsNameRooms
<1>4. /\ rm \in Rooms /\ rm.owner \in Users /\ rm.amount \in Stakes
      /\ rm.choice \in Hands
  BY <1>2, <1>3, RoomIsTyped
<1>5. rm.status # "resolved"
  BY <1>1, <1>2 DEF OneMatchPerRoom
<1>6. QED
  BY <1>1, <1>2, <1>3, <1>4, <1>5 DEF Rooms

LEMMA WinnerIsPlayer ==
  ASSUME NEW o, NEW c, NEW x, NEW y
  PROVE  WinnerOf(o, c, ResolveMatch(x, y)) \in {o, c, NoUser}
BY DEF WinnerOf, ResolveMatch

(* What the rows of one match charge u too much.                           *)
Charge(o, c, w, a, u) ==
  IF w # NoUser /\ u = LoserOf(o, c, w) THEN 2 * a ELSE 0

(* The payout of a match and the rows it writes agree for every user, but  *)
(* for the pot the loser is charged.                                       *)
LEMMA PayoutIsLogged ==
  ASSUME TypeOK,
         NEW o \in Users, NEW c \in Users, o # c, NEW a \in Int,
         NEW w, w \in {o, c, NoUser}, NEW u \in Users
  PROVE  /\ Payout(o, c, w, a) \in [Users -> Int]
         /\ MatchLog(o, c, w, a) \in [Users -> Int]
         /\ Payout(o, c, w, a)[u] - coin[u]
              = MatchLog(o, c, w, a)[u] - booked[u] + Charge(o, c, w, a, u)
<1>1. coin \in [Users -> Int] /\ booked \in [Users -> Int]
  BY Int4IsInt DEF TypeOK
<1>2. NoUser \notin Users
  BY LedgerAssumption
<1>3. coin[u] \in Int /\ booked[u] \in Int
  BY <1>1
<1>4. CASE w = NoUser
  <2>1. /\ Payout(o, c, w, a) = Credit(Credit(Debit(coin, c, a), o, a), c, a)
        /\ MatchLog(o, c, w, a) =
             Row(Row(Row(booked, c, NoUser, a), NoUser, o, a), NoUser, c, a)
    BY <1>4 DEF Payout, MatchLog
  <2>2. /\ Payout(o, c, w, a) \in [Users -> Int]
        /\ MatchLog(o, c, w, a) \in [Users -> Int]
    <3>1. Debit(coin, c, a) \in [Users -> Int]
      BY <1>1, CreditIsTyped
    <3>2. Credit(Debit(coin, c, a), o, a) \in [Users -> Int]
      BY <3>1, CreditIsTyped
    <3>3. Row(booked, c, NoUser, a) \in [Users -> Int]
      BY <1>1, RowIsTyped
    <3>4. Row(Row(booked, c, NoUser, a), NoUser, o, a) \in [Users -> Int]
      BY <3>3, RowIsTyped
    <3>5. Payout(o, c, w, a) \in [Users -> Int]
      <4>1. Credit(Credit(Debit(coin, c, a), o, a), c, a) \in [Users -> Int]
        BY <3>2, CreditIsTyped
      <4>2. QED
        BY <2>1, <4>1
    <3>6. MatchLog(o, c, w, a) \in [Users -> Int]
      BY <2>1, <3>4, RowIsTyped
    <3>7. QED
      BY <3>5, <3>6
  <2>3. /\ Payout(o, c, w, a)[u] = coin[u] + (IF u = o THEN a ELSE 0)
        /\ MatchLog(o, c, w, a)[u] = booked[u] + (IF u = o THEN a ELSE 0)
    BY <1>1, <1>2, <2>1 DEF Credit, Debit, Row
  <2>4. Charge(o, c, w, a, u) = 0
    BY <1>4 DEF Charge
  <2>5. QED
    BY <1>3, <2>2, <2>3, <2>4
<1>5. CASE w \in Users
  <2> DEFINE l == LoserOf(o, c, w)
  <2>1. w # NoUser /\ l \in Users
    BY <1>2, <1>5 DEF LoserOf
  <2>2. /\ Payout(o, c, w, a) = Credit(Debit(coin, c, a), w, 2 * a)
        /\ MatchLog(o, c, w, a) = Row(Row(booked, c, NoUser, a), l, w, 2 * a)
        /\ Charge(o, c, w, a, u) = IF u = l THEN 2 * a ELSE 0
    BY <2>1 DEF Payout, MatchLog, Charge
  <2> HIDE DEF l
  <2>3. /\ Payout(o, c, w, a) \in [Users -> Int]
        /\ MatchLog(o, c, w, a) \in [Users -> Int]
    <3>1. 2 * a \in Int
      OBVIOUS
    <3>2. Debit(coin, c, a) \in [Users -> Int]
      BY <1>1, CreditIsTyped
    <3>3. Row(booked, c, NoUser, a) \in [Users -> Int]
      BY <1>1, RowIsTyped
    <3>4. Payout(o, c, w, a) \in [Users -> Int]
      BY <1>5, <2>2, <3>1, <3>2, CreditIsTyped
    <3>5. MatchLog(o, c, w, a) \in [Users -> Int]
      BY <2>2, <3>1, <3>3, RowIsTyped
    <3>6. QED
      BY <3>4, <3>5
  <2>4. /\ Payout(o, c, w, a)[u] = coin[u] - (IF u = c THEN a ELSE 0)
                                          + (IF u = w THEN 2 * a ELSE 0)
        /\ MatchLog(o, c, w, a)[u] = booked[u] - (IF u = c THEN a ELSE 0)
                                               - (IF u = l THEN 2 * a ELSE 0)
                                               + (IF u = w THEN 2 * a ELSE 0)
    <3>1. u # NoUser /\ 2 * a \in Int
      BY <1>2
    <3>2. Payout(o, c, w, a)[u] = coin[u] - (IF u = c THEN a ELSE 0)
                                          + (IF u = w THEN 2 * a ELSE 0)
      BY <1>1, <1>5, <2>2, <3>1 DEF Credit, Debit
    <3>3. Row(booked, c, NoUser, a)[u] = booked[u] - (IF u = c THEN a ELSE 0)
      BY <1>3, <3>1 DEF Row
    <3>4. QED
      BY <1>3, <2>2, <3>1, <3>2, <3>3 DEF Row
  <2>5. PICK x \in Int, y \in Int, z \in Int :
          /\ x = (IF u = c THEN a ELSE 0) /\ y = (IF u = w THEN 2 * a ELSE 0)
          /\ z = (IF u = l THEN 2 * a ELSE 0)
    OBVIOUS
  <2>6. /\ Payout(o, c, w, a)[u] = coin[u] - x + y
        /\ MatchLog(o, c, w, a)[u] = booked[u] - x - z + y
        /\ Charge(o, c, w, a, u) = z
    BY <2>2, <2>4, <2>5
  <2>7. QED
    BY <1>3, <2>3, <2>5, <2>6
<1>6. QED
  BY <1>4, <1>5

-----------------------------------------------------------------------------
LEMMA InvInitially == ArenaInit => ArenaInv
<1> SUFFICES ASSUME ArenaInit PROVE ArenaInv
  OBVIOUS
<1>1. coin \in [Users -> Int4] /\ booked \in [Users -> Int]
  BY LedgerAssumption DEF ArenaInit, LedgerInit, Int4
<1>2. TypeOK
  BY <1>1 DEF ArenaInit, TypeOK
<1>3. JoinsNameRooms /\ OneMatchPerRoom
  BY DEF ArenaInit, JoinsNameRooms, OneMatchPerRoom, Idle, NoRoom
<1>4. QED
  BY <1>2, <1>3 DEF ArenaInv

(* What a join that commits does to the coins and their rows.              *)
LEMMA JoinMoney ==
  ASSUME ArenaInv, NEW h \in ArenaHandlers, JoinCommit(h)
  PROVE  LET q == arenaReq[h]
             rm == room[q.id]
             w == WinnerOf(rm.owner, q.user, ResolveMatch(rm.choice, q.choice))
         IN /\ coin' \in [Users -> Int4] /\ booked' \in [Users -> Int]
            /\ \A u \in Users :
                 coin'[u] - coin[u] = booked'[u] - booked[u]
                                       + Charge(rm.owner, q.user, w, rm.amount, u)
<1> DEFINE q == arenaReq[h]
           rm == room[q.id]
           o == rm.owner
           c == q.user
           a == rm.amount
           w == WinnerOf(o, c, ResolveMatch(rm.choice, q.choice))
<1>0. TypeOK /\ JoinsNameRooms /\ OneMatchPerRoom
  BY DEF ArenaInv
<1>1. o \in Users /\ c \in Users /\ o # c /\ a \in Int
  BY <1>0, JoinFacts, StakeIsPositive
<1>2. w \in {o, c, NoUser}
  BY WinnerIsPlayer
<1>3. /\ coin' = Payout(o, c, w, a) /\ Fits(coin')
      /\ booked' = MatchLog(o, c, w, a)
  BY DEF JoinCommit
<1> HIDE DEF o, c, a, w
<1>4. ASSUME NEW u \in Users
      PROVE  /\ Payout(o, c, w, a) \in [Users -> Int]
             /\ MatchLog(o, c, w, a) \in [Users -> Int]
             /\ Payout(o, c, w, a)[u] - coin[u]
                  = MatchLog(o, c, w, a)[u] - booked[u] + Charge(o, c, w, a, u)
  BY <1>0, <1>1, <1>2, PayoutIsLogged
<1>5. coin' \in [Users -> Int] /\ booked' \in [Users -> Int]
  BY <1>1, <1>3, <1>4
<1>6. coin' \in [Users -> Int4]
  BY <1>3, <1>5 DEF Fits
<1>7. \A u \in Users :
        coin'[u] - coin[u] = booked'[u] - booked[u] + Charge(o, c, w, a, u)
  BY <1>3, <1>4
<1>8. QED
  BY <1>5, <1>6, <1>7 DEF o, c, a, w

(* What a join that commits does to its room.                              *)
LEMMA JoinRows ==
  ASSUME ArenaInv, NEW h \in ArenaHandlers, JoinCommit(h)
  PROVE  LET id == arenaReq[h].id IN
         /\ id \in RoomIds /\ room[id].status = "open" /\ room[id] \in Rooms
         /\ room' = [room EXCEPT ![id] = [room[id] EXCEPT !.status = "resolved"]]
         /\ \E m \in MatchRows :
              /\ m.owner = room[id].owner /\ m.challenger # room[id].owner
              /\ m.amount = room[id].amount /\ m.ownerChoice = room[id].choice
              /\ matches' = [matches EXCEPT ![id] = <<m>>]
<1> DEFINE q == arenaReq[h]
           rm == room[q.id]
           w == WinnerOf(rm.owner, q.user, ResolveMatch(rm.choice, q.choice))
           m == [owner |-> rm.owner, challenger |-> q.user, amount |-> rm.amount,
                 ownerChoice |-> rm.choice, challengerChoice |-> q.choice,
                 winner |-> w]
<1>1. /\ q.user \in Users /\ q.id \in RoomIds /\ q.choice \in Hands
      /\ rm \in Rooms /\ rm.status = "open"
      /\ rm.owner \in Users /\ rm.amount \in Stakes /\ rm.choice \in Hands
      /\ rm.owner # q.user /\ matches[q.id] = <<>>
  BY JoinFacts DEF ArenaInv
<1>2. w \in Users \cup {NoUser}
  BY <1>1, WinnerIsPlayer
<1>3. /\ room' = [room EXCEPT ![q.id].status = "resolved"]
      /\ matches' = [matches EXCEPT ![q.id] = Append(matches[q.id], m)]
  BY DEF JoinCommit
<1> HIDE DEF w
<1>4. m \in MatchRows
  BY <1>1, <1>2 DEF MatchRows
<1>5. Append(matches[q.id], m) = <<m>>
  BY <1>1
<1>6. QED
  BY <1>1, <1>3, <1>4, <1>5

LEMMA InvNext == ArenaInv /\ [ArenaNext]_vars => ArenaInv'
<1> SUFFICES ASSUME ArenaInv, [ArenaNext]_vars
             PROVE  ArenaInv'
  OBVIOUS
<1>0. TypeOK /\ JoinsNameRooms /\ OneMatchPerRoom
  BY DEF ArenaInv
<1> USE Int4IsInt
<1>1. ASSUME NEW h \in ArenaHandlers, NEW u \in Users, NEW a \in Amounts,
             NEW c \in Hands, CreateRead(h, u, a, c)
      PROVE  ArenaInv'
  <2>1. a \in Stakes
    BY <1>0, <1>1, CoveredStake DEF CreateRead, CanStake, TypeOK
  <2>2. [op |-> "create", user |-> u, amount |-> a, choice |-> c] \in ArenaRequests
    BY <2>1 DEF ArenaRequests
  <2>3. TypeOK'
    BY <1>0, <1>1, <2>2 DEF TypeOK, CreateRead, ledgerVars
  <2>4. JoinsNameRooms'
    BY <1>0, <1>1 DEF TypeOK, CreateRead, JoinsNameRooms
  <2>5. OneMatchPerRoom'
    BY <1>0, <1>1 DEF CreateRead, OneMatchPerRoom, ledgerVars
  <2>6. QED
    BY <2>3, <2>4, <2>5 DEF ArenaInv
<1>2. ASSUME NEW h \in ArenaHandlers, NEW r \in RoomIds, CreateCommit(h, r)
      PROVE  ArenaInv'
  <2> DEFINE q == arenaReq[h]
             row == [status |-> "open", owner |-> q.user, amount |-> q.amount,
                     choice |-> q.choice]
  <2>1. /\ q.user \in Users /\ q.amount \in Stakes /\ q.amount \in Int
        /\ q.choice \in Hands /\ room[r] = NoRoom
    BY <1>0, <1>2, CreateIsTyped, StakeIsPositive DEF CreateCommit
  <2>2. row \in Rooms /\ row.status # "resolved"
    BY <2>1 DEF Rooms
  <2>3. coin' \in [Users -> Int4] /\ booked' \in [Users -> Int]
    BY <1>0, <1>2, <2>1, RowIsTyped DEF TypeOK, CreateCommit, Debit, Fits
  <2>4. TypeOK'
    BY <1>0, <1>2, <2>2, <2>3 DEF TypeOK, CreateCommit, Done
  <2>5. JoinsNameRooms'
    <3> SUFFICES ASSUME NEW g \in ArenaHandlers,
                        arenaReq'[g].op \in {"joinCoin", "join"}
                 PROVE  /\ room'[arenaReq'[g].id] # NoRoom
                        /\ room'[arenaReq'[g].id].owner # arenaReq'[g].user
      BY DEF JoinsNameRooms
    <3>1. arenaReq'[g] = arenaReq[g]
      BY <1>0, <1>2 DEF TypeOK, CreateCommit, Done, Idle
    <3>2. arenaReq[g].id # r
      BY <1>0, <2>1, <3>1 DEF JoinsNameRooms
    <3>3. room'[arenaReq[g].id] = room[arenaReq[g].id]
      BY <1>0, <1>2, <3>1, <3>2, JoinIsTyped DEF TypeOK, CreateCommit
    <3>4. QED
      BY <1>0, <3>1, <3>3 DEF JoinsNameRooms
  <2>6. OneMatchPerRoom'
    BY <1>0, <1>2, <2>1, <2>2 DEF TypeOK, CreateCommit, OneMatchPerRoom, NoRoom
  <2>7. QED
    BY <2>4, <2>5, <2>6 DEF ArenaInv
<1>3. ASSUME NEW h \in ArenaHandlers, NEW u \in Users, NEW r \in RoomIds,
             NEW c \in Hands, JoinReadRoom(h, u, r, c)
      PROVE  ArenaInv'
  <2>1. [op |-> "joinCoin", user |-> u, id |-> r, choice |-> c] \in ArenaRequests
    BY DEF ArenaRequests
  <2>2. TypeOK'
    BY <1>0, <1>3, <2>1 DEF TypeOK, JoinReadRoom, ledgerVars
  <2>3. JoinsNameRooms'
    BY <1>0, <1>3 DEF TypeOK, JoinReadRoom, JoinsNameRooms, NoRoom
  <2>4. OneMatchPerRoom'
    BY <1>0, <1>3 DEF JoinReadRoom, OneMatchPerRoom, ledgerVars
  <2>5. QED
    BY <2>2, <2>3, <2>4 DEF ArenaInv
<1>4. ASSUME NEW h \in ArenaHandlers, JoinReadCoin(h)
      PROVE  ArenaInv'
  <2>1. /\ [arenaReq[h] EXCEPT !.op = "join"] \in ArenaRequests
        /\ [arenaReq[h] EXCEPT !.op = "join"].id = arenaReq[h].id
        /\ [arenaReq[h] EXCEPT !.op = "join"].user = arenaReq[h].user
    <3>1. arenaReq[h] \in [op : {"joinCoin", "join"}, user : Users,
                            id : RoomIds, choice : Hands]
      BY <1>0, <1>4 DEF TypeOK, JoinReadCoin, ArenaRequests, Idle
    <3>2. QED
      BY <3>1 DEF ArenaRequests
  <2>2. TypeOK'
    BY <1>0, <1>4, <2>1 DEF TypeOK, JoinReadCoin, ledgerVars
  <2>3. JoinsNameRooms'
    <3> SUFFICES ASSUME NEW g \in ArenaHandlers,
                        arenaReq'[g].op \in {"joinCoin", "join"}
                 PROVE  /\ room[arenaReq'[g].id] # NoRoom
                        /\ room[arenaReq'[g].id].owner # arenaReq'[g].user
      BY <1>4 DEF JoinsNameRooms, JoinReadCoin
    <3>1. CASE g = h
      BY <1>0, <1>4, <2>1, <3>1 DEF TypeOK, JoinReadCoin, JoinsNameRooms
    <3>2. CASE g # h
      BY <1>0, <1>4, <3>2 DEF TypeOK, JoinReadCoin, JoinsNameRooms
    <3>3. QED
      BY <3>1, <3>2
  <2>4. OneMatchPerRoom'
    BY <1>0, <1>4 DEF JoinReadCoin, OneMatchPerRoom, ledgerVars
  <2>5. QED
    BY <2>2, <2>3, <2>4 DEF ArenaInv
<1>5. ASSUME NEW h \in ArenaHandlers, JoinCommit(h)
      PROVE  ArenaInv'
  <2> DEFINE id == arenaReq[h].id
  <2>1. /\ id \in RoomIds /\ room[id] \in Rooms
        /\ room' = [room EXCEPT ![id] = [room[id] EXCEPT !.status = "resolved"]]
    BY <1>5, JoinRows
  <2>2. PICK m \in MatchRows :
          /\ m.owner = room[id].owner /\ m.challenger # room[id].owner
          /\ m.amount = room[id].amount /\ m.ownerChoice = room[id].choice
          /\ matches' = [matches EXCEPT ![id] = <<m>>]
    BY <1>5, JoinRows
  <2>3. /\ room'[id] \in Rooms /\ room'[id] # NoRoom
        /\ room'[id].status = "resolved" /\ room'[id].owner = room[id].owner
        /\ room'[id].amount = room[id].amount /\ room'[id].choice = room[id].choice
    BY <1>0, <2>1 DEF TypeOK, Rooms, NoRoom
  <2>4. matches' \in [RoomIds -> Seq(MatchRows)] /\ matches'[id] = <<m>>
    BY <1>0, <2>1, <2>2 DEF TypeOK
  <2>5. TypeOK'
    BY <1>0, <1>5, <2>1, <2>3, <2>4, JoinMoney DEF TypeOK, JoinCommit, Done
  <2>6. OneMatchPerRoom'
    <3> SUFFICES ASSUME NEW r \in RoomIds
                 PROVE  IF room'[r].status = "resolved"
                        THEN /\ Len(matches'[r]) = 1
                             /\ matches'[r][1].owner = room'[r].owner
                             /\ matches'[r][1].challenger # room'[r].owner
                             /\ matches'[r][1].amount = room'[r].amount
                             /\ matches'[r][1].ownerChoice = room'[r].choice
                        ELSE matches'[r] = <<>>
      BY DEF OneMatchPerRoom
    <3>1. CASE r = id
      BY <2>2, <2>3, <2>4, <3>1
    <3>2. CASE r # id
      BY <1>0, <2>1, <2>2, <3>2 DEF TypeOK, OneMatchPerRoom
    <3>3. QED
      BY <3>1, <3>2
  <2>7. JoinsNameRooms'
    <3> SUFFICES ASSUME NEW g \in ArenaHandlers,
                        arenaReq'[g].op \in {"joinCoin", "join"}
                 PROVE  /\ room'[arenaReq'[g].id] # NoRoom
                        /\ room'[arenaReq'[g].id].owner # arenaReq'[g].user
      BY DEF JoinsNameRooms
    <3>1. arenaReq'[g] = arenaReq[g]
      BY <1>0, <1>5 DEF TypeOK, JoinCommit, Done, Idle
    <3>2. /\ room[arenaReq[g].id] # NoRoom
          /\ room[arenaReq[g].id].owner # arenaReq[g].user
          /\ arenaReq[g].id \in RoomIds
      BY <1>0, <3>1, JoinIsTyped DEF JoinsNameRooms
    <3>3. CASE arenaReq[g].id = id
      BY <2>3, <3>1, <3>2, <3>3
    <3>4. CASE arenaReq[g].id # id
      BY <1>0, <2>1, <3>1, <3>2, <3>4 DEF TypeOK
    <3>5. QED
      BY <3>3, <3>4
  <2>8. QED
    BY <2>5, <2>6, <2>7 DEF ArenaInv
<1>6. ASSUME NEW h \in ArenaHandlers, ArenaFail(h)
      PROVE  ArenaInv'
  <2>1. TypeOK'
    BY <1>0, <1>6 DEF TypeOK, ArenaFail, Done, ledgerVars
  <2>2. JoinsNameRooms'
    BY <1>0, <1>6 DEF TypeOK, ArenaFail, Done, JoinsNameRooms, Idle
  <2>3. OneMatchPerRoom'
    BY <1>0, <1>6 DEF ArenaFail, OneMatchPerRoom, ledgerVars
  <2>4. QED
    BY <2>1, <2>2, <2>3 DEF ArenaInv
<1>7. ASSUME UNCHANGED vars
      PROVE  ArenaInv'
  BY <1>0, <1>7
     DEF ArenaInv, TypeOK, JoinsNameRooms, OneMatchPerRoom, vars, ledgerVars, arenaVars
<1>8. QED
  BY <1>1, <1>2, <1>3, <1>4, <1>5, <1>6, <1>7 DEF ArenaNext

LEMMA InvHolds == ArenaSpec => []ArenaInv
BY InvInitially, InvNext, PTL DEF ArenaSpec

-----------------------------------------------------------------------------
(* Rooms, matches and requests keep the shape the checks gave them, and no *)
(* balance leaves its column.                                              *)
THEOREM TypeCorrect == ArenaSpec => []TypeOK
<1>1. ArenaInv => TypeOK
  BY DEF ArenaInv
<1>2. QED
  BY <1>1, InvHolds, PTL

(* However many joiners read a room while it was open, it gets one match,  *)
(* and gets it exactly when it is resolved.                                *)
THEOREM OneMatchCorrect == ArenaSpec => []OneMatchPerRoom
<1>1. ArenaInv => OneMatchPerRoom
  BY DEF ArenaInv
<1>2. QED
  BY <1>1, InvHolds, PTL

(* A resolved room and its match never change again.                       *)
THEOREM ResolvedCorrect == ArenaSpec => ResolvedIsFinal
<1> DEFINE Final(r) == room[r].status = "resolved" =>
              room'[r] = room[r] /\ matches'[r] = matches[r]
<1>1. ASSUME ArenaInv, [ArenaNext]_vars, NEW r \in RoomIds
      PROVE  Final(r)
  <2>0. TypeOK
    BY <1>1 DEF ArenaInv
  <2>1. ASSUME NEW h \in ArenaHandlers, NEW s \in RoomIds, CreateCommit(h, s)
        PROVE  Final(r)
    BY <2>0, <2>1 DEF TypeOK, CreateCommit, NoRoom
  <2>2. ASSUME NEW h \in ArenaHandlers, JoinCommit(h)
        PROVE  Final(r)
    BY <1>1, <2>0, <2>2, JoinRows DEF TypeOK
  <2>3. ASSUME UNCHANGED <<room, matches>>
        PROVE  Final(r)
    BY <2>3
  <2>4. QED
    BY <1>1, <2>1, <2>2, <2>3
       DEF ArenaNext, CreateRead, JoinReadRoom, JoinReadCoin, ArenaFail, vars, arenaVars
<1>2. ArenaInv /\ [ArenaNext]_vars => [\A r \in RoomIds : Final(r)]_vars
  BY <1>1
<1>3. QED
  BY <1>2, InvHolds, PTL DEF ArenaSpec, ResolvedIsFinal

-----------------------------------------------------------------------------
(* The invariant behind the balance checks: what requests under way may    *)
(* still take from a user, and the rooms that have taken from a user.      *)
LEMMA LargestAmount ==
  /\ Max(Amounts) \in Nat
  /\ \A a \in Amounts : a \in Int /\ a <= Max(Amounts)
<1>1. IsFiniteSet(Amounts) /\ Amounts \subseteq Int /\ Amounts \cap Nat # {}
  BY ArenaAssumption, ArenaLoadAssumption
<1>2. \E m \in Amounts : \A a \in Amounts : m >= a
  BY <1>1, LargestExists
<1>3. Max(Amounts) \in Amounts /\ \A a \in Amounts : Max(Amounts) >= a
  BY <1>2 DEF Max
<1>4. PICK n \in Amounts : n \in Nat
  BY <1>1
<1>5. Max(Amounts) \in Int /\ n \in Int /\ Max(Amounts) >= n
  BY <1>1, <1>3, <1>4
<1>6. \A a \in Amounts : a \in Int /\ a <= Max(Amounts)
  BY <1>1, <1>3, <1>5
<1>7. QED
  BY <1>4, <1>5, <1>6

Claim(u) == [h \in ArenaHandlers |->
  IF arenaReq[h].op = "create" /\ arenaReq[h].user = u THEN arenaReq[h].amount
  ELSE IF arenaReq[h].op = "join" /\ arenaReq[h].user = u
       THEN room[arenaReq[h].id].amount
  ELSE 0]

Taken(u) == {r \in RoomIds : /\ room[r] # NoRoom
                            /\ \/ room[r].owner = u
                               \/ matches[r] # <<>> /\ matches[r][1].challenger = u}
Times(u) == Cardinality(Taken(u))

AmountsAsked ==
  /\ \A h \in ArenaHandlers : arenaReq[h].op = "create" => arenaReq[h].amount \in Amounts
  /\ \A r \in RoomIds : room[r] # NoRoom => room[r].amount \in Amounts

(* A claim that was covered when it was checked lacks since then no more   *)
(* than what the rooms have taken.                                         *)
RoomsCover(u) ==
  RowsCoverClaims(coin[u], Claim(u), ArenaHandlers, Times(u), Max(Amounts))

HandlersCover(u) == CoversClaims(coin[u], Claim(u), ArenaHandlers, Max(Amounts))

OverdraftInv == AmountsAsked /\ \A u \in Users : RoomsCover(u) /\ HandlersCover(u)

LEMMA ClaimIsTyped ==
  ASSUME ArenaInv, AmountsAsked, NEW u \in Users
  PROVE  /\ Claim(u) \in [ArenaHandlers -> Int]
         /\ \A h \in ArenaHandlers : 0 <= Claim(u)[h] /\ Claim(u)[h] <= Max(Amounts)
         /\ Times(u) \in Nat /\ Times(u) <= Cardinality(RoomIds)
<1>1. ASSUME NEW h \in ArenaHandlers
      PROVE  Claim(u)[h] \in Int /\ 0 <= Claim(u)[h] /\ Claim(u)[h] <= Max(Amounts)
  <2>1. CASE arenaReq[h].op = "create"
    <3>1. arenaReq[h].amount \in Stakes /\ arenaReq[h].amount \in Amounts
      BY <2>1, CreateIsTyped DEF ArenaInv, AmountsAsked
    <3>2. QED
      BY <2>1, <3>1, StakeIsPositive, LargestAmount DEF Claim
  <2>2. CASE arenaReq[h].op = "join"
    <3>1. /\ arenaReq[h].id \in RoomIds /\ room[arenaReq[h].id] # NoRoom
      BY <2>2, JoinIsTyped DEF ArenaInv, JoinsNameRooms
    <3>2. room[arenaReq[h].id].amount \in Stakes /\ room[arenaReq[h].id].amount \in Amounts
      BY <3>1, RoomIsTyped DEF ArenaInv, AmountsAsked
    <3>3. QED
      BY <2>2, <3>2, StakeIsPositive, LargestAmount DEF Claim
  <2>3. CASE arenaReq[h].op \notin {"create", "join"}
    BY <2>3, LargestAmount DEF Claim
  <2>4. QED
    BY <2>1, <2>2, <2>3
<1>2. Taken(u) \subseteq RoomIds
  BY DEF Taken
<1>3. Times(u) \in Nat /\ Times(u) <= Cardinality(RoomIds)
  BY <1>2, ArenaLoadAssumption, FS_Subset, FS_CardinalityType DEF Times
<1>4. Claim(u) \in [ArenaHandlers -> Int]
  BY <1>1 DEF Claim
<1>5. QED
  BY <1>1, <1>3, <1>4

ClaimsTyped ==
  \A u \in Users :
    /\ Claim(u) \in [ArenaHandlers -> Int]
    /\ \A h \in ArenaHandlers : 0 <= Claim(u)[h] /\ Claim(u)[h] <= Max(Amounts)

LEMMA ClaimsAreTyped == ArenaInv /\ AmountsAsked => ClaimsTyped
BY ClaimIsTyped DEF ClaimsTyped

LEMMA ClaimsStayTyped == (ArenaInv /\ AmountsAsked => ClaimsTyped)'
BY ClaimsAreTyped, PTL

LEMMA OverdraftInitially == ArenaInit => OverdraftInv
<1> SUFFICES ASSUME ArenaInit PROVE OverdraftInv
  OBVIOUS
<1>1. AmountsAsked
  BY DEF ArenaInit, AmountsAsked, Idle
<1>2. ASSUME NEW u \in Users PROVE RoomsCover(u) /\ HandlersCover(u)
  <2>1. Claim(u) \in [ArenaHandlers -> Int] /\ \A h \in ArenaHandlers : Claim(u)[h] = 0
    BY DEF ArenaInit, Claim, Idle
  <2>2. coin[u] \in Nat
    BY LedgerAssumption DEF ArenaInit, LedgerInit
  <2>3. Times(u) = 0
    <3>1. Taken(u) = {}
      BY DEF ArenaInit, Taken
    <3>2. QED
      BY <3>1, FS_EmptySet DEF Times
  <2>4. RoomsCover(u)
    BY <2>1, <2>2, <2>3 DEF RoomsCover, RowsCoverClaims
  <2>5. HandlersCover(u)
    BY <2>1, <2>2, ArenaLoadAssumption, LargestAmount, NoClaims DEF HandlersCover
  <2>6. QED
    BY <2>4, <2>5
<1>3. QED
  BY <1>1, <1>2 DEF OverdraftInv

(* What a step does to the requests of everybody but h, and to the rooms.  *)
OnlyChanges(h) ==
  /\ \A g \in ArenaHandlers \ {h} : arenaReq'[g] = arenaReq[g]
  /\ \A r \in RoomIds : room[r] # NoRoom =>
       room'[r] # NoRoom /\ room'[r].amount = room[r].amount

LEMMA OtherClaimsStay ==
  ASSUME ArenaInv, NEW u \in Users, NEW h \in ArenaHandlers, OnlyChanges(h),
         NEW g \in ArenaHandlers \ {h}
  PROVE  Claim(u)'[g] = Claim(u)[g]
<1>1. arenaReq'[g] = arenaReq[g]
  BY DEF OnlyChanges
<1>2. arenaReq[g].op = "join" => room'[arenaReq[g].id].amount = room[arenaReq[g].id].amount
  BY JoinIsTyped DEF ArenaInv, JoinsNameRooms, OnlyChanges
<1>3. QED
  BY <1>1, <1>2 DEF Claim

(* One room more that takes from u at most what is claimed, or no room.    *)
(* What a match pays: the owner's stake is in the room already.            *)
Gain(o, c, w, a, u) ==
  IF u = c THEN (IF w = NoUser THEN 0 ELSE IF w = c THEN a ELSE -a)
  ELSE IF u = o THEN (IF w = NoUser THEN a ELSE IF w = o THEN 2 * a ELSE 0)
  ELSE 0

LEMMA PayoutGains ==
  ASSUME coin \in [Users -> Int], NEW o \in Users, NEW c \in Users, o # c,
         NEW a \in Int, NEW w, w \in {o, c, NoUser}, NEW u \in Users
  PROVE  Payout(o, c, w, a)[u] = coin[u] + Gain(o, c, w, a, u)
<1>1. NoUser \notin Users
  BY LedgerAssumption
<1>2. CASE w = NoUser
  <2>1. Payout(o, c, w, a) = Credit(Credit(Debit(coin, c, a), o, a), c, a)
    BY <1>2 DEF Payout
  <2>2. QED
    BY <1>1, <1>2, <2>1 DEF Credit, Debit, Gain
<1>3. CASE w \in Users
  <2>1. Payout(o, c, w, a) = Credit(Debit(coin, c, a), w, 2 * a)
    BY <1>1, <1>3 DEF Payout
  <2>2. Payout(o, c, w, a)[u] = coin[u] - (IF u = c THEN a ELSE 0)
                                        + (IF u = w THEN 2 * a ELSE 0)
    BY <1>3, <2>1 DEF Credit, Debit
  <2>3. QED
    BY <1>1, <1>3, <2>2 DEF Gain
<1>4. QED
  BY <1>2, <1>3

LEMMA JoinPays ==
  ASSUME ArenaInv, NEW h \in ArenaHandlers, JoinCommit(h), NEW u \in Users
  PROVE  LET q == arenaReq[h]
             rm == room[q.id]
             w == WinnerOf(rm.owner, q.user, ResolveMatch(rm.choice, q.choice))
         IN coin'[u] = coin[u] + Gain(rm.owner, q.user, w, rm.amount, u)
<1> DEFINE q == arenaReq[h]
           rm == room[q.id]
           w == WinnerOf(rm.owner, q.user, ResolveMatch(rm.choice, q.choice))
<1>1. /\ rm.owner \in Users /\ q.user \in Users /\ rm.owner # q.user
      /\ rm.amount \in Int /\ coin \in [Users -> Int]
  BY JoinFacts, StakeIsPositive, Int4IsInt DEF ArenaInv, TypeOK
<1>2. w \in {rm.owner, q.user, NoUser}
  BY WinnerIsPlayer
<1>3. coin' = Payout(rm.owner, q.user, w, rm.amount)
  BY DEF JoinCommit
<1> HIDE DEF q, rm, w
<1>4. QED
  BY <1>1, <1>2, <1>3, PayoutGains DEF q, rm, w

LEMMA OneRoomMore ==
  ASSUME NEW u \in Users, NEW r \in RoomIds \ Taken(u), Taken(u)' = Taken(u) \cup {r}
  PROVE  Times(u)' = Times(u) + 1
<1>1. IsFiniteSet(Taken(u))
  BY ArenaLoadAssumption, FS_Subset DEF Taken
<1>2. QED
  BY <1>1, FS_AddElement DEF Times

(* The two things a step can be for u: to take nothing and claim nothing   *)
(* the balance does not cover alone, or to take what the request claimed.  *)
TakesNothing(u, h) ==
  /\ Times(u)' = Times(u) /\ coin'[u] >= coin[u]
  /\ Claim(u)'[h] = 0 \/ Claim(u)'[h] = Claim(u)[h] \/ coin'[u] >= Claim(u)'[h]

TakesClaim(u, h) ==
  /\ Times(u)' = Times(u) + 1 /\ Claim(u)[h] # 0
  /\ coin'[u] >= coin[u] - Claim(u)[h] /\ Claim(u)'[h] = 0

LEMMA StaysCovered ==
  ASSUME ArenaInv, ArenaInv', OverdraftInv, AmountsAsked',
         NEW u \in Users, NEW h \in ArenaHandlers, OnlyChanges(h),
         TakesNothing(u, h) \/ TakesClaim(u, h)
  PROVE  RoomsCover(u)' /\ HandlersCover(u)'
<1> DEFINE M == Max(Amounts)
<1>1. /\ Claim(u) \in [ArenaHandlers -> Int] /\ Claim(u)[h] \in Int
      /\ 0 <= Claim(u)[h]
      /\ M \in Nat /\ coin[u] \in Int /\ coin'[u] \in Int
  BY ClaimIsTyped, LargestAmount, Int4IsInt DEF OverdraftInv, ArenaInv, TypeOK
<1>2. /\ Claim(u)' \in [ArenaHandlers -> Int] /\ Claim(u)'[h] \in Int
      /\ \A g \in ArenaHandlers : 0 <= Claim(u)'[g] /\ Claim(u)'[g] <= M
  BY ClaimsStayTyped DEF ClaimsTyped
<1>3. \A g \in ArenaHandlers \ {h} : Claim(u)'[g] = Claim(u)[g]
  BY OtherClaimsStay
<1>4. coin'[u] - coin[u] >= Claim(u)'[h] - Claim(u)[h] \/ coin'[u] >= Claim(u)'[h]
  BY <1>1, <1>2 DEF TakesNothing, TakesClaim
<1>5. CoversClaims(coin[u], Claim(u), ArenaHandlers, M)
  BY DEF OverdraftInv, HandlersCover
<1> HIDE DEF M
<1>6. CoversClaims(coin'[u], Claim(u)', ArenaHandlers, M)
  BY <1>1, <1>2, <1>3, <1>4, <1>5, ArenaLoadAssumption, ClaimsStayCovered
<1>7. RowsCoverClaims(coin'[u], Claim(u)', ArenaHandlers, Times(u)', M)
  <2> DEFINE f == Claim(u)
             g == Claim(u)'
             n == Times(u)
             k == Times(u)'
  <2>1. n \in Nat /\ \A y \in ArenaHandlers : 0 <= f[y] /\ f[y] <= M
    BY ClaimIsTyped DEF OverdraftInv, M
  <2>2. RowsCoverClaims(coin[u], f, ArenaHandlers, n, M)
    BY DEF OverdraftInv, RoomsCover, M
  <2>3. \/ k = n /\ coin'[u] >= coin[u] /\ g[h] \in {0, f[h]}
        \/ k = n /\ coin'[u] >= coin[u] /\ coin'[u] >= g[h]
        \/ k = n + 1 /\ f[h] # 0 /\ coin'[u] >= coin[u] - f[h] /\ g[h] = 0
    BY DEF TakesNothing, TakesClaim
  <2>4. /\ f \in [ArenaHandlers -> Int] /\ g \in [ArenaHandlers -> Int]
        /\ \A y \in ArenaHandlers \ {h} : g[y] = f[y]
    BY <1>1, <1>2, <1>3
  <2> HIDE DEF f, g, n, k
  <2>5. RowsCoverClaims(coin'[u], g, ArenaHandlers, k, M)
    BY <1>1, <2>1, <2>2, <2>3, <2>4, RowsStayCovering
  <2>6. QED
    BY <2>5 DEF g, k
<1>8. QED
  BY <1>6, <1>7 DEF HandlersCover, RoomsCover, M

LEMMA OverdraftNext == ArenaInv /\ OverdraftInv /\ [ArenaNext]_vars => OverdraftInv'
<1> SUFFICES ASSUME ArenaInv, OverdraftInv, [ArenaNext]_vars
             PROVE  OverdraftInv'
  OBVIOUS
<1>0. /\ ArenaInv' /\ AmountsAsked
      /\ TypeOK /\ JoinsNameRooms /\ OneMatchPerRoom
      /\ \A u \in Users : coin[u] \in Int
  BY InvNext, Int4IsInt DEF ArenaInv, OverdraftInv, TypeOK
<1>1. ASSUME NEW h \in ArenaHandlers, OnlyChanges(h), AmountsAsked',
             \A u \in Users : TakesNothing(u, h) \/ TakesClaim(u, h)
      PROVE  OverdraftInv'
  BY <1>0, <1>1, StaysCovered DEF OverdraftInv
<1>2. ASSUME NEW h \in ArenaHandlers, UNCHANGED <<coin, room, matches>>,
             \A g \in ArenaHandlers \ {h} : arenaReq'[g] = arenaReq[g],
             arenaReq'[h].op = "create" => arenaReq'[h].amount \in Amounts,
             \A u \in Users : Claim(u)'[h] = 0 \/ coin[u] >= Claim(u)'[h]
      PROVE  OverdraftInv'
  <2>1. OnlyChanges(h) /\ AmountsAsked'
    BY <1>0, <1>2 DEF OnlyChanges, AmountsAsked
  <2>2. \A u \in Users : Times(u)' = Times(u)
    BY <1>2 DEF Times, Taken
  <2>3. \A u \in Users : TakesNothing(u, h)
    BY <1>0, <1>2, <2>2 DEF TakesNothing
  <2>4. QED
    BY <1>1, <2>1, <2>3
<1>3. ASSUME NEW h \in ArenaHandlers, NEW u \in Users, NEW a \in Amounts,
             NEW c \in Hands, CreateRead(h, u, a, c)
      PROVE  OverdraftInv'
  <2>1. /\ arenaReq'[h].op = "create" /\ arenaReq'[h].user = u /\ arenaReq'[h].amount = a
        /\ \A g \in ArenaHandlers \ {h} : arenaReq'[g] = arenaReq[g]
        /\ coin[u] >= a /\ UNCHANGED <<coin, room, matches>>
    BY <1>0, <1>3 DEF CreateRead, CanStake, ledgerVars, TypeOK
  <2>2. \A v \in Users : Claim(v)'[h] = IF v = u THEN a ELSE 0
    BY <2>1 DEF Claim
  <2>3. QED
    BY <1>2, <2>1, <2>2
<1>4. ASSUME NEW h \in ArenaHandlers, NEW u \in Users, NEW r \in RoomIds,
             NEW c \in Hands, JoinReadRoom(h, u, r, c)
      PROVE  OverdraftInv'
  <2>1. /\ arenaReq'[h].op = "joinCoin"
        /\ \A g \in ArenaHandlers \ {h} : arenaReq'[g] = arenaReq[g]
        /\ UNCHANGED <<coin, room, matches>>
    BY <1>0, <1>4 DEF JoinReadRoom, ledgerVars, TypeOK
  <2>2. \A v \in Users : Claim(v)'[h] = 0
    BY <2>1 DEF Claim
  <2>3. QED
    BY <1>2, <2>1, <2>2
<1>5. ASSUME NEW h \in ArenaHandlers, JoinReadCoin(h)
      PROVE  OverdraftInv'
  <2> DEFINE q == arenaReq[h]
             q1 == [q EXCEPT !.op = "join"]
  <2>1. /\ q.op = "joinCoin" /\ coin[q.user] >= room[q.id].amount
        /\ arenaReq' = [arenaReq EXCEPT ![h] = q1]
        /\ UNCHANGED <<coin, room, matches>>
    BY <1>0, <1>5 DEF JoinReadCoin, CanStake, ledgerVars, TypeOK
  <2>2. q \in [op : {"joinCoin", "join"}, user : Users, id : RoomIds, choice : Hands]
    BY <1>0, <2>1 DEF TypeOK, ArenaRequests, Idle
  <2>3. q1.op = "join" /\ q1.user = q.user /\ q1.id = q.id
    BY <2>2
  <2> HIDE DEF q1
  <2>4. arenaReq'[h] = q1 /\ \A g \in ArenaHandlers \ {h} : arenaReq'[g] = arenaReq[g]
    BY <1>0, <2>1 DEF TypeOK
  <2>5. \A v \in Users : Claim(v)'[h] = IF v = q.user THEN room[q.id].amount ELSE 0
    BY <2>1, <2>3, <2>4 DEF Claim
  <2>6. QED
    BY <1>2, <2>1, <2>3, <2>4, <2>5
<1>6. ASSUME NEW h \in ArenaHandlers, ArenaFail(h)
      PROVE  OverdraftInv'
  <2>1. /\ arenaReq'[h] = Idle
        /\ \A g \in ArenaHandlers \ {h} : arenaReq'[g] = arenaReq[g]
        /\ UNCHANGED <<coin, room, matches>>
    BY <1>0, <1>6 DEF ArenaFail, Done, ledgerVars, TypeOK
  <2>2. arenaReq'[h].op = "idle" /\ \A v \in Users : Claim(v)'[h] = 0
    BY <2>1 DEF Claim, Idle
  <2>3. QED
    BY <1>2, <2>1, <2>2
<1>7. ASSUME NEW h \in ArenaHandlers, NEW r \in RoomIds, CreateCommit(h, r)
      PROVE  OverdraftInv'
  <2> DEFINE q == arenaReq[h]
             row == [status |-> "open", owner |-> q.user, amount |-> q.amount,
                     choice |-> q.choice]
  <2>1. /\ q.op = "create" /\ room[r] = NoRoom /\ matches' = matches
        /\ coin' = Debit(coin, q.user, q.amount)
        /\ room' = [room EXCEPT ![r] = row]
        /\ arenaReq'[h] = Idle
        /\ \A g \in ArenaHandlers \ {h} : arenaReq'[g] = arenaReq[g]
    BY <1>0, <1>7 DEF CreateCommit, Done, TypeOK
  <2>2. /\ q.user \in Users /\ q.amount \in Stakes /\ q.amount \in Int
        /\ q.amount > 0 /\ q.amount \in Amounts
    BY <1>0, <2>1, CreateIsTyped, StakeIsPositive DEF AmountsAsked
  <2>3. /\ row # NoRoom /\ row.owner = q.user /\ row.amount = q.amount
    BY DEF NoRoom
  <2> HIDE DEF row
  <2>4. \A s \in RoomIds : room'[s] = IF s = r THEN row ELSE room[s]
    BY <1>0, <2>1 DEF TypeOK
  <2>5. OnlyChanges(h) /\ AmountsAsked'
    BY <1>0, <2>1, <2>2, <2>3, <2>4 DEF OnlyChanges, AmountsAsked, Idle
  <2>6. matches[r] = <<>>
    BY <1>0, <2>1 DEF OneMatchPerRoom, NoRoom
  <2>7. ASSUME NEW u \in Users
        PROVE  TakesNothing(u, h) \/ TakesClaim(u, h)
    <3>1. Claim(u)[h] = (IF u = q.user THEN q.amount ELSE 0) /\ Claim(u)'[h] = 0
      BY <2>1 DEF Claim, Idle
    <3>2. coin'[u] = IF u = q.user THEN coin[u] - q.amount ELSE coin[u]
      BY <1>0, <2>1 DEF Debit, TypeOK
    <3>3. CASE u = q.user
      <4>1. r \notin Taken(u) /\ Taken(u)' = Taken(u) \cup {r}
        BY <2>1, <2>3, <2>4, <3>3 DEF Taken
      <4>2. Times(u)' = Times(u) + 1
        BY <4>1, OneRoomMore
      <4>3. QED
        BY <1>0, <2>2, <3>1, <3>2, <3>3, <4>2 DEF TakesClaim
    <3>4. CASE u # q.user
      <4>1. Taken(u)' = Taken(u)
        BY <2>1, <2>3, <2>4, <2>6, <3>4 DEF Taken
      <4>2. QED
        BY <1>0, <3>1, <3>2, <3>4, <4>1 DEF TakesNothing, Times
    <3>5. QED
      BY <3>3, <3>4
  <2>8. QED
    BY <1>1, <2>5, <2>7
<1>8. ASSUME NEW h \in ArenaHandlers, JoinCommit(h)
      PROVE  OverdraftInv'
  <2> DEFINE q == arenaReq[h]
             id == q.id
             rm == room[id]
             w == WinnerOf(rm.owner, q.user, ResolveMatch(rm.choice, q.choice))
  <2>1. /\ q.user \in Users /\ id \in RoomIds /\ rm.owner # q.user /\ rm # NoRoom
        /\ rm.status = "open" /\ rm.owner \in Users /\ rm.amount \in Stakes
        /\ rm.amount \in Int /\ rm.amount > 0 /\ matches[id] = <<>> /\ q.op = "join"
        /\ rm \in Rooms
    <3>1. /\ q.user \in Users /\ id \in RoomIds /\ rm \in Rooms /\ rm.status = "open"
          /\ rm.owner \in Users /\ rm.amount \in Stakes /\ rm.owner # q.user
          /\ matches[id] = <<>>
      BY <1>0, <1>8, JoinFacts
    <3>2. q.op = "join"
      BY <1>8 DEF JoinCommit
    <3>3. rm # NoRoom
      BY <3>1 DEF NoRoom
    <3>4. QED
      BY <3>1, <3>2, <3>3, StakeIsPositive
  <2>2. /\ arenaReq'[h] = Idle
        /\ \A g \in ArenaHandlers \ {h} : arenaReq'[g] = arenaReq[g]
    BY <1>0, <1>8 DEF JoinCommit, Done, TypeOK
  <2>3. /\ \A s \in RoomIds \ {id} : room'[s] = room[s] /\ matches'[s] = matches[s]
        /\ room'[id] # NoRoom /\ room'[id].owner = rm.owner
        /\ room'[id].amount = rm.amount
        /\ matches'[id] # <<>> /\ matches'[id][1].challenger = q.user
    <3>1. /\ room' = [room EXCEPT ![id].status = "resolved"]
          /\ matches' = [matches EXCEPT ![id] = Append(matches[id],
               [owner |-> rm.owner, challenger |-> q.user, amount |-> rm.amount,
                ownerChoice |-> rm.choice, challengerChoice |-> q.choice,
                winner |-> w])]
      BY <1>8 DEF JoinCommit
    <3>2. \A s \in RoomIds \ {id} : room'[s] = room[s] /\ matches'[s] = matches[s]
      BY <1>0, <3>1 DEF TypeOK
    <3>3. room'[id] = [rm EXCEPT !.status = "resolved"]
      BY <1>0, <2>1, <3>1 DEF TypeOK
    <3>4. room'[id] # NoRoom /\ room'[id].owner = rm.owner /\ room'[id].amount = rm.amount
      BY <2>1, <3>3 DEF Rooms, NoRoom
    <3>5. PICK m : m.challenger = q.user /\ matches' = [matches EXCEPT ![id] = Append(matches[id], m)]
      BY <3>1
    <3>6. matches'[id] = <<m>>
      BY <1>0, <2>1, <3>5 DEF TypeOK
    <3>7. QED
      BY <3>2, <3>4, <3>5, <3>6
  <2>4. OnlyChanges(h) /\ AmountsAsked'
    BY <1>0, <2>1, <2>2, <2>3 DEF OnlyChanges, AmountsAsked, Idle
  <2>5. ASSUME NEW u \in Users
        PROVE  TakesNothing(u, h) \/ TakesClaim(u, h)
    <3>1. Claim(u)[h] = (IF u = q.user THEN rm.amount ELSE 0) /\ Claim(u)'[h] = 0
      BY <2>1, <2>2 DEF Claim, Idle
    <3>2. coin'[u] = coin[u] + Gain(rm.owner, q.user, w, rm.amount, u)
      BY <1>8, JoinPays
    <3>3. CASE u = q.user
      <4>1. id \notin Taken(u) /\ Taken(u)' = Taken(u) \cup {id}
        BY <2>1, <2>3, <3>3 DEF Taken
      <4>2. Times(u)' = Times(u) + 1
        BY <2>1, <4>1, OneRoomMore
      <4>3. coin'[u] >= coin[u] - rm.amount
        BY <1>0, <2>1, <3>2, <3>3 DEF Gain
      <4>4. QED
        BY <1>0, <2>1, <3>1, <3>3, <4>2, <4>3 DEF TakesClaim
    <3>4. CASE u # q.user
      <4>1. Taken(u)' = Taken(u)
        BY <2>1, <2>3, <3>4 DEF Taken
      <4>2. coin'[u] >= coin[u]
        BY <1>0, <2>1, <3>2, <3>4 DEF Gain
      <4>3. QED
        BY <3>1, <4>1, <4>2 DEF TakesNothing, Times
    <3>5. QED
      BY <3>3, <3>4
  <2>6. QED
    BY <1>1, <2>4, <2>5
<1>9. CASE UNCHANGED vars
  <2>1. UNCHANGED <<coin, room, matches, arenaReq>>
    BY <1>9 DEF vars, ledgerVars, arenaVars
  <2>2. QED
    BY <2>1 DEF OverdraftInv, AmountsAsked, RoomsCover, HandlersCover, Times,
                Taken, Claim
<1>10. QED
  BY <1>3, <1>4, <1>5, <1>6, <1>7, <1>8, <1>9 DEF ArenaNext
LEMMA OverdraftHolds == ArenaSpec => [](ArenaInv /\ OverdraftInv)
BY InvInitially, OverdraftInitially, InvNext, OverdraftNext, PTL DEF ArenaSpec

LEMMA OverdraftImplied == ArenaInv /\ OverdraftInv => OverdraftBounded
<1> SUFFICES ASSUME ArenaInv, OverdraftInv, NEW u \in Users
             PROVE  LET together == Min({Cardinality(ArenaHandlers), Cardinality(RoomIds)})
                    IN coin[u] >= -((together - 1) * Max(Amounts))
  BY DEF OverdraftBounded
<1> DEFINE M == Max(Amounts)
           nh == Cardinality(ArenaHandlers)
           nr == Cardinality(RoomIds)
           n == Times(u)
<1>1. M \in Nat /\ n \in Nat /\ n <= nr /\ nh \in Nat /\ nr \in Nat /\ nr # 0
      /\ coin[u] \in Int
  BY LargestAmount, ClaimIsTyped, ArenaLoadAssumption, FS_CardinalityType, FS_EmptySet,
     Int4IsInt DEF OverdraftInv, ArenaInv, TypeOK
<1>2. coin[u] >= -((nh - 1) * M)
  <2>1. CoversClaims(coin[u], Claim(u), ArenaHandlers, M)
    BY DEF OverdraftInv, HandlersCover
  <2>2. /\ Claim(u) \in [ArenaHandlers -> Int]
        /\ \A h \in ArenaHandlers : 0 <= Claim(u)[h] /\ Claim(u)[h] <= M
    BY ClaimIsTyped DEF OverdraftInv
  <2>3. coin[u] >= -Slack(ArenaHandlers, M)
    <3> HIDE DEF M
    <3>1. QED
      BY <1>1, <2>1, <2>2, ArenaLoadAssumption, ClaimsCoverBalance
  <2>4. QED
    BY <2>3 DEF Slack
<1>3. coin[u] >= -((nr - 1) * M)
  <2>1. RowsCoverClaims(coin[u], Claim(u), ArenaHandlers, n, M)
    BY DEF OverdraftInv, RoomsCover
  <2> HIDE DEF M, nr, n
  <2>2. QED
    BY <1>1, <2>1, RowsCoverBalance
<1>4. Min({nh, nr}) \in {nh, nr}
  <2> HIDE DEF nh, nr
  <2>1. \E x \in {nh, nr} : \A y \in {nh, nr} : x =< y
    BY <1>1
  <2>2. QED
    BY <2>1 DEF Min
<1>5. QED
  BY <1>2, <1>3, <1>4

(* No balance ever lacks more than what all the other requests under way,  *)
(* or all the other rooms, can have taken since the balance was checked,   *)
(* for any number of each.                                                 *)
THEOREM OverdraftCorrect == ArenaSpec => []OverdraftBounded
BY OverdraftHolds, OverdraftImplied, PTL

-----------------------------------------------------------------------------
(* What the rooms did to the balance of u.                                 *)
Effects(u) == [r \in RoomIds |-> Effect(r, u)]

Explained(u) == coin[u] = StartCoin[u] + SumFunction(Effects(u))

(* The edge of the second hand over the first, and who wins by it.         *)
Edge(c1, c2) == (Rank(c2) - Rank(c1)) % 3

LEMMA RankIsSmall ==
  /\ Rank("rock") = 0 /\ Rank("paper") = 1 /\ Rank("scissors") = 2
BY DEF Rank

LEMMA EdgeDecides ==
  ASSUME NEW c1 \in Hands, NEW c2 \in Hands
  PROVE  \/ Edge(c1, c2) = 0 /\ ResolveMatch(c1, c2) = "draw"
         \/ Edge(c1, c2) = 1 /\ ResolveMatch(c1, c2) = "lose"
         \/ Edge(c1, c2) = 2 /\ ResolveMatch(c1, c2) = "win"
<1> DEFINE d == Rank(c2) - Rank(c1)
<1>1. \A n \in -2 .. 2 : n % 3 = IF n < 0 THEN n + 3 ELSE n
  OBVIOUS
<1>2. d \in -2 .. 2
  BY RankIsSmall DEF Hands
<1>3. Edge(c1, c2) = IF d < 0 THEN d + 3 ELSE d
  BY <1>1, <1>2 DEF Edge
<1>4. d = Rank(c2) - Rank(c1)
  OBVIOUS
<1> HIDE DEF d
<1>5. /\ c1 \in {"rock", "paper", "scissors"}
      /\ c2 \in {"rock", "paper", "scissors"}
  BY DEF Hands
<1>6. CASE c1 = c2
  <2>1. d = 0 /\ ResolveMatch(c1, c2) = "draw"
    BY <1>4, <1>5, <1>6, RankIsSmall DEF ResolveMatch
  <2>2. QED
    BY <1>3, <2>1
<1>7. CASE <<c1, c2>> \in {<<"rock", "paper">>, <<"paper", "scissors">>,
                          <<"scissors", "rock">>}
  <2>1. ResolveMatch(c1, c2) = "lose"
    BY <1>7 DEF ResolveMatch
  <2>2. d = 1 \/ d = -2
    BY <1>4, <1>7, RankIsSmall
  <2>3. QED
    BY <1>3, <2>1, <2>2
<1>8. CASE <<c1, c2>> \in {<<"rock", "scissors">>, <<"paper", "rock">>,
                          <<"scissors", "paper">>}
  <2>1. ResolveMatch(c1, c2) = "win"
    BY <1>8 DEF ResolveMatch
  <2>2. d = 2 \/ d = -1
    BY <1>4, <1>8, RankIsSmall
  <2>3. QED
    BY <1>3, <2>1, <2>2
<1>9. QED
  BY <1>5, <1>6, <1>7, <1>8

(* The gain of the challenger, as Effect has it.                           *)
MatchGain(m) ==
  CASE Edge(m.ownerChoice, m.challengerChoice) = 0 -> 0
    [] Edge(m.ownerChoice, m.challengerChoice) = 1 -> m.amount
    [] Edge(m.ownerChoice, m.challengerChoice) = 2 -> -m.amount

LEMMA EffectOfRoom ==
  ASSUME NEW rm, NEW ms, NEW u
  PROVE  /\ rm.status = "open" =>
              EffectOf(rm, ms, u) = IF u = rm.owner THEN -rm.amount ELSE 0
         /\ rm.status = "resolved" =>
              EffectOf(rm, ms, u)
                = IF u = ms[1].challenger THEN MatchGain(ms[1])
                  ELSE IF u = ms[1].owner THEN -MatchGain(ms[1]) ELSE 0
         /\ rm.status \notin {"open", "resolved"} => EffectOf(rm, ms, u) = 0
BY DEF EffectOf, MatchGain, Edge

EffectsTyped ==
  \A u \in Users : \A r \in RoomIds : Effect(r, u) \in Int

LEMMA EffectsAreTyped == ArenaInv => EffectsTyped
<1> SUFFICES ASSUME ArenaInv, NEW u \in Users, NEW r \in RoomIds
             PROVE  Effect(r, u) \in Int
  BY DEF EffectsTyped
<1>1. CASE room[r].status = "open"
  <2>1. room[r].amount \in Stakes
    BY <1>1, RoomIsTyped DEF ArenaInv, NoRoom
  <2>2. QED
    BY <1>1, <2>1, EffectOfRoom, StakeIsPositive DEF Effect
<1>2. CASE room[r].status = "resolved"
  <2> DEFINE m == matches[r][1]
  <2>1. matches[r] \in Seq(MatchRows) /\ Len(matches[r]) = 1
    BY <1>2 DEF ArenaInv, TypeOK, OneMatchPerRoom
  <2>2. m \in MatchRows
    BY <2>1
  <2>3. m.amount \in Int /\ m.ownerChoice \in Hands /\ m.challengerChoice \in Hands
    BY <2>2, StakeIsPositive DEF MatchRows
  <2>4. MatchGain(m) \in Int
    <3> HIDE DEF m
    <3>1. QED
      BY <2>3, EdgeDecides DEF MatchGain
  <2> HIDE DEF m
  <2>5. Effect(r, u) = IF u = m.challenger THEN MatchGain(m)
                       ELSE IF u = m.owner THEN -MatchGain(m) ELSE 0
    BY <1>2, EffectOfRoom DEF Effect, m
  <2>6. QED
    BY <2>4, <2>5
<1>3. CASE room[r].status \notin {"open", "resolved"}
  BY <1>3, EffectOfRoom DEF Effect
<1>4. QED
  BY <1>1, <1>2, <1>3

LEMMA EffectsStayTyped == (ArenaInv => EffectsTyped)'
BY EffectsAreTyped, PTL

(* A balance that moves by what one room did stays explained.              *)
LEMMA StaysExplained ==
  ASSUME ArenaInv, ArenaInv', NEW u \in Users, NEW r \in RoomIds, Explained(u),
         \A s \in RoomIds \ {r} : Effect(s, u)' = Effect(s, u),
         coin'[u] = coin[u] + Effect(r, u)' - Effect(r, u)
  PROVE  Explained(u)'
<1> DEFINE f == Effects(u)
           g == Effects(u)'
<1>1. /\ \A s \in RoomIds : f[s] = Effect(s, u) /\ f[s] \in Int
      /\ \A s \in RoomIds : g[s] = Effect(s, u)' /\ g[s] \in Int
      /\ DOMAIN f = RoomIds /\ DOMAIN g = RoomIds
  BY EffectsAreTyped, EffectsStayTyped DEF Effects, EffectsTyped
<1>2. StartCoin[u] \in Int /\ coin[u] \in Int
  <2>1. StartCoin[u] \in Int
    BY LedgerAssumption
  <2>2. coin[u] \in Int
    BY Int4IsInt DEF ArenaInv, TypeOK
  <2>3. QED
    BY <2>1, <2>2
<1>3. coin[u] = StartCoin[u] + SumFunction(f)
  BY DEF Explained
<1>4. coin'[u] = coin[u] + g[r] - f[r] /\ \A s \in RoomIds \ {r} : g[s] = f[s]
  BY <1>1
<1> HIDE DEF f, g
<1>5. SumFunctionOnSet(f, RoomIds) \in Int
  BY <1>1, ArenaLoadAssumption, SumType
<1>6. SumFunctionOnSet(g, RoomIds) = SumFunctionOnSet(f, RoomIds) + g[r] - f[r]
  BY <1>1, <1>4, ArenaLoadAssumption, SumChange
<1>7. SumFunction(f) = SumFunctionOnSet(f, RoomIds)
      /\ SumFunction(g) = SumFunctionOnSet(g, RoomIds)
  BY <1>1, SumOverDomain
<1>8. coin'[u] = StartCoin[u] + SumFunction(g)
  BY <1>1, <1>2, <1>3, <1>4, <1>5, <1>6, <1>7
<1>9. QED
  BY <1>8 DEF g, Explained

LEMMA ExplainedInitially == ArenaInit => RoomsExplainBalances
<1> SUFFICES ASSUME ArenaInit, NEW u \in Users
             PROVE  coin[u] = StartCoin[u] + SumFunction(Effects(u))
  BY DEF RoomsExplainBalances, Effects
<1>1. Effects(u) = [r \in RoomIds |-> 0]
  <2>1. \A r \in RoomIds : Effect(r, u) = 0
    BY EffectOfRoom DEF ArenaInit, NoRoom, Effect
  <2>2. QED
    BY <2>1 DEF Effects
<1>2. SumFunction(Effects(u)) = 0
  BY <1>1, ArenaLoadAssumption, SumOfZeros
<1>3. coin[u] = StartCoin[u] /\ StartCoin[u] \in Int
  BY LedgerAssumption DEF ArenaInit, LedgerInit
<1>4. QED
  BY <1>2, <1>3

LEMMA ExplainedNext ==
  ArenaInv /\ RoomsExplainBalances /\ [ArenaNext]_vars => RoomsExplainBalances'
<1> SUFFICES ASSUME ArenaInv, RoomsExplainBalances, [ArenaNext]_vars,
                    NEW u \in Users
             PROVE  Explained(u)'
  BY DEF RoomsExplainBalances, Explained, Effects
<1>0. /\ ArenaInv' /\ Explained(u) /\ TypeOK /\ JoinsNameRooms /\ OneMatchPerRoom
      /\ coin[u] \in Int
  BY InvNext, Int4IsInt DEF ArenaInv, TypeOK, RoomsExplainBalances, Explained, Effects
<1>1. ASSUME UNCHANGED <<coin, room, matches>>
      PROVE  Explained(u)'
  <2>1. Effects(u)' = Effects(u)
    BY <1>1 DEF Effects, Effect
  <2>2. QED
    BY <1>0, <1>1, <2>1 DEF Explained
<1>2. ASSUME NEW r \in RoomIds,
             \A s \in RoomIds \ {r} : room'[s] = room[s] /\ matches'[s] = matches[s],
             coin'[u] = coin[u] + Effect(r, u)' - Effect(r, u)
      PROVE  Explained(u)'
  <2>1. \A s \in RoomIds \ {r} : Effect(s, u)' = Effect(s, u)
    BY <1>2 DEF Effect
  <2>2. QED
    BY <1>0, <1>2, <2>1, StaysExplained
<1>3. ASSUME NEW h \in ArenaHandlers, NEW r \in RoomIds, CreateCommit(h, r)
      PROVE  Explained(u)'
  <2> DEFINE q == arenaReq[h]
             row == [status |-> "open", owner |-> q.user, amount |-> q.amount,
                     choice |-> q.choice]
  <2>1. /\ room[r] = NoRoom /\ matches' = matches
        /\ coin' = Debit(coin, q.user, q.amount)
        /\ room' = [room EXCEPT ![r] = row]
    BY <1>3 DEF CreateCommit
  <2>2. q.user \in Users /\ q.amount \in Int
    BY <1>0, <1>3, CreateIsTyped, StakeIsPositive DEF CreateCommit
  <2>3. /\ room'[r].status = "open" /\ room'[r].owner = q.user
        /\ room'[r].amount = q.amount
        /\ \A s \in RoomIds \ {r} : room'[s] = room[s] /\ matches'[s] = matches[s]
    BY <1>0, <2>1 DEF TypeOK
  <2>4. Effect(r, u) = 0
    BY <2>1, EffectOfRoom DEF NoRoom, Effect
  <2>5. Effect(r, u)' = IF u = q.user THEN -q.amount ELSE 0
    BY <2>3, EffectOfRoom DEF Effect
  <2>6. coin'[u] = IF u = q.user THEN coin[u] - q.amount ELSE coin[u]
    BY <1>0, <2>1, <2>2 DEF Debit, TypeOK
  <2>7. QED
    BY <1>0, <1>2, <2>2, <2>3, <2>4, <2>5, <2>6
<1>4. ASSUME NEW h \in ArenaHandlers, JoinCommit(h)
      PROVE  Explained(u)'
  <2> DEFINE q == arenaReq[h]
             rm == room[q.id]
             w == WinnerOf(rm.owner, q.user, ResolveMatch(rm.choice, q.choice))
             m == [owner |-> rm.owner, challenger |-> q.user, amount |-> rm.amount,
                   ownerChoice |-> rm.choice, challengerChoice |-> q.choice,
                   winner |-> w]
  <2>1. /\ q.user \in Users /\ q.id \in RoomIds /\ rm.owner # q.user
        /\ rm.owner \in Users /\ rm.amount \in Int /\ rm.choice \in Hands
        /\ q.choice \in Hands /\ rm.status = "open" /\ matches[q.id] = <<>>
        /\ rm \in Rooms
    BY <1>0, <1>4, JoinFacts, StakeIsPositive
  <2>2. /\ room' = [room EXCEPT ![q.id].status = "resolved"]
        /\ matches' = [matches EXCEPT ![q.id] = Append(matches[q.id], m)]
    BY <1>4 DEF JoinCommit
  <2>3. coin'[u] = coin[u] + Gain(rm.owner, q.user, w, rm.amount, u)
    BY <1>4, JoinPays
  <2>4. PICK r \in RoomIds : r = q.id
    BY <2>1
  <2>5. \A s \in RoomIds \ {r} : room'[s] = room[s] /\ matches'[s] = matches[s]
    BY <1>0, <2>2, <2>4 DEF TypeOK
  <2>6. room'[r].status = "resolved" /\ matches'[r][1] = m
    <3> HIDE DEF m
    <3>1. QED
      BY <1>0, <2>1, <2>2, <2>4 DEF TypeOK, Rooms
  <2>7. Effect(r, u) = IF u = rm.owner THEN -rm.amount ELSE 0
    BY <2>1, <2>4, EffectOfRoom DEF Effect
  <2>8. EffectOf(room'[r], matches'[r], u)
          = IF u = q.user THEN MatchGain(m)
            ELSE IF u = rm.owner THEN -MatchGain(m) ELSE 0
    <3>1. m.owner = rm.owner /\ m.challenger = q.user
      OBVIOUS
    <3> HIDE DEF m
    <3>2. QED
      BY <2>6, <3>1, EffectOfRoom
  <2>9. \/ w = NoUser /\ MatchGain(m) = 0
        \/ w = q.user /\ MatchGain(m) = rm.amount
        \/ w = rm.owner /\ MatchGain(m) = -rm.amount
    <3> DEFINE e == Edge(rm.choice, q.choice)
    <3>1. MatchGain(m) = CASE e = 0 -> 0 [] e = 1 -> rm.amount [] e = 2 -> -rm.amount
      BY DEF MatchGain
    <3> HIDE DEF m, e
    <3>2. \/ e = 0 /\ ResolveMatch(rm.choice, q.choice) = "draw"
          \/ e = 1 /\ ResolveMatch(rm.choice, q.choice) = "lose"
          \/ e = 2 /\ ResolveMatch(rm.choice, q.choice) = "win"
      BY <2>1, EdgeDecides DEF e
    <3>3. QED
      BY <3>1, <3>2 DEF WinnerOf
  <2>10. coin'[u] = coin[u] + Effect(r, u)' - Effect(r, u)
    <3> DEFINE g == MatchGain(m)
    <3>1. NoUser \notin Users
      BY LedgerAssumption
    <3> HIDE DEF w, m
    <3>2. Effect(r, u)' = IF u = q.user THEN g ELSE IF u = rm.owner THEN -g ELSE 0
      BY <2>8 DEF Effect
    <3> HIDE DEF g
    <3>3. QED
      BY <1>0, <2>1, <2>3, <2>7, <2>9, <3>1, <3>2 DEF Gain, g
  <2>11. QED
    BY <1>2, <2>5, <2>10
<1>5. QED
  BY <1>1, <1>3, <1>4
     DEF ArenaNext, CreateRead, JoinReadRoom, JoinReadCoin, ArenaFail, vars,
         ledgerVars, arenaVars

(* Every balance is the opening one plus what each room did to it, for any *)
(* users and rooms: no stake is lost and none is paid out twice.           *)
THEOREM RoomsExplainCorrect == ArenaSpec => []RoomsExplainBalances
BY InvInitially, ExplainedInitially, InvNext, ExplainedNext, PTL DEF ArenaSpec

-----------------------------------------------------------------------------
(* What the rows of all matches charge u too much.                         *)
Overcharges(u) == [r \in RoomIds |-> Overcharge(r, u)]

Booked(u) == coin[u] = StartCoin[u] + booked[u] + SumFunction(Overcharges(u))

OverchargesTyped ==
  \A u \in Users : \A r \in RoomIds : Overcharge(r, u) \in Int

LEMMA OverchargesAreTyped == ArenaInv => OverchargesTyped
<1> SUFFICES ASSUME ArenaInv, NEW u \in Users, NEW r \in RoomIds
             PROVE  Overcharge(r, u) \in Int
  BY DEF OverchargesTyped
<1>1. CASE matches[r] = <<>>
  BY <1>1 DEF Overcharge, OverchargeOf
<1>2. CASE matches[r] # <<>>
  <2>1. matches[r] \in Seq(MatchRows) /\ Len(matches[r]) = 1
    BY <1>2 DEF ArenaInv, TypeOK, OneMatchPerRoom
  <2>2. matches[r][1] \in MatchRows
    BY <2>1
  <2>3. 2 * matches[r][1].amount \in Int
    BY <2>2, StakeIsPositive DEF MatchRows
  <2>4. QED
    BY <2>3 DEF Overcharge, OverchargeOf
<1>3. QED
  BY <1>1, <1>2

LEMMA OverchargesStayTyped == (ArenaInv => OverchargesTyped)'
BY OverchargesAreTyped, PTL

(* Rows that lag behind a balance by what one match charges too much.      *)
LEMMA StaysBooked ==
  ASSUME ArenaInv, ArenaInv', NEW u \in Users, NEW r \in RoomIds, Booked(u),
         \A s \in RoomIds \ {r} : Overcharge(s, u)' = Overcharge(s, u),
         coin'[u] - coin[u]
           = booked'[u] - booked[u] + Overcharge(r, u)' - Overcharge(r, u)
  PROVE  Booked(u)'
<1> DEFINE f == Overcharges(u)
           g == Overcharges(u)'
<1>1. /\ \A s \in RoomIds : f[s] = Overcharge(s, u) /\ f[s] \in Int
      /\ \A s \in RoomIds : g[s] = Overcharge(s, u)' /\ g[s] \in Int
      /\ DOMAIN f = RoomIds /\ DOMAIN g = RoomIds
  BY OverchargesAreTyped, OverchargesStayTyped DEF Overcharges, OverchargesTyped
<1>2. /\ StartCoin[u] \in Int /\ coin[u] \in Int /\ coin'[u] \in Int
      /\ booked[u] \in Int /\ booked'[u] \in Int
  <2>1. StartCoin[u] \in Int
    BY LedgerAssumption
  <2>2. coin[u] \in Int /\ coin'[u] \in Int
    BY Int4IsInt DEF ArenaInv, TypeOK, Int4
  <2>3. booked[u] \in Int /\ booked'[u] \in Int
    BY DEF ArenaInv, TypeOK
  <2>4. QED
    BY <2>1, <2>2, <2>3
<1>3. coin[u] = StartCoin[u] + booked[u] + SumFunction(f)
  BY DEF Booked
<1>4. /\ coin'[u] - coin[u] = booked'[u] - booked[u] + g[r] - f[r]
      /\ \A s \in RoomIds \ {r} : g[s] = f[s]
  BY <1>1
<1> HIDE DEF f, g
<1>5. SumFunctionOnSet(f, RoomIds) \in Int
  BY <1>1, ArenaLoadAssumption, SumType
<1>6. SumFunctionOnSet(g, RoomIds) = SumFunctionOnSet(f, RoomIds) + g[r] - f[r]
  BY <1>1, <1>4, ArenaLoadAssumption, SumChange
<1>7. SumFunction(f) = SumFunctionOnSet(f, RoomIds)
      /\ SumFunction(g) = SumFunctionOnSet(g, RoomIds)
  BY <1>1, SumOverDomain
<1>8. coin'[u] = StartCoin[u] + booked'[u] + SumFunction(g)
  BY <1>1, <1>2, <1>3, <1>4, <1>5, <1>6, <1>7
<1>9. QED
  BY <1>8 DEF g, Booked

LEMMA BookedInitially == ArenaInit => LedgerOverchargesLosers
<1> SUFFICES ASSUME ArenaInit, NEW u \in Users
             PROVE  coin[u] = StartCoin[u] + booked[u] + SumFunction(Overcharges(u))
  BY DEF LedgerOverchargesLosers, Overcharges
<1>1. Overcharges(u) = [r \in RoomIds |-> 0]
  <2>1. \A r \in RoomIds : Overcharge(r, u) = 0
    BY DEF ArenaInit, Overcharge, OverchargeOf
  <2>2. QED
    BY <2>1 DEF Overcharges
<1>2. SumFunction(Overcharges(u)) = 0
  BY <1>1, ArenaLoadAssumption, SumOfZeros
<1>3. coin[u] = StartCoin[u] /\ booked[u] = 0 /\ StartCoin[u] \in Int
  BY LedgerAssumption DEF ArenaInit, LedgerInit
<1>4. QED
  BY <1>2, <1>3

LEMMA BookedNext ==
  ArenaInv /\ LedgerOverchargesLosers /\ [ArenaNext]_vars => LedgerOverchargesLosers'
<1> SUFFICES ASSUME ArenaInv, LedgerOverchargesLosers, [ArenaNext]_vars,
                    NEW u \in Users
             PROVE  Booked(u)'
  BY DEF LedgerOverchargesLosers, Booked, Overcharges
<1>0. /\ ArenaInv' /\ Booked(u) /\ TypeOK /\ JoinsNameRooms /\ OneMatchPerRoom
      /\ coin[u] \in Int /\ booked[u] \in Int
  BY InvNext, Int4IsInt
     DEF ArenaInv, TypeOK, LedgerOverchargesLosers, Booked, Overcharges
<1>1. ASSUME UNCHANGED <<ledgerVars, matches>>
      PROVE  Booked(u)'
  <2>1. Overcharges(u)' = Overcharges(u)
    BY <1>1 DEF Overcharges, Overcharge
  <2>2. QED
    BY <1>0, <1>1, <2>1 DEF Booked, ledgerVars
<1>2. ASSUME NEW h \in ArenaHandlers, NEW r \in RoomIds, CreateCommit(h, r)
      PROVE  Booked(u)'
  <2> DEFINE q == arenaReq[h]
  <2>1. /\ matches' = matches
        /\ coin' = Debit(coin, q.user, q.amount)
        /\ booked' = Row(booked, q.user, NoUser, q.amount)
    BY <1>2 DEF CreateCommit
  <2>2. q.user \in Users /\ q.amount \in Int /\ u # NoUser
    BY <1>0, <1>2, CreateIsTyped, StakeIsPositive, LedgerAssumption DEF CreateCommit
  <2>3. Overcharge(r, u) \in Int
    BY OverchargesAreTyped DEF OverchargesTyped
  <2>4. \A s \in RoomIds : Overcharge(s, u)' = Overcharge(s, u)
    BY <2>1 DEF Overcharge
  <2>5. coin'[u] = coin[u] - (IF u = q.user THEN q.amount ELSE 0)
    BY <1>0, <2>1, <2>2 DEF Debit, TypeOK
  <2>6. booked'[u] = booked[u] - (IF u = q.user THEN q.amount ELSE 0)
    BY <1>0, <2>1, <2>2 DEF Row
  <2> HIDE DEF q
  <2>7. coin'[u] - coin[u]
          = booked'[u] - booked[u] + Overcharge(r, u)' - Overcharge(r, u)
    BY <1>0, <2>2, <2>3, <2>4, <2>5, <2>6
  <2>8. QED
    BY <1>0, <2>4, <2>7, StaysBooked
<1>3. ASSUME NEW h \in ArenaHandlers, JoinCommit(h)
      PROVE  Booked(u)'
  <2> DEFINE q == arenaReq[h]
             rm == room[q.id]
             w == WinnerOf(rm.owner, q.user, ResolveMatch(rm.choice, q.choice))
             m == [owner |-> rm.owner, challenger |-> q.user, amount |-> rm.amount,
                   ownerChoice |-> rm.choice, challengerChoice |-> q.choice,
                   winner |-> w]
             x == Charge(rm.owner, q.user, w, rm.amount, u)
  <2>1. q.id \in RoomIds /\ matches[q.id] = <<>>
    BY <1>0, <1>3, JoinFacts
  <2>2. matches' = [matches EXCEPT ![q.id] = Append(matches[q.id], m)]
    BY <1>3 DEF JoinCommit
  <2>3. coin'[u] - coin[u] = booked'[u] - booked[u] + x
    BY <1>3, JoinMoney
  <2>4. /\ m.owner = rm.owner /\ m.challenger = q.user
        /\ m.amount = rm.amount /\ m.winner = w
    OBVIOUS
  <2>5. x = Charge(m.owner, m.challenger, m.winner, m.amount, u)
    OBVIOUS
  <2> HIDE DEF q, m, x
  <2>6. PICK r \in RoomIds : r = q.id
    BY <2>1
  <2>7. /\ matches'[r] = <<m>>
        /\ \A s \in RoomIds \ {r} : matches'[s] = matches[s]
    BY <1>0, <2>1, <2>2, <2>6 DEF TypeOK
  <2>8. /\ Overcharge(r, u) = 0
        /\ \A s \in RoomIds \ {r} : Overcharge(s, u)' = Overcharge(s, u)
    BY <2>1, <2>6, <2>7 DEF Overcharge, OverchargeOf
  <2>9. OverchargeOf(<<m>>, u) = x
    <3>1. <<m>> # <<>> /\ <<m>>[1] = m
      OBVIOUS
    <3>2. QED
      BY <2>5, <3>1 DEF OverchargeOf, Charge
  <2>10. Overcharge(r, u)' = x
    BY <2>7, <2>9 DEF Overcharge
  <2>11. Overcharge(r, u)' \in Int
    BY <1>0, OverchargesStayTyped DEF OverchargesTyped
  <2>12. coin'[u] - coin[u]
           = booked'[u] - booked[u] + Overcharge(r, u)' - Overcharge(r, u)
    <3>1. booked'[u] \in Int
      BY <1>0 DEF ArenaInv, TypeOK
    <3>2. QED
      BY <1>0, <2>3, <2>8, <2>10, <2>11, <3>1
  <2>13. QED
    BY <1>0, <2>8, <2>12, StaysBooked
<1>4. QED
  BY <1>1, <1>2, <1>3
     DEF ArenaNext, CreateRead, JoinReadRoom, JoinReadCoin, ArenaFail, vars,
         ledgerVars, arenaVars

(* The rows of stakes, payouts and refunds explain every balance but for   *)
(* the pots that lost matches charge to their losers once more, for any    *)
(* users, rooms and interleavings.                                         *)
THEOREM LedgerCorrect == ArenaSpec => []LedgerOverchargesLosers
BY InvInitially, BookedInitially, InvNext, BookedNext, PTL DEF ArenaSpec

-----------------------------------------------------------------------------
(* The arena as an escrow.                                                 *)
Pots == [r \in RoomIds |-> Pot(r)]

LEMMA EscrowSumIsSum == ASSUME NEW f PROVE Escrowed!SumFunction(f) = SumFunction(f)
BY DEF Escrowed!SumFunction, Escrowed!SumFunctionOnSet, Escrowed!FoldFunctionOnSet,
       Escrowed!MapThenFoldSet, SumFunction, SumFunctionOnSet, FoldFunctionOnSet,
       MapThenFoldSet

LEMMA TotalIsCoinsAndPots == Escrowed!Total = SumFunction(coin) + SumFunction(Pots)
BY EscrowSumIsSum DEF Escrowed!Total, Pots

LEMMA TotalStays == (Escrowed!Total = SumFunction(coin) + SumFunction(Pots))'
BY TotalIsCoinsAndPots, PTL

LEMMA PotsAreTyped == ArenaInv => Pots \in [RoomIds -> Nat]
<1> SUFFICES ASSUME ArenaInv, NEW r \in RoomIds PROVE Pot(r) \in Nat
  BY DEF Pots
<1>1. CASE room[r].status = "open"
  <2>1. room[r].amount \in Stakes
    BY <1>1, RoomIsTyped DEF ArenaInv, NoRoom
  <2>2. room[r].amount \in Int /\ room[r].amount > 0
    BY <2>1, StakeIsPositive
  <2>3. QED
    BY <1>1, <2>2 DEF Pot
<1>2. CASE room[r].status # "open"
  BY <1>2 DEF Pot
<1>3. QED
  BY <1>1, <1>2

LEMMA PotsStayTyped == (ArenaInv => Pots \in [RoomIds -> Nat])'
BY PotsAreTyped, PTL

LEMMA SumPayout ==
  ASSUME coin \in [Users -> Int], NEW o \in Users, NEW c \in Users,
         NEW a \in Int, NEW w \in {o, c, NoUser}
  PROVE  /\ Payout(o, c, w, a) \in [Users -> Int] /\ SumFunction(coin) \in Int
         /\ SumFunction(Payout(o, c, w, a)) = SumFunction(coin) + a
<1> DEFINE b == Debit(coin, c, a)
           d == Credit(b, o, a)
<1>1. /\ b \in [Users -> Int] /\ SumFunction(coin) \in Int
      /\ SumFunction(b) = SumFunction(coin) - a
  BY SumDebit
<1>2. Payout(o, c, w, a)
        = IF w = NoUser THEN Credit(d, c, a) ELSE Credit(b, w, 2 * a)
  BY DEF Payout
<1> HIDE DEF b
<1>3. d \in [Users -> Int] /\ SumFunction(d) = SumFunction(b) + a
  BY <1>1, SumCredit
<1> HIDE DEF d
<1>4. CASE w = NoUser
  <2>1. /\ Credit(d, c, a) \in [Users -> Int]
        /\ SumFunction(Credit(d, c, a)) = SumFunction(d) + a
    BY <1>3, SumCredit
  <2>2. QED
    BY <1>1, <1>2, <1>3, <1>4, <2>1
<1>5. CASE w # NoUser
  <2>1. w \in Users /\ 2 * a \in Int
    BY <1>5
  <2>2. /\ Credit(b, w, 2 * a) \in [Users -> Int]
        /\ SumFunction(Credit(b, w, 2 * a)) = SumFunction(b) + 2 * a
    BY <1>1, <2>1, SumCredit
  <2>3. QED
    BY <1>1, <1>2, <1>5, <2>2
<1>6. QED
  BY <1>4, <1>5

(* A transaction about one room that moves into its pot what it takes from *)
(* the balances is an exchange of the escrow.                              *)
LEMMA RoomExchanges ==
  ASSUME ArenaInv, ArenaInv', NEW r \in RoomIds,
         room[r].status # "resolved",
         \A s \in RoomIds \ {r} : room'[s] = room[s],
         SumFunction(coin') = SumFunction(coin) + Pot(r) - Pot(r)'
  PROVE  Escrowed!Exchange(r)
<1> DEFINE p == Pots
           q == Pots'
           c == [s \in RoomIds |-> room[s].status = "resolved"]
           d == [s \in RoomIds |-> room'[s].status = "resolved"]
<1>1. p \in [RoomIds -> Nat] /\ p[r] = Pot(r)
  BY PotsAreTyped DEF Pots
<1>2. q \in [RoomIds -> Nat] /\ q[r] = Pot(r)'
  BY PotsStayTyped DEF Pots
<1>3. \A s \in RoomIds \ {r} : q[s] = p[s] /\ d[s] = c[s]
  BY DEF Pots, Pot
<1>4. q = [p EXCEPT ![r] = q[r]] /\ d = [c EXCEPT ![r] = d[r]]
  <2>1. DOMAIN c = RoomIds /\ DOMAIN d = RoomIds
    OBVIOUS
  <2> HIDE DEF p, q
  <2>2. q = [p EXCEPT ![r] = q[r]]
    BY <1>1, <1>2, <1>3
  <2>3. d = [c EXCEPT ![r] = d[r]]
    BY <1>3
  <2>4. QED
    BY <2>2, <2>3
<1>5. Escrowed!Total' = Escrowed!Total
  <2> HIDE DEF p, q
  <2>1. SumFunction(coin) \in Int
    BY UsersAssumption, SumIsInt, Int4IsInt DEF ArenaInv, TypeOK
  <2>2. /\ SumFunction(p) \in Int /\ SumFunction(q) = SumFunction(p) + q[r] - p[r]
        /\ q[r] \in Int /\ p[r] \in Int
    BY <1>1, <1>2, <1>4, ArenaLoadAssumption, SumMoves
  <2>3. SumFunction(coin') + SumFunction(q) = SumFunction(coin) + SumFunction(p)
    BY <1>1, <1>2, <2>1, <2>2
  <2>4. QED
    BY <2>3, TotalIsCoinsAndPots, TotalStays DEF p, q
<1>6. d[r] => q[r] = 0
  BY DEF Pots, Pot
<1>7. ~c[r] /\ q[r] >= 0
  <2>1. ~c[r]
    OBVIOUS
  <2> HIDE DEF q
  <2>2. q[r] \in Nat
    BY <1>2
  <2>3. QED
    BY <2>1, <2>2
<1> HIDE DEF c, d
<1>8. QED
  BY <1>4, <1>5, <1>6, <1>7 DEF Escrowed!Exchange, Pots, c, d

LEMMA EscrowInitially == ArenaInit => Escrowed!EscrowInit
<1> SUFFICES ASSUME ArenaInit PROVE Escrowed!EscrowInit
  OBVIOUS
<1>1. \A r \in RoomIds : room[r].status = "none"
  BY DEF ArenaInit, NoRoom
<1>2. QED
  BY <1>1 DEF ArenaInit, LedgerInit, Escrowed!EscrowInit, Pot

LEMMA EscrowStep ==
  ArenaInv /\ [ArenaNext]_vars
    => [\E r \in RoomIds : Escrowed!Exchange(r)]_(Escrowed!escrowVars)
<1> SUFFICES ASSUME ArenaInv, [ArenaNext]_vars
             PROVE  \/ \E r \in RoomIds : Escrowed!Exchange(r)
                    \/ UNCHANGED (Escrowed!escrowVars)
  OBVIOUS
<1>0. /\ ArenaInv' /\ TypeOK /\ JoinsNameRooms /\ OneMatchPerRoom
      /\ coin \in [Users -> Int]
  BY InvNext, Int4IsInt DEF ArenaInv, TypeOK
<1>1. ASSUME UNCHANGED <<coin, room>>
      PROVE  UNCHANGED (Escrowed!escrowVars)
  BY <1>1 DEF Escrowed!escrowVars, Pot
<1>2. ASSUME NEW h \in ArenaHandlers, NEW r \in RoomIds, CreateCommit(h, r)
      PROVE  Escrowed!Exchange(r)
  <2> DEFINE q == arenaReq[h]
             row == [status |-> "open", owner |-> q.user, amount |-> q.amount,
                     choice |-> q.choice]
  <2>1. /\ room[r] = NoRoom /\ coin' = Debit(coin, q.user, q.amount)
        /\ room' = [room EXCEPT ![r] = row]
    BY <1>2 DEF CreateCommit
  <2>2. q.user \in Users /\ q.amount \in Int
    BY <1>0, <1>2, CreateIsTyped, StakeIsPositive DEF CreateCommit
  <2>3. /\ room'[r].status = "open" /\ room'[r].amount = q.amount
        /\ \A s \in RoomIds \ {r} : room'[s] = room[s]
    BY <1>0, <2>1 DEF TypeOK
  <2>4. room[r].status # "resolved" /\ Pot(r) = 0 /\ Pot(r)' = q.amount
    BY <2>1, <2>3 DEF NoRoom, Pot
  <2>5. SumFunction(coin') = SumFunction(coin) - q.amount /\ SumFunction(coin) \in Int
    BY <1>0, <2>1, <2>2, SumDebit
  <2>6. SumFunction(coin') = SumFunction(coin) + Pot(r) - Pot(r)'
    BY <2>2, <2>4, <2>5
  <2>7. QED
    BY <1>0, <2>3, <2>4, <2>6, RoomExchanges
<1>3. ASSUME NEW h \in ArenaHandlers, JoinCommit(h)
      PROVE  \E r \in RoomIds : Escrowed!Exchange(r)
  <2> DEFINE q == arenaReq[h]
             rm == room[q.id]
             w == WinnerOf(rm.owner, q.user, ResolveMatch(rm.choice, q.choice))
  <2>1. /\ q.user \in Users /\ q.id \in RoomIds /\ rm.owner \in Users
        /\ rm.amount \in Int /\ rm.status = "open" /\ rm \in Rooms
    BY <1>0, <1>3, JoinFacts, StakeIsPositive
  <2>2. /\ room' = [room EXCEPT ![q.id].status = "resolved"]
        /\ coin' = Payout(rm.owner, q.user, w, rm.amount)
    BY <1>3 DEF JoinCommit
  <2>3. PICK r \in RoomIds : r = q.id
    BY <2>1
  <2>4. /\ room'[r].status = "resolved"
        /\ \A s \in RoomIds \ {r} : room'[s] = room[s]
    BY <1>0, <2>1, <2>2, <2>3 DEF TypeOK, Rooms
  <2>5. room[r].status # "resolved" /\ Pot(r) = rm.amount /\ Pot(r)' = 0
    BY <2>1, <2>3, <2>4 DEF Pot
  <2>6. w \in {rm.owner, q.user, NoUser}
    BY WinnerIsPlayer
  <2> HIDE DEF w
  <2>7. SumFunction(coin') = SumFunction(coin) + rm.amount /\ SumFunction(coin) \in Int
    BY <1>0, <2>1, <2>2, <2>6, SumPayout
  <2>8. SumFunction(coin') = SumFunction(coin) + Pot(r) - Pot(r)'
    BY <2>1, <2>5, <2>7
  <2>9. QED
    BY <1>0, <2>4, <2>5, <2>8, RoomExchanges
<1>4. QED
  BY <1>1, <1>2, <1>3
     DEF ArenaNext, CreateRead, JoinReadRoom, JoinReadCoin, ArenaFail, vars,
         ledgerVars, arenaVars

(* The arena keeps the escrow promise, for any users and rooms: coins go   *)
(* from the balances into open rooms and back, none appears or is lost,    *)
(* and a resolved room never moves one again.                              *)
THEOREM EscrowCorrect == ArenaSpec => ImplementsEscrow
<1>1. ArenaInit => Escrowed!EscrowInit
  BY EscrowInitially
<1>2. ArenaInv /\ [ArenaNext]_vars
        => [\E r \in RoomIds : Escrowed!Exchange(r)]_(Escrowed!escrowVars)
  BY EscrowStep
<1>3. QED
  BY <1>1, <1>2, InvHolds, PTL DEF ArenaSpec, ImplementsEscrow, Escrowed!EscrowSpec
=============================================================================
