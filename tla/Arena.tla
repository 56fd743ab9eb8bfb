-------------------------------- MODULE Arena --------------------------------
(***************************************************************************)
(* ArenaService: an owner opens a room with a stake and a hidden choice,   *)
(* one challenger joins and the match is resolved in the same transaction. *)
(*                                                                         *)
(* Both operations are one transaction that reads first and writes later.  *)
(* The reads take no lock, so joiners of one room run side by side; what   *)
(* keeps a room to one match is the unique index on arena_matches.roomId,  *)
(* which makes the transaction of the later joiner fail as a whole.        *)
(***************************************************************************)
EXTENDS Ledger, Sequences, Functions, FiniteSetsExt

CONSTANTS
  RoomIds,        \* the rows that can be created
  ArenaHandlers,  \* the arena requests in flight at once
  Amounts         \* the amounts asked for, valid or not

ASSUME ArenaAssumption == Amounts \subseteq Int

(* Sums over the rooms, and bounds on what requests under way can take     *)
(* together, need there to be finitely many of them and at least one, and  *)
(* a largest amount that is no debt.                                       *)
ASSUME ArenaLoadAssumption ==
  /\ IsFiniteSet(RoomIds) /\ RoomIds # {}
  /\ IsFiniteSet(ArenaHandlers) /\ ArenaHandlers # {}
  /\ IsFiniteSet(Amounts) /\ Amounts \cap Nat # {}

VARIABLES
  room,       \* room[r]: the row, or NoRoom before it is created
  matches,    \* matches[r]: the match rows of room r
  arenaReq    \* arenaReq[h]: how far the request of h has come

arenaVars == <<room, matches, arenaReq>>
vars == <<ledgerVars, arenaVars>>

Hands == {"rock", "paper", "scissors"}
NoRoom == [status |-> "none"]
Idle == [op |-> "idle"]

ValidStake(a) == a >= 5 /\ a % 5 = 0
AnyBalance(u, a) == TRUE
CanStake(u, a) == coin[u] >= a
Stakes == {a \in 1 .. MaxInt : a >= 5 /\ a % 5 = 0}

Rooms == [status : {"open", "resolved"}, owner : Users, amount : Stakes,
          choice : Hands]
MatchRows == [owner : Users, challenger : Users, amount : Stakes,
              ownerChoice : Hands, challengerChoice : Hands,
              winner : Users \cup {NoUser}]

(* joinCoin: the room is read and the coin is not; join: both are.         *)
ArenaRequests ==
  [op : {"create"}, user : Users, amount : Stakes, choice : Hands]
  \cup [op : {"joinCoin", "join"}, user : Users, id : RoomIds, choice : Hands]

ArenaInit ==
  /\ LedgerInit
  /\ room = [r \in RoomIds |-> NoRoom]
  /\ matches = [r \in RoomIds |-> <<>>]
  /\ arenaReq = [h \in ArenaHandlers |-> Idle]

-----------------------------------------------------------------------------
(* resolveMatch, seen from its first argument.                             *)
SwappedMatch(c1, c2) ==
  IF c1 = c2 THEN "draw"
  ELSE IF <<c1, c2>> \in {<<"scissors", "rock">>, <<"rock", "paper">>,
                          <<"paper", "scissors">>} THEN "win"
  ELSE "lose"
ResolveMatch(c1, c2) ==
  IF c1 = c2 THEN "draw"
  ELSE IF <<c1, c2>> \in {<<"rock", "scissors">>, <<"paper", "rock">>,
                          <<"scissors", "paper">>} THEN "win"
  ELSE "lose"

WinnerOf(owner, challenger, result) ==
  CASE result = "win" -> owner
    [] result = "lose" -> challenger
    [] result = "draw" -> NoUser

(* The coins of a match: the challenger's stake is taken, then the winner  *)
(* gets both stakes, or each side gets its own back.                       *)
StakeOnlyPayout(owner, challenger, winner, a) ==
  LET staked == Debit(coin, challenger, a) IN
  IF winner = NoUser THEN Credit(Credit(staked, owner, a), challenger, a)
  ELSE Credit(staked, winner, a)
Payout(owner, challenger, winner, a) ==
  LET staked == Debit(coin, challenger, a) IN
  IF winner = NoUser THEN Credit(Credit(staked, owner, a), challenger, a)
  ELSE Credit(staked, winner, 2 * a)

(* The rows of a match: ARENA_ESCROW of the challenger, then two           *)
(* ARENA_REFUNDs, or the ARENA row of both stakes from loser to winner.    *)
LoserOf(owner, challenger, winner) ==
  IF winner = owner THEN challenger ELSE owner

UnloggedEscrow(owner, challenger, winner, a) ==
  IF winner = NoUser THEN Row(Row(booked, NoUser, owner, a), NoUser, challenger, a)
  ELSE Row(booked, LoserOf(owner, challenger, winner), winner, 2 * a)
MatchLog(owner, challenger, winner, a) ==
  LET escrow == Row(booked, challenger, NoUser, a) IN
  IF winner = NoUser THEN Row(Row(escrow, NoUser, owner, a), NoUser, challenger, a)
  ELSE Row(escrow, LoserOf(owner, challenger, winner), winner, 2 * a)

(* The unique index on arena_matches.roomId.                               *)
NoIndex(r) == TRUE
RoomIdFree(r) == matches[r] = <<>>

Done(h) == arenaReq' = [arenaReq EXCEPT ![h] = Idle]

-----------------------------------------------------------------------------
CreateRead(h, u, a, c) ==
  /\ arenaReq[h] = Idle
  /\ ValidStake(a)
  /\ CanStake(u, a)
  /\ arenaReq' = [arenaReq EXCEPT ![h] =
       [op |-> "create", user |-> u, amount |-> a, choice |-> c]]
  /\ UNCHANGED <<ledgerVars, room, matches>>

CreateCommit(h, r) ==
  LET q == arenaReq[h] IN
  /\ q.op = "create"
  /\ room[r] = NoRoom
  /\ coin' = Debit(coin, q.user, q.amount)
  /\ Fits(coin')
  /\ booked' = Row(booked, q.user, NoUser, q.amount)
  /\ room' = [room EXCEPT ![r] = [status |-> "open", owner |-> q.user,
                                  amount |-> q.amount, choice |-> q.choice]]
  /\ Done(h)
  /\ UNCHANGED matches

JoinReadRoom(h, u, r, c) ==
  /\ arenaReq[h] = Idle
  /\ room[r].status = "open"
  /\ room[r].owner # u
  /\ arenaReq' = [arenaReq EXCEPT ![h] =
       [op |-> "joinCoin", user |-> u, id |-> r, choice |-> c]]
  /\ UNCHANGED <<ledgerVars, room, matches>>

JoinReadCoin(h) ==
  LET q == arenaReq[h] IN
  /\ q.op = "joinCoin"
  /\ CanStake(q.user, room[q.id].amount)
  /\ arenaReq' = [arenaReq EXCEPT ![h].op = "join"]
  /\ UNCHANGED <<ledgerVars, room, matches>>

JoinCommit(h) ==
  LET q == arenaReq[h]
      rm == room[q.id]
      winner == WinnerOf(rm.owner, q.user, ResolveMatch(rm.choice, q.choice))
  IN
  /\ q.op = "join"
  /\ RoomIdFree(q.id)
  /\ coin' = Payout(rm.owner, q.user, winner, rm.amount)
  /\ Fits(coin')
  /\ booked' = MatchLog(rm.owner, q.user, winner, rm.amount)
  /\ matches' = [matches EXCEPT ![q.id] = Append(@,
       [owner |-> rm.owner, challenger |-> q.user, amount |-> rm.amount,
        ownerChoice |-> rm.choice, challengerChoice |-> q.choice,
        winner |-> winner])]
  /\ room' = [room EXCEPT ![q.id].status = "resolved"]
  /\ Done(h)

(* The balance turned out too low, the unique index refused the match, an  *)
(* Int overflowed, a deadlock victim, the time limit, a lost connection, a *)
(* crash: the transaction rolls back.                                      *)
ArenaFail(h) ==
  /\ arenaReq[h] # Idle
  /\ Done(h)
  /\ UNCHANGED <<ledgerVars, room, matches>>

ArenaNext ==
  \E h \in ArenaHandlers :
    \/ \E u \in Users, c \in Hands :
         \/ \E a \in Amounts : CreateRead(h, u, a, c)
         \/ \E r \in RoomIds : JoinReadRoom(h, u, r, c)
    \/ \E r \in RoomIds : CreateCommit(h, r)
    \/ JoinReadCoin(h)
    \/ JoinCommit(h)
    \/ ArenaFail(h)

ArenaSpec == ArenaInit /\ [][ArenaNext]_vars

-----------------------------------------------------------------------------
(* Type invariant: only amounts in steps of 5 are staked.                  *)
TypeOK ==
  /\ coin \in [Users -> Int4]
  /\ booked \in [Users -> Int]
  /\ room \in [RoomIds -> Rooms \cup {NoRoom}]
  /\ matches \in [RoomIds -> Seq(MatchRows)]
  /\ arenaReq \in [ArenaHandlers -> ArenaRequests \cup {Idle}]

(* However many joiners read the room while it was open, a room is         *)
(* resolved exactly when it has one match, the match is the owner's stake  *)
(* against one other user, and an open room has none.                      *)
OneMatchPerRoom ==
  \A r \in RoomIds :
    IF room[r].status = "resolved"
    THEN /\ Len(matches[r]) = 1
         /\ matches[r][1].owner = room[r].owner
         /\ matches[r][1].challenger # room[r].owner
         /\ matches[r][1].amount = room[r].amount
         /\ matches[r][1].ownerChoice = room[r].choice
    ELSE matches[r] = <<>>

(* What the rows of matches ms charge u too much: both stakes of the match *)
(* if u has lost it.                                                       *)
OverchargeOf(ms, u) ==
  IF ms # <<>> /\ ms[1].winner # NoUser
       /\ u = LoserOf(ms[1].owner, ms[1].challenger, ms[1].winner)
  THEN 2 * ms[1].amount ELSE 0

Overcharge(r, u) == OverchargeOf(matches[r], u)

(* The rows explain every coin but the pots of lost matches.  The escrow   *)
(* rows of the stakes book the loss and the ARENA row, with the loser as   *)
(* its sender, charges the whole pot to the loser again; nothing else is   *)
(* missing, twice or left over when the transactions of owners and joiners *)
(* interleave or roll back.                                                *)
LedgerOverchargesLosers ==
  \A u \in Users :
    coin[u] = StartCoin[u] + booked[u]
                + SumFunction([r \in RoomIds |-> Overcharge(r, u)])

Rank(c) == CASE c = "rock" -> 0 [] c = "paper" -> 1 [] c = "scissors" -> 2

(* What a room with row rm and matches ms did to the balance of u once all *)
(* is said and done: an open room holds its owner's stake; a match moves   *)
(* one stake from the loser to the winner, where paper beats rock,         *)
(* scissors paper and rock scissors.                                       *)
EffectOf(rm, ms, u) ==
  CASE rm.status = "open" -> IF u = rm.owner THEN -rm.amount ELSE 0
    [] rm.status = "resolved" ->
         LET m == ms[1]
             edge == (Rank(m.challengerChoice) - Rank(m.ownerChoice)) % 3
             gain == CASE edge = 0 -> 0 [] edge = 1 -> m.amount [] edge = 2 -> -m.amount
         IN IF u = m.challenger THEN gain ELSE IF u = m.owner THEN -gain ELSE 0
    [] OTHER -> 0

Effect(r, u) == EffectOf(room[r], matches[r], u)

(* Every balance is the opening one plus what each room did to it: stakes  *)
(* are neither lost nor paid out twice, however the transactions of        *)
(* owners and joiners interleave or roll back.                             *)
RoomsExplainBalances ==
  \A u \in Users :
    coin[u] = StartCoin[u] + SumFunction([r \in RoomIds |-> Effect(r, u)])

(* createRoom and joinRoom read the coin without a lock: stakes on several *)
(* rooms may pass their checks together, but each was covered alone, so    *)
(* only the others under way can take a balance below zero.                *)
OverdraftBounded ==
  LET together == Min({Cardinality(ArenaHandlers), Cardinality(RoomIds)}) IN
  \A u \in Users : coin[u] >= -((together - 1) * Max(Amounts))

(* A resolved room and its match are final.                                *)
ResolvedIsFinal ==
  [][\A r \in RoomIds : room[r].status = "resolved" =>
       room'[r] = room[r] /\ matches'[r] = matches[r]]_vars

-----------------------------------------------------------------------------
(* The arena as an escrow: an open room holds its owner's stake.           *)
Pot(r) == IF room[r].status = "open" THEN room[r].amount ELSE 0

Escrowed == INSTANCE Escrow WITH
  pot <- [r \in RoomIds |-> Pot(r)],
  closed <- [r \in RoomIds |-> room[r].status = "resolved"]

(* Every transaction keeps the escrow promise: no coin appears or is lost  *)
(* between the balances and the open rooms, and a resolved room pays once. *)
ImplementsEscrow == Escrowed!EscrowSpec
=============================================================================
