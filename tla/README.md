# p23market, verified

A verification development for the p23market backend: TLA+ models of the
services that move coins, TLC configurations that check them on small
instances, and TLAPS proofs of the invariants for every instance.

The backend is a NestJS application over PostgreSQL (Prisma). Users hold
`coin` and owe the bank `bankDebt`; they transfer, borrow and repay, send each
other invoices, and stake coins in games. What is hard about it is not any
single operation but that every operation reads first and writes later, mostly
without a lock, while other requests, timers and rollbacks run in between.

## 1. The system

| Component | State | Operations that change it | What makes it correct |
|---|---|---|---|
| transactions (`src/transactions`) | `users.coin`, `users.bankDebt`, `transactions` rows | `transfer`, `borrow`, `repay` | rows explain balances and debts; no overdraft; no negative debt; net worth only moves |
| settlements (`src/settlements`) | `settlements`, `settlement_snapshots` | `run` | a settlement is one consistent state of the market |
| invoices (`src/invoices`) | `invoices` | `createInvoice`, `payInvoice`, `transferInvoiceDebt`, `cancelInvoice` | paid exactly once, by the payer of the moment; closed is final |
| arena (`src/arena`) | `arena_rooms`, `arena_matches` | `createRoom`, `joinRoom` | one match per room; stakes paid out once |
| team-rps-vote (`src/team-rps-vote`) | `mini_game_*` rows, timers in memory | `createRoom`, `joinRoom`, `leaveRoom`, `chooseTeam`, `startRoom`, `submitVote`, the round timer with `resolveRound`, `refundRoom` | stakes settled once; rounds resolved once and in order; teams balanced while playing; a round ends |
| majority-die (`src/majority-die`) | `mini_game_*`, `majority_die_*` rows, timers in memory | `createRoom`, `joinRoom`, `leaveRoom`, `startRoom`, `submitChoice`, the stage timer with `resolveStage` and `splitPot`, `refundRoom` | whoever plays has staked; the minority survives and shares the pot; stages resolved once and in order; a stage ends |
| multiplayer | none | dispatch to the two mini games by mode | - |
| gateway (`team-rps-vote.gateway.ts`) | sockets, channels | one handler per message | - |
| auth, users | `users` (accounts) | `register`, `login`, `logout` | usernames are unique |
| dashboard and the list queries | none | none | - |

Interaction: every component that moves coins does it by relative updates of
`users.coin` and by inserting `transactions` rows, in a Prisma interactive
transaction at PostgreSQL's default isolation level, READ COMMITTED (the refund
of majority-die is the exception: it uses no transaction). The components share
nothing else. The mini games also call back into themselves by `setTimeout` (a
round or stage ends) and send broadcasts, which change no state, but whose
queries can throw.

The behaviours that are hard: checks on values that are stale by the time they
are acted on (inside as well as outside a transaction, since reads take no
lock); conditional against unconditional updates; unique indexes and foreign
keys as the last line of defence; rollback after some of the writes; timers that
race with the messages they are about; failures that trigger refunds; a refund
that stops half way; restarts that forget timers. `PROJECT.json` lists them one
by one as hazards, with their lines.

## 2. How the code is turned into actions

* **A transaction is a chain of reads and one commit step.** Under READ
  COMMITTED each read sees what is committed when it runs, and writes take row
  locks held until the commit. Other requests can run between two reads, and
  between the last read and the first write; nothing they could do between the
  writes can be observed by, or change, a conflicting transaction, so the
  writes form one step with the commit. In it relative updates (`increment`)
  apply to the committed value, a conditional `updateMany` looks at the
  committed row again, unique indexes and foreign keys are checked.
* **A check outside the transaction** (`transfer`, `repay`, `chooseTeam`,
  `leaveRoom`, `joinRoom` of majority-die) is a step of its own in exactly the
  same way.
* **Writes outside a transaction** (`refundRoom` of majority-die) are one step
  each.
* **A refused request** answers with an error and changes nothing: its guard
  is false and there is no step. If it had already read something, the `...Fail`
  action returns its handler to idle.
* **Rollback**: `BankFail`, `SettleFail`, `InvoiceFail`, `ArenaFail`,
  `TeamFail`, `DieFail` abort a request in flight at any time: an overflow, a
  deadlock victim, a refused index, Prisma's time limit, a lost connection. They
  change nothing else.
* **A read of a room with its participants and rounds** is one step, although
  Prisma may send several statements for it.
* **Handlers** (`Handlers`, `InvHandlers`, ...) are the requests in flight at
  once; the number bounds the concurrency, not the number of requests.
* **History variables**: `booked` and `owed` replay the committed
  `transactions` rows, `receipts` keeps the rows of an invoice, `matches` the
  match rows of a room, `closings` counts payouts and refunds of a
  team-rps-vote room, `returned` adds up what a majority-die room has paid back.
  No guard of a code action reads them, except where the database does (the
  unique index on `arena_matches.roomId`).
* **Data**: amounts are small integers; `MaxInt` stands for the limit of an
  `Int` column, and an update past it aborts its transaction (`Fits`). Notes,
  names, timestamps and broadcasts are left out.

## 3. Modules

| Module | Models | Notes |
|---|---|---|
| `Ledger` | the money all components share | operators `Credit`, `Debit`, `Move`, `Row`; extended by every component |
| `Transactions` | transactions.service.ts | `TransferCheck`/`TransferCommit`, `Borrow`, `RepayCheck`/`RepayCommit` |
| `Settlements` | settlements.service.ts, composed with `Transactions` | the snapshot is read outside the transaction that writes it |
| `InvoiceContract` | abstract: a bill is issued, then settled (money moves in the same instant) or voided | no requests, no payer |
| `Invoices` | invoices.service.ts | refines `InvoiceContract` |
| `Escrow` | abstract: a room's pot, fed by and paid to players, empty and final once closed | shared by the games |
| `Arena` | arena.service.ts | refines `Escrow` |
| `Market` | `Transactions`, `Invoices` and `Arena` over one table of users | a balance one component checked is one the others move |
| `TeamRpsVote` | team-rps-vote.service.ts, one room | refines `Escrow` with one message at a time; a round may end any way |
| `RpsVote` | the votes of one round: auto-picks, tallies, tie-breaks, winner | fills in what `TeamRpsVote` leaves open |
| `MajorityDie` | majority-die.service.ts, one room | refines `Escrow` with one message at a time and a lobby that can be told |
| `MC...` | small instances for TLC: opening balances, symmetry | |
| `SumTheorems` | lemmas on sums over finite sets and on claims against a balance | used by all proofs about money |
| `TransactionsProofs` (with `Settlements`), `InvoicesProofs`, `ArenaProofs`, `MarketProofs`, `TeamRpsVoteProofs`, `RpsVoteProofs`, `MajorityDieProofs` | theorems | section 5 |

Beside some definitions stands a second one that is used by nothing
(`OffByOneBalance` before `SufficientBalance`, ...): the form a plausible bug
would give it. `PROJECT.json` lists them under mutants; with the mutant in
place of the definition, the property named there must fail.

### Transactions and Settlements
`coin` and `bankDebt` are the two columns. `bankReq[h]` is a request that has
passed its checks and not yet opened its transaction. `Borrow` reads nothing
and is one step. `WaitingClientsSpec` restricts the environment, not the code:
no user has two transfers or repayments in flight. `Settlements` adds
`usersRead`, what `run` has read, and `settlement`, what it last wrote.

### Invoices
`invoice[i]` is the row. `payInvoice` is `PayRead`, `PayReadCoin`, then
`PayCommit` (the claim matched) or `PayConflict` (it did not).
`transferInvoiceDebt` is `TransferDebtRead` and `TransferDebtCommit`, whose
update looks at nothing again; `cancelInvoice` is `CancelRead` and
`CancelCommit` or `CancelConflict`. `amount` and `createdByUserId` never
change, so it does not matter that a payment uses the values it has read.

### Arena
`CreateRead`/`CreateCommit`, `JoinReadRoom`/`JoinReadCoin`/`JoinCommit`. The
commit of a join takes the stake, pays the winner (or both sides of a draw),
inserts the match, which the unique index allows once per room, and resolves
the room whatever its status is by then. The `ARENA` row names the loser as
sender of the whole pot (`LoserOf`) although the loser's stake was booked when
it was escrowed, and `booked` replays the row as it is: it runs below the coins
of a player by one pot for each match the player has lost (`Overcharge`).
Stakes, gains and draws are booked exactly.

### Market
`INSTANCE`s of `Invoices` and `Arena` beside `Transactions`, sharing `coin` and
`booked`. A step of the market is a step of one component that leaves the
requests and rows of the others alone. `OneRequestPerUser` extends the
restriction of `WaitingClientsSpec` across the components.

### TeamRpsVote and RpsVote
`team[u]` is the participant row of `u` and its team, `votes[n]` the
submission rows of round `n`, `round`/`roundOpen`/`expired` the latest round,
`timer` the entry of the in-memory map, `resolver` the run of `resolveRound`
under way. One variable is enough for it: `OneResolution` shows that a timer is
never set while a resolution runs. `ResolveThrows` is any exception in its
transaction, followed by the refund in the catch; `Crash` also stands for the
unhandled rejection of a refund that fails. A vote is checked when it is read
and only the unique index is looked at when it is written, so a vote may come
late. The host's leave is three steps before anything is refunded: `LeaveRead`
checks the room, `HostClearTimer` is the first statement of `refundRoom`, which
runs after that read has been awaited, and `HostRefundRead` opens its
transaction. A start that commits after the first step has its timer cleared by
the second (`Refunding` is a leave that has come so far). `RpsVote` lets every
player of a round vote or not, and chooses the hash values (`Hashes` covers
every remainder by 2 and by 3) when they are looked at: each seed is used once
in a round.

### MajorityDie
`member[u]` is the participant row of `u` with its `alive` column. Nothing is
staked before `StartCommit`, which charges the participants its transaction has
read and opens the first stage. `choice` holds the submission rows of the
latest stage and `recorded` says who has one in an earlier stage, which is all
a foreign key asks. A submission is checked when it is read and only its unique
index when it is written; the deadline of the stage is never looked at.
`resolveStage` is `TimerFires`, `ResolveRead` (everything is read at once), and
`FinishCommit` or `NextStageCommit`. The picks it makes up for silent players
come from a hash nobody controls: `AutoPicks` is every possible one. The pot is
split by `SplitPot`; who gets the odd coins depends on another hash and is any
choice. After a finish the lobby is told inside the try: `AnnounceDone`, or
`AnnounceFails`, whose catch refunds the room as `ResolveThrows` does.
`refundRoom` is `RefundRead`, then `RefundCoin` and `RefundRow` for one player
after the other, then `RefundEnd`. `StartAnnounceFails` is the same lobby query
throwing between the start and the timer. `Stranded` names the state such a
failure or a restart can leave: the room plays and nothing in memory will ever
resolve its stage.

## 4. What is checked

Passing runs (TLC, exhaustive):

| Run | Instance | Shows |
|---|---|---|
| `Bank` | 2 users, 2 handlers, amounts 1-2, `MaxInt` 2, with a settlement | types; rows explain coins and debts; a step moves net worth between two users or not at all; an overdraft is at most what the other requests in flight may take; the nets of a settlement add up to the opening money |
| `MarketWaiting` | 2 users, 2 handlers per component, 1 invoice, 1 room | with clients that wait no balance and no debt is ever negative, and no coin is lost between the components |
| `InvoicesRaces` | 3 users, 2 invoices, 3 handlers | paid exactly once; the payer of the moment is charged; overdrafts are bounded; implements `InvoiceContract` (closed is final) |
| `ArenaRaces` | 3 users, 2 rooms, 2 handlers, valid and invalid stakes | one match per room; rooms explain the balances, and rows do but for the pots of lost matches; overdrafts are bounded; implements `Escrow` (resolved is final) |
| `TeamRpsRaces` | 4 users, 2 handlers, 2 seats, 3 rounds | stake, rows, score and rounds stay consistent; one resolution at a time; a room is over-full by one at most; only a restart, or the failing refund of a host whose leave crossed the start, strands a game |
| `TeamRpsSerial` | 4 users, 1 handler, 4 rounds, fairness | balanced teams while playing; every round ends; implements `Escrow` (settled once) |
| `MajorityDieRaces` | 3 users, 2 handlers, 3 stages, failing lobby queries | types; the stake explains every coin; the ledger misses one refund at most; one resolution at a time; a game only goes forward; only a restart or a failing lobby query strands it |
| `MajorityDieSerial` | 5 users, 1 handler, 2 stages, fairness | whoever plays has staked; the minority survives; two players never finish; every stage ends; implements `Escrow` |
| `RpsVoteRound` | 4 players, all hash remainders | plurality, tie-breaks and the winner of a round |

Runs that exhibit a disagreement with what the code itself says it refuses (TLC
finds the property violated):

| Run | Disagreement |
|---|---|
| `StaleNoOverdraft` | two requests of one user pass `Insufficient balance` together |
| `LateHandover` | a closed invoice changes its payer despite `ensureInvoicePending` |
| `DoubleRefund` | a room is refunded twice despite the guard of `refundRoom` |

The same kinds of race bite in more places, which have no run of their own. Two
repayments make a debt negative (`repay`); two payments of one user overdraw the
account (`payInvoice`), as do two joins (`arena`). In team-rps-vote teams change
in a room that already plays (TLC finds `PlaysBalanced` violated with two
handlers), two joiners of the last place both get in, and a host whose leave
crosses the start stops the timer of a game that nothing ends if the refund
fails. In majority-die a joiner who read the room as waiting enters after the
start and plays for a pot it has not paid into, and a leaver who has paid in is
removed (`PotMatchesPlayers` is violated with two handlers); a host whose leave
crosses the start cancels a room whose stakes are never given back; a lobby query
that fails after a payout refunds the room on top of it (no property here forbids
that: `StakeExplainsCoins` counts what is paid out, and `ImplementsEscrow` is
checked without that step); and two players, the minimum to start with, can never
finish a game (`DuelUndecided`).

Two more disagreements are not races. The README of the repository calls the
system a ledger for tracking, among others, the matches of the arena; but
whoever adds up the rows of a match takes three stakes from a loser who has lost
one, because the escrow row and the `ARENA` row both charge the stake
(`LedgerOverchargesLosers` says exactly how far rows and coins are apart). The
comment "Locking the room for update to prevent race conditions (queuing)" in
`ArenaService.joinRoom` is not what `findUnique` does: the read takes no lock,
and `ArenaRaces` holds because of the unique index on `arena_matches.roomId`.

**Bounds.** Two handlers are enough for every race listed as a hazard: each is
between two actors (in the mini games the timer and the resolver are two more;
`InvoicesRaces` takes a third for a payment, a cancellation and a handover at
once). Amounts of one and two units against an opening balance of one reach the
boundary from both sides; `MaxInt` is small so that overflow happens too. Two
invoices or rooms show effects across rows. `MaxRounds` = 3 reaches `WIN_TARGET`
with a round to spare; draws could otherwise go on for ever, as ties can in
majority-die (`MaxStages`). At the bound a mini game's resolution can only
throw, which the code's catch turns into a refund: that is why `EveryRoundEnds`
and `EveryStageEnds` speak of rounds and stages below the bound. `MaxPlayers` is
10 in team-rps-vote; `TeamRpsRaces` takes 2 for its four users, so that a room is
full and two joiners race for the last place, `TeamRpsSerial` takes 4 for games
of two against two. In majority-die a game ends with two winners;
`MaxWinners` is 1 in the instances, so that three players (the fewest a
minority needs) do not always finish in the first stage. How a pot is split
between several winners is checked apart, for every number of winners and pots
up to 25 (`SplitIsExact`, an `ASSUME` of `MCMajorityDie`: no coin is lost and
nobody gets more than one coin extra). `EntryStake` is a constant, as it is a
constant of the room. Pools of invoices, rooms, rounds and stages are finite and
a room ends, so these systems really stop: `CHECK_DEADLOCK FALSE` there. The
bank runs check deadlock.

**Symmetry** is over users, handlers and rows, which the specifications treat
alike (the host of a mini game is excluded). The two runs with liveness,
`TeamRpsSerial` and `MajorityDieSerial`, use none.

**Environment assumptions.** `MarketWaiting` assumes clients that wait for an
answer before they ask for anything else; `TeamRpsSerial` and
`MajorityDieSerial` have one message in flight, and the latter, under
`QuietLobbySpec`, a lobby query that never throws. They state what holds once
the races above are excluded. Timers, failing transactions and restarts remain.

**Fairness.** `FairSpec` and `QuietLobbySpec` assume weak fairness of what the
server does by itself: setting the timer after a start (`Scheduling`), the end of
the time to vote (`InputEnds`), the timer (`TimerFires`) and the resolution under
way (`ResolverNext`). This is what Node's event loop gives: a timer that is due
runs, and a promise that is awaited settles, by value or by exception, unless the
process stops (`Crash`, under no fairness). Nothing is assumed of clients: no
message ever has to be sent, and one that has been read need never commit.
A game that a restart has stranded is excused by name in `EveryRoundEnds` and
`EveryStageEnds`; what else leads there is shown by the races:
`OnlyFailuresStrand` (in team-rps-vote, a failing refund of a host whose leave
crossed the start) and `OnlyRestartsStrand` (in majority-die, a failing lobby
query). With one message in flight, as in the runs of the liveness properties,
no leave crosses a start.

## 5. What is proved

Every invariant and every action property of the passing runs, and every
refinement, is also a theorem that TLAPS checks for all values of the constants
that satisfy the named assumptions. These are, and the runs evaluate them:

| Assumption | Says | Why |
|---|---|---|
| `LedgerAssumption`, `TransactionsAssumption`, `InvoicesAssumption`, `ArenaAssumption` | amounts within the column, `NoUser` not a user | the schema and the DTOs |
| `UsersAssumption`, `RoomsAssumption` | finitely many users, and rooms in `Market` | a sum over a table |
| `BankLoadAssumption`, `InvoicesLoadAssumption`, `ArenaLoadAssumption` | finitely many requests in flight (and rows), at least one, and a largest amount | a bound on what they take together |
| `TeamRpsVoteAssumption`, `MajorityDieAssumption` | a host among the users, a positive stake, at least one round or stage, seat and winner; finitely many messages in flight in team-rps-vote | constants of the code; seats are counted |
| `RpsVoteAssumption` | finitely many players, hashes are naturals | votes are counted |

* `SumTheorems`: what `SumFunction` and `SumFunctionOnSet` compute for every
  finite set. They are folds, and the library's induction theorems cannot be
  used, but finite induction is had from the well-founded strict subset order
  (`MinimalSubset`): the sum of a set is its first element plus the sum of the
  rest, and two functions that differ at one argument have sums that differ by
  as much (`SumChange`, `SumKept`, `SumCredit`, `SumDebit`, `SumMove`). The second
  half is about checks that have gone stale. `CoversClaims(c, f, S, M)`: balance
  `c` less all claims `f[x]` of the requests `x \in S` is at least minus
  `Card(S) - 1` largest claims; it survives a new claim that `c` covers alone,
  and a claim that is taken or dropped (`ClaimsStayCovered`).
  `RowsCoverClaims` is the same bound counted by rows (`RowsStayCovering`).
* `TransactionsProofs`: `TypeCorrect`, `LedgerCorrect`, `NetWorthConserved`;
  `WaitingNoOverdraft` and `WaitingNoOverRepay`, which need a stronger
  invariant: every request under way is still covered by the balance and debt
  of its user, which only `OneAtATime` keeps true while other requests commit.
  `OverdraftCorrect` does without it: `ClaimsCovered` is the invariant above for
  what all requests of a user may take. `SettlementsOnlyRead` shows that a
  settlement adds nothing to the behaviours of the bank, and `SettlementCorrect`
  that its nets add up: `NetsAddUp` says it of the table, of what `run` has
  read, and of what it has written.
* `InvoicesProofs`: `TypeCorrect`, `PaidOnceCorrect`, `ClosedCorrect`,
  `ChargeCorrect`, `ContractCorrect`. Inductive invariant `InvoicesInv`: the
  type invariant, `RequestsNameRows` (a request under way names a row that
  exists, without which an update would not keep the type) and
  `PaidExactlyOnce`. `EachRowSteps` classifies what a step can do to one row;
  the action properties and the refinement rest on it or on the same facts.
  `ContractCorrect` is the refinement of `InvoiceContract`: a claimed payment
  maps to `Settle`, a claimed cancellation to `Void`, everything else stutters.
  `OverdraftCorrect` bounds an overdraft by requests and by invoices at once:
  `HandlersCover` counts the claims under way, `InvoicesCover` the invoices paid
  by now, since an invoice is paid once whatever the number of requests.
* `ArenaProofs`: `TypeCorrect`, `OneMatchCorrect`, `LedgerCorrect`,
  `ResolvedCorrect`. Inductive invariant `ArenaInv`: `TypeOK`, `OneMatchPerRoom`
  and `JoinsNameRooms` (a join under way found its room, owned by someone else).
  `JoinFacts` is the heart: the unique index and `OneMatchPerRoom` imply that
  the room is still open when a join commits, although nothing reads it again.
  `LedgerCorrect` computes what the rows leave unexplained: a match pays and
  books its two players alike but for the pot the loser is charged
  (`PayoutIsLogged`), and a commit changes that sum by one match (`StaysBooked`).
  `OverdraftCorrect` is the argument of invoices, with rooms for invoices.
  `RoomsExplainCorrect` computes each balance from the hands that were played:
  a commit changes the effect of one room on its two players, by what
  `resolveMatch` pays (`EdgeDecides` is the table of hands against the cycle).
  `EscrowCorrect` is the refinement of `Escrow`: each commit exchanges between
  the coins and the pot of one room that is not closed.
* `MarketProofs`: `MarketNoOverdraft` and `MarketNoOverRepay`, the composition
  of the three. Inductive invariant `MarketInv`: shapes, solvency,
  `OneRequestPerUser`, and `Covered`: what any request of any component has
  checked still covers what it will take. `Takes(w, a)` is the interface between
  the components: every step of any of them takes coins from one user `w` at
  most, whose request has just checked them, and `OneRequestPerUser` says that
  `w` has no other request whose check the step could invalidate. Each component
  contributes one lemma per way to end a request; the others only see `Takes`.
  `MarketMoneyConserved` holds under any interleaving: coins and pots less debts
  add up to the opening coins. Of the rooms it needs only that a resolved one has
  its match (`ResolvedHasMatch`), or a second join would pay a pot that is gone.
* `TeamRpsVoteProofs`: all properties of `TeamRpsRaces` - `StakeCorrect`,
  `LedgerCorrect`, `ScoreCorrect`, `OneResolutionCorrect`, `RoundsCorrect`,
  `StrandCorrect`, `SeatsCorrect` - and `TypeCorrect`. `MoneyInv` (rows explain
  coins) is inductive alone. The rest needs `TeamInv`: shapes; the stake is what
  the participants have staked; `ControlInv` (the start that opened the first
  round, the timer and a resolution exclude each other, and each is about the
  open round, which is why the unexpected second start is stopped by the unique
  round number); the score never runs ahead of the counted rounds; and the votes
  a resolution has read are still there. `StrandCorrect` also needs that no
  message but the failing refund itself, or one that ends the room, gives up a
  refund under way (`RefundsGoOn`). `SeatsInv` adds the counting: members
  and the seats reserved by joins under way are at most `MaxPlayers` plus one
  less than the messages in flight. `BalanceCorrect` and `EscrowCorrect` have the
  hypothesis `OneMessage` (no two messages in flight), as the run
  `TeamRpsSerial` has; timers, failing resolutions and restarts remain.
  `SerialInv` is their invariant: what the message under way has checked is
  still true (`Promised`), the participants a resolution has read are the
  participants there are, and a room has been settled exactly when it has ended.
* `RpsVoteProofs`: `TypeCorrect`, `PluralityCorrect` and `WinnerCorrect`, for any
  number of players and any hashes. `TeamChoice` is the lemma about
  `resolveTeamChoice`: by the hands that reach the maximum, which list of
  finalists it builds, and that the hash points into it. `WinnerOfHands` compares
  the table of `resolveRps` with the cycle of the hands.
* `MajorityDieProofs`: every property of `MajorityDieRaces` - `TypeCorrect`,
  `LagCorrect`, `OneResolutionCorrect`, `ForwardCorrect`, `StrandCorrect`,
  `StakeCorrect` - and, for any number of messages in flight, `MinorityCorrect`
  and `DuelCorrect`. `GameInv` is `ShapeInv`, `ControlInv` as above and `DeadInv`
  (whoever has died has a submission row, so the foreign key keeps the
  participant, and has played, so a second start is too late to revive anyone).
  `LagInv` explains a coin without its row: either the refund under way is about
  to write it, or a restart stopped that refund and nothing will ever pay again
  (`Over`). `VotersInv` is what the minority rule needs under races: no
  submission of a dead player is on its way to an open stage, and everyone a
  resolution has read with a submission it has read alive, and is still alive.
  `StakeCorrect` rests on `SplitTotal`: whatever the odd coins do, the payouts of
  `SplitPot` sum to the pot. `PotCorrect` and `EscrowCorrect` are about
  `QuietLobbySpec` under `OneMessage`, as the run `MajorityDieSerial` is. In
  `QuietInv` the stake of a playing room is one per participant, nothing of it
  has been returned before the game is resolved, and a refund under way still
  holds exactly the stakes of those it has left to pay.

**What the hypotheses exclude.** `OneMessage` is not a formality: with two
messages in flight `PlaysBalanced`, `PotMatchesPlayers` and both refinements of
`Escrow` by the mini games fail (section 4), and with a lobby query that throws
the one of majority-die fails too.

**Only model-checked.** `EveryRoundEnds` and `EveryStageEnds`: liveness and
ENABLED are out of the prover's reach. That the shares of `SplitPot` differ by one
coin at most (`SplitIsExact`) is evaluated for pots up to 25; their sum is
proved. The violations are TLC's.

The type invariants of `Invoices`, `Arena`, `TeamRpsVote` and `RpsVote` and the
finality of closed invoices and resolved rooms are proved rather than run: the
finality is also part of the refinements the runs check.

## 6. Not modelled

* **Row locks** inside a transaction: deadlocks appear only as aborts.
* **Accounts**: `register` looks a username up and inserts it; one unique index
  decides, and a model would restate that index. Tokens and password hashes are
  stateless libraries. Requests of users that do not exist are refused by
  foreign keys or look-ups and change nothing.
* **Sockets**: connections, channels, the verification of a socket's token and
  every broadcast (a joiner's socket enters the channel of the room only after
  the broadcasts of its join, and misses them). No state of the server depends
  on them. The queries behind
  the broadcasts are modelled where they can throw inside a handler of a room
  that moves coins.
* **multiplayer**: dispatch by a mode that never changes; it keeps no state.
* **Queries and read-only views** (`findAll`, `findMyInvoices`, room lists,
  dashboard) and validation of request bodies by the framework.
* **Cancelling an arena room**: no operation does it, though `RoomStatus` has
  `CANCELLED`; a room nobody joins keeps its owner's stake.
* **What the mini games share**: rooms of both modes live in one table. Each
  module models one room; rooms share only users' coins, which the games take
  from with checks of the same kind as the arena's.

## 7. Plan

Done: the core (transactions, invoices, arena, settlements, team-rps-vote), the
composition over one ledger, majority-die, timers and restarts with liveness,
and proofs of every safety property the runs check, the refinements included.

What would add most next:

1. `RowLocks`: statement-level transactions of transfer, pay and join with row
   locks, showing which pairs can deadlock and that an abort leaves no trace.
2. The mini games in `Market`: rooms of both modes beside the bank, for
   `NoOverdraft` under waiting clients; `Takes` already is the interface the
   proof would use.
3. An overdraft bound for `Market` as a whole: the claims of all components
   against one balance, by `CoversClaims` over the union of their requests.
4. Several rooms of one game, for the timers map keyed by room.
