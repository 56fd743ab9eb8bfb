----------------------------- MODULE MajorityDie -----------------------------
(***************************************************************************)
(* MajorityDieService: one room from its creation to its end.  In each     *)
(* stage the players pick left or right and the side with more players     *)
(* dies; a game ends when few enough survive, who split the pot.           *)
(*                                                                         *)
(* Nothing is staked before the start, which charges every participant at  *)
(* once.  Requests are chains of reads and one commit, as in TeamRpsVote;  *)
(* an in-memory timer resolves each stage.  Unlike there, a resolution     *)
(* claims nothing, and refundRoom is not a transaction: it credits the     *)
(* participants one after the other, whatever the status of the room, and  *)
(* writes each row after its credit.                                       *)
(***************************************************************************)
EXTENDS Ledger, FiniteSets, Functions

CONSTANTS
  Host,         \* the user who creates the room
  EntryStake,   \* room.entryStake, what every player stakes
  MaxPlayers,   \* room.maxPlayers, 20 unless the host asks for another
  MaxWinners,   \* how many survivors end the game, 2 in the code
  DieHandlers,  \* the messages in flight at once
  MaxStages     \* bound on the stages played: ties can go on forever

ASSUME MajorityDieAssumption ==
  /\ Host \in Users
  /\ EntryStake \in 1 .. MaxInt
  /\ MaxPlayers \in Nat /\ MaxWinners \in Nat \ {0} /\ MaxStages \in Nat \ {0}

VARIABLES
  status,     \* room.status, "none" before the room is created
  member,     \* member[u]: "out" for no participant row, else its alive column
  stake,      \* room.stake
  stage,      \* room.currentRound, the number of the latest stage row
  stageOpen,  \* whether that row is OPEN
  choice,     \* choice[u]: the submission row of u in that stage
  recorded,   \* who has a submission row in an earlier stage
  timer,      \* the stage the in-memory timer is set for, 0 for none
  resolver,   \* the run of resolveStage under way, if any
  dieReq,     \* dieReq[h]: how far the message of h has come
  returned    \* history: the coins the room has paid out or refunded

roomVars == <<status, member, stake>>
stageVars == <<stage, stageOpen, choice, recorded>>
serverVars == <<timer, resolver, dieReq>>
vars == <<ledgerVars, roomVars, stageVars, serverVars, returned>>

Options == {"left", "right"}
Choices == [Users -> Options \cup {"none"}]
Memberships == [Users -> {"out", "alive", "dead"}]

Idle == [op |-> "idle"]
Members == {u \in Users : member[u] # "out"}
AliveIn(m) == {u \in Users : m[u] = "alive"}
Submitted == {u \in Users : choice[u] # "none"}
NoChoice == [u \in Users |-> "none"]

DieRequests ==
  [op : {"join", "leave"}, user : Users]
  \cup [op : {"cancel", "schedule"}]
  \cup [op : {"start"}, paying : SUBSET Users]
  \cup [op : {"submit"}, user : Users, stage : 1 .. MaxStages, pick : Options]

Resolvers ==
  [op : {"read", "schedule"}, stage : 1 .. MaxStages]
  \cup [op : {"commit"}, stage : 1 .. MaxStages,
        member : Memberships, choice : Choices]
  \cup [op : {"announce", "refund"}]
  \cup [op : {"refundCoin"}, todo : SUBSET Users]
  \cup [op : {"refundRow"}, todo : SUBSET Users, user : Users]

MajorityDieInit ==
  /\ LedgerInit
  /\ status = "none" /\ member = [u \in Users |-> "out"] /\ stake = 0
  /\ stage = 0 /\ stageOpen = FALSE /\ choice = NoChoice /\ recorded = {}
  /\ timer = 0 /\ resolver = Idle
  /\ dieReq = [h \in DieHandlers |-> Idle]
  /\ returned = 0

Begin(h, r) == dieReq[h] = Idle /\ dieReq' = [dieReq EXCEPT ![h] = r]
Done(h) == dieReq' = [dieReq EXCEPT ![h] = Idle]

(* Every u gets a[u], with one row each.                                   *)
PayEach(a) ==
  /\ coin' = [u \in Users |-> coin[u] + a[u]]
  /\ booked' = [u \in Users |-> booked[u] + a[u]]
  /\ Fits(coin')

-----------------------------------------------------------------------------
(* createRoom: one write, which neither reads nor takes a coin.            *)
CreateRoom ==
  /\ status = "none"
  /\ status' = "waiting"
  /\ member' = [member EXCEPT ![Host] = "alive"]
  /\ UNCHANGED <<ledgerVars, stake, stageVars, serverVars, returned>>

(* joinRoom: the checks and the row, which only its unique index guards.   *)
AnyRoom == status # "none"
Joinable == status = "waiting"

JoinRead(h, u) ==
  /\ Joinable
  /\ u \notin Members
  /\ Cardinality(Members) < MaxPlayers
  /\ Begin(h, [op |-> "join", user |-> u])
  /\ UNCHANGED <<ledgerVars, roomVars, stageVars, timer, resolver, returned>>

JoinCommit(h) ==
  LET u == dieReq[h].user IN
  /\ dieReq[h].op = "join"
  /\ u \notin Members
  /\ member' = [member EXCEPT ![u] = "alive"]
  /\ Done(h)
  /\ UNCHANGED <<ledgerVars, status, stake, stageVars, timer, resolver, returned>>

(* leaveRoom: the checks.  The host goes on to cancel the room.            *)
LeaveRead(h, u) ==
  /\ status = "waiting"
  /\ u \in Members
  /\ Begin(h, IF u = Host THEN [op |-> "cancel"]
              ELSE [op |-> "leave", user |-> u])
  /\ UNCHANGED <<ledgerVars, roomVars, stageVars, timer, resolver, returned>>

(* An update by id: what has become of the room is not looked at again.    *)
CancelCommit(h) ==
  /\ dieReq[h].op = "cancel"
  /\ status' = "cancelled"
  /\ Done(h)
  /\ UNCHANGED <<ledgerVars, member, stake, stageVars, timer, resolver, returned>>

(* The participant row must exist and no submission row may refer to it.   *)
NoForeignKey(u) == u \in Members
Deletable(u) == u \in Members \ (recorded \cup Submitted)

LeaveCommit(h) ==
  LET u == dieReq[h].user IN
  /\ dieReq[h].op = "leave"
  /\ Deletable(u)
  /\ member' = [member EXCEPT ![u] = "out"]
  /\ Done(h)
  /\ UNCHANGED <<ledgerVars, status, stake, stageVars, timer, resolver, returned>>

(* startRoom: one transaction charges the participants it has read and     *)
(* opens the first stage; every participant of the moment is alive.        *)
StartRead(h) ==
  /\ status = "waiting"
  /\ Cardinality(Members) >= 2
  /\ \A u \in Members : coin[u] >= EntryStake
  /\ Begin(h, [op |-> "start", paying |-> Members])
  /\ UNCHANGED <<ledgerVars, roomVars, stageVars, timer, resolver, returned>>

(* The unique index on (roomId, stageNumber).                              *)
NoStageIndex(n) == TRUE
StageFree(n) == stage < n

OpenStage(n) ==
  /\ StageFree(n)
  /\ stage' = n
  /\ stageOpen' = TRUE
  /\ choice' = NoChoice

StartCommit(h) ==
  LET paying == dieReq[h].paying IN
  /\ dieReq[h].op = "start"
  /\ PayEach([u \in Users |-> IF u \in paying THEN -EntryStake ELSE 0])
  /\ status' = "playing"
  /\ stake' = EntryStake * Cardinality(paying)
  /\ member' = [u \in Users |-> IF u \in Members THEN "alive" ELSE "out"]
  /\ OpenStage(1)
  /\ dieReq' = [dieReq EXCEPT ![h] = [op |-> "schedule"]]
  /\ UNCHANGED <<recorded, timer, resolver, returned>>

StartSchedule(h) ==
  /\ dieReq[h].op = "schedule"
  /\ timer' = 1
  /\ Done(h)
  /\ UNCHANGED <<ledgerVars, roomVars, stageVars, resolver, returned>>

(* The query of emitLobbyUpdate throws: the timer is never set.            *)
StartAnnounceFails(h) ==
  /\ dieReq[h].op = "schedule"
  /\ Done(h)
  /\ UNCHANGED <<ledgerVars, roomVars, stageVars, timer, resolver, returned>>

(* submitChoice: one transaction.  Only the unique index on the stage and  *)
(* the participant is looked at when the row goes in; the deadline of the  *)
(* stage never is.                                                         *)
SubmitRead(h, u, side) ==
  /\ status = "playing"
  /\ member[u] = "alive"
  /\ stageOpen
  /\ u \notin Submitted
  /\ Begin(h, [op |-> "submit", user |-> u, stage |-> stage, pick |-> side])
  /\ UNCHANGED <<ledgerVars, roomVars, stageVars, timer, resolver, returned>>

SubmitCommit(h) ==
  LET r == dieReq[h] IN
  /\ r.op = "submit"
  /\ r.user \in Members
  /\ IF r.stage = stage
     THEN /\ r.user \notin Submitted
          /\ choice' = [choice EXCEPT ![r.user] = r.pick]
          /\ UNCHANGED recorded
     ELSE /\ recorded' = recorded \cup {r.user}
          /\ UNCHANGED choice
  /\ Done(h)
  /\ UNCHANGED <<ledgerVars, roomVars, stage, stageOpen, timer, resolver, returned>>

(* The transaction of h fails: a row is gone, a unique index refuses, a    *)
(* balance overflows, the time limit, a lost connection.                   *)
DieFail(h) ==
  /\ dieReq[h].op \notin {"idle", "schedule"}
  /\ Done(h)
  /\ UNCHANGED <<ledgerVars, roomVars, stageVars, timer, resolver, returned>>

-----------------------------------------------------------------------------
(* setTimeout fires: resolveStage starts.                                  *)
DueWhenAllIn == timer # 0 /\ AliveIn(member) \subseteq Submitted
TimerDue == timer # 0

TimerFires ==
  /\ TimerDue
  /\ timer' = 0
  /\ resolver' = [op |-> "read", stage |-> timer]
  /\ UNCHANGED <<ledgerVars, roomVars, stageVars, dieReq, returned>>

ResolveRead ==
  /\ resolver.op = "read"
  /\ stageOpen /\ stage = resolver.stage
  /\ status = "playing"
  /\ resolver' = [op |-> "commit", stage |-> resolver.stage,
                  member |-> member, choice |-> choice]
  /\ UNCHANGED <<ledgerVars, roomVars, stageVars, timer, dieReq, returned>>

(* The stage is not open, or the room is no longer playing.                *)
ResolveNothing ==
  /\ resolver.op = "read"
  /\ ~(stageOpen /\ stage = resolver.stage /\ status = "playing")
  /\ resolver' = Idle
  /\ UNCHANGED <<ledgerVars, roomVars, stageVars, timer, dieReq, returned>>

(* A submission is made up for every player read alive and without one: it *)
(* must not have come in since, and the participant must still be there.   *)
Missing == {u \in AliveIn(resolver.member) : resolver.choice[u] = "none"}
AutoPicked == Missing \subseteq Members \ Submitted

On(ch, side) == {u \in Users : ch[u] = side}

(* The sides that can win: the one with fewer players, if both have some.  *)
MajorityWins(ch) ==
  {s \in Options : \E t \in Options \ {s} :
     Cardinality(On(ch, s)) > Cardinality(On(ch, t)) /\ On(ch, t) # {}}
LeftOnTie(ch) ==
  {s \in Options : \E t \in Options \ {s} :
     /\ \/ Cardinality(On(ch, s)) < Cardinality(On(ch, t))
        \/ s = "left" /\ Cardinality(On(ch, s)) = Cardinality(On(ch, t))
     /\ On(ch, s) # {}}
Minority(ch) ==
  {s \in Options : \E t \in Options \ {s} :
     /\ Cardinality(On(ch, s)) < Cardinality(On(ch, t))
     /\ On(ch, s) # {}}

(* TIE_REPLAY and SINGLE_SIDE_REPLAY: everyone survives.                   *)
Survivors(ch) ==
  IF Minority(ch) = {} THEN AliveIn(resolver.member)
  ELSE UNION {On(ch, s) : s \in Minority(ch)}

ShouldFinish(ch) ==
  Minority(ch) # {} /\ Cardinality(Survivors(ch)) <= MaxWinners

(* splitPot: equal shares, and one coin more for as many as the remainder. *)
SplitPot(total, W) ==
  {[u \in Users |-> IF u \notin W THEN 0
                    ELSE total \div Cardinality(W) + IF u \in X THEN 1 ELSE 0] :
     X \in {Y \in SUBSET W : Cardinality(Y) = total % Cardinality(W)}}

(* What a resolution that made up the picks ch leaves behind.              *)
ResolveCommon(ch) ==
  /\ resolver.op = "commit"
  /\ AutoPicked
  /\ member' = [u \in Users |->
       IF u \in AliveIn(resolver.member) \ Survivors(ch) THEN "dead"
       ELSE member[u]]
  /\ recorded' = recorded \cup Submitted \cup Missing

AutoPicks ==
  {[u \in Users |-> IF u \in Missing THEN p[u] ELSE resolver.choice[u]] :
     p \in [Missing -> Options]}

FinishCommit(ch) ==
  /\ ResolveCommon(ch)
  /\ ShouldFinish(ch)
  /\ \E pay \in SplitPot(stake, Survivors(ch)) : PayEach(pay)
  /\ returned' = returned + stake
  /\ status' = "finished"
  /\ stageOpen' = FALSE
  /\ choice' = ch
  /\ resolver' = [op |-> "announce"]
  /\ UNCHANGED <<stake, stage, timer, dieReq>>

NextStageCommit(ch) ==
  /\ ResolveCommon(ch)
  /\ ~ShouldFinish(ch)
  /\ resolver.stage < MaxStages
  /\ OpenStage(resolver.stage + 1)
  /\ resolver' = [op |-> "schedule", stage |-> resolver.stage + 1]
  /\ UNCHANGED <<ledgerVars, status, stake, timer, dieReq, returned>>

Disarmed(n) == 0
Armed(n) == n

ResolveSchedule ==
  /\ resolver.op = "schedule"
  /\ timer' = Armed(resolver.stage)
  /\ resolver' = Idle
  /\ UNCHANGED <<ledgerVars, roomVars, stageVars, dieReq, returned>>

(* The lobby is told that the game is over, inside the try: if that query  *)
(* throws, the catch refunds a room that has paid out its pot.             *)
AnnounceDone ==
  /\ resolver.op = "announce"
  /\ resolver' = Idle
  /\ UNCHANGED <<ledgerVars, roomVars, stageVars, timer, dieReq, returned>>

AnnounceFails ==
  /\ resolver.op = "announce"
  /\ resolver' = [op |-> "refund"]
  /\ UNCHANGED <<ledgerVars, roomVars, stageVars, timer, dieReq, returned>>

(* The transaction of resolveStage throws: its catch refunds the room.     *)
ResolveThrows ==
  /\ resolver.op \in {"read", "commit"}
  /\ resolver' = [op |-> "refund"]
  /\ UNCHANGED <<ledgerVars, roomVars, stageVars, timer, dieReq, returned>>

-----------------------------------------------------------------------------
(* refundRoom: a read, two writes per participant and a last one, each     *)
(* committed on its own.                                                   *)
RefundRead ==
  /\ resolver.op = "refund"
  /\ resolver' = [op |-> "refundCoin", todo |-> IF stake > 0 THEN Members ELSE {}]
  /\ UNCHANGED <<ledgerVars, roomVars, stageVars, timer, dieReq, returned>>

RefundCoin(u) ==
  /\ resolver.op = "refundCoin"
  /\ u \in resolver.todo
  /\ coin' = Credit(coin, u, EntryStake)
  /\ Fits(coin')
  /\ returned' = returned + EntryStake
  /\ resolver' = [op |-> "refundRow", todo |-> resolver.todo \ {u}, user |-> u]
  /\ UNCHANGED <<booked, roomVars, stageVars, timer, dieReq>>

NoRefundRow(u) == booked
RefundBooked(u) == Row(booked, NoUser, u, EntryStake)

RefundRow ==
  /\ resolver.op = "refundRow"
  /\ booked' = RefundBooked(resolver.user)
  /\ resolver' = [op |-> "refundCoin", todo |-> resolver.todo]
  /\ UNCHANGED <<coin, roomVars, stageVars, timer, dieReq, returned>>

RefundEnd ==
  /\ resolver.op = "refundCoin"
  /\ resolver.todo = {}
  /\ status' = "cancelled"
  /\ resolver' = Idle
  /\ UNCHANGED <<ledgerVars, member, stake, stageVars, timer, dieReq, returned>>

(* The process stops, the unhandled rejection of a failed refund included: *)
(* open transactions roll back, the timer and the requests are gone.       *)
Crash ==
  /\ timer # 0 \/ resolver # Idle \/ \E h \in DieHandlers : dieReq[h] # Idle
  /\ timer' = 0
  /\ resolver' = Idle
  /\ dieReq' = [h \in DieHandlers |-> Idle]
  /\ UNCHANGED <<ledgerVars, roomVars, stageVars, returned>>

-----------------------------------------------------------------------------
ClientNext ==
  \/ CreateRoom
  \/ \E h \in DieHandlers :
       \/ JoinCommit(h) \/ CancelCommit(h) \/ LeaveCommit(h)
       \/ StartRead(h) \/ StartCommit(h)
       \/ SubmitCommit(h) \/ DieFail(h)
       \/ \E u \in Users :
            \/ JoinRead(h, u) \/ LeaveRead(h, u)
            \/ \E side \in Options : SubmitRead(h, u, side)

Scheduling == \E h \in DieHandlers : StartSchedule(h)
StartUnannounced == \E h \in DieHandlers : StartAnnounceFails(h)

(* What resolveStage does once it runs; every query it awaits settles.     *)
ResolverNext ==
  \/ ResolveRead \/ ResolveNothing \/ ResolveThrows
  \/ resolver.op = "commit" /\ \E ch \in AutoPicks :
       FinishCommit(ch) \/ NextStageCommit(ch)
  \/ ResolveSchedule \/ AnnounceDone
  \/ RefundRead \/ (\E u \in Users : RefundCoin(u)) \/ RefundRow \/ RefundEnd

QuietNext ==
  ClientNext \/ Scheduling \/ TimerFires \/ ResolverNext \/ Crash

MajorityDieNext == QuietNext \/ StartUnannounced \/ AnnounceFails

MajorityDieSpec == MajorityDieInit /\ [][MajorityDieNext]_vars

(* The same with a lobby query that never throws, on an event loop that    *)
(* runs the timers that are due and settles what is awaited, unless the    *)
(* process stops.  Clients owe nothing.                                    *)
QuietLobbySpec ==
  /\ MajorityDieInit /\ [][QuietNext]_vars
  /\ WF_vars(Scheduling)
  /\ WF_vars(TimerFires)
  /\ WF_vars(ResolverNext)

-----------------------------------------------------------------------------
(* Type invariant; a submission row never outlives its participant.        *)
TypeOK ==
  /\ coin \in [Users -> Int4]
  /\ booked \in [Users -> Int]
  /\ status \in {"none", "waiting", "playing", "finished", "cancelled"}
  /\ member \in Memberships
  /\ stake \in Nat /\ returned \in Nat
  /\ stage \in 0 .. MaxStages /\ timer \in 0 .. MaxStages
  /\ stageOpen \in BOOLEAN
  /\ choice \in Choices
  /\ recorded \cup Submitted \subseteq Members
  /\ resolver \in Resolvers \cup {Idle}
  /\ dieReq \in [DieHandlers -> DieRequests \cup {Idle}]

(* room.stake is what the start took: with what has been paid back since,  *)
(* it explains every coin, however often the room is started, cancelled    *)
(* under way or refunded after its payout, and wherever a refund stops.    *)
StakeExplainsCoins ==
  SumFunction(coin) + stake = SumFunction(StartCoin) + returned

(* refundRoom writes the row after the coin: the ledger may miss the       *)
(* refund of one player, and misses nothing else, even after a restart.    *)
LedgerLagsOneRefund ==
  LET lag(u) == coin[u] - StartCoin[u] - booked[u] IN
  /\ \A u \in Users : lag(u) \in {0, EntryStake}
  /\ \A u, v \in Users : lag(u) # 0 /\ lag(v) # 0 => u = v

(* At most one resolution is on its way: a timer is only set when none is  *)
(* running, and always for the stage that is open.                         *)
OneResolution == timer # 0 => resolver = Idle /\ timer = stage /\ stageOpen

(* A game starts once and only goes forward, even if the room is started   *)
(* twice: stages are numbered without a gap or a repetition, and no player *)
(* who has died comes back.                                                *)
GoesForward ==
  [][/\ stage' # stage => stage' = stage + 1
     /\ \A u \in Users : member[u] = "dead" => member'[u] = "dead"]_vars

(* The minority survives: players who die are the larger part of those who *)
(* were read alive, somebody survives them, and two players who submitted  *)
(* the same side share one fate.                                           *)
MinorityRule ==
  [][LET died == {u \in Users : member[u] = "alive" /\ member'[u] = "dead"}
         lived == AliveIn(resolver.member) \ died
     IN died # {} =>
          /\ died \subseteq AliveIn(resolver.member)
          /\ lived # {} /\ Cardinality(lived) < Cardinality(died)
          /\ \A u, v \in AliveIn(resolver.member) :
               u \in died /\ v \notin died =>
                 resolver.choice[u] # resolver.choice[v]
                   \/ resolver.choice[u] = "none"]_vars

(* Two players can only tie or pick one side, and both replay: a game that *)
(* has come down to two can never be finished, although two may start it.  *)
DuelUndecided ==
  [][status = "playing" /\ Cardinality(AliveIn(member)) = 2 =>
       status' # "finished"]_vars

(* joinRoom answers 'Room is not joinable' and leaveRoom does nothing      *)
(* unless the room is waiting: whoever plays has staked, and whoever has   *)
(* staked plays.                                                           *)
PotMatchesPlayers ==
  status = "playing" => stake = EntryStake * Cardinality(Members)

(* A room that plays with nothing left in memory to resolve its stage.     *)
Stranded ==
  /\ status = "playing" /\ timer = 0 /\ resolver = Idle
  /\ \A h \in DieHandlers : dieReq[h].op # "schedule"

(* Each way out of a stage sets the next timer or ends the room: only a    *)
(* restart, or a lobby query failing right after the start, strands a game *)
(* (nothing sets the timer again).                                         *)
OnlyRestartsStrand ==
  [][~Stranded /\ Stranded' =>
       Crash \/ StartUnannounced]_vars

(* No stage is played for ever: the timer of an open stage fires and the   *)
(* stage is resolved or the room refunded, unless the game is stranded.    *)
EveryStageEnds ==
  \A n \in 1 .. MaxStages - 1 :
    (status = "playing" /\ stageOpen /\ stage = n) ~>
      (~(status = "playing" /\ stageOpen /\ stage = n) \/ Stranded)

(* The room as an escrow: it holds the stakes it has not yet paid back.    *)
Escrowed == INSTANCE Escrow WITH
  RoomIds <- {"room"},
  pot <- [r \in {"room"} |-> stake - returned],
  closed <- [r \in {"room"} |-> status \in {"finished", "cancelled"}]

(* Coins go from players into the room and from the room to players, and a *)
(* finished or cancelled room is empty and moves none: with one message at *)
(* a time and a lobby that can be told, whatever timers, failing           *)
(* resolutions and restarts do.                                            *)
ImplementsEscrow == Escrowed!EscrowSpec
=============================================================================
