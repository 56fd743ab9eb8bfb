----------------------------- MODULE TeamRpsVote -----------------------------
(***************************************************************************)
(* TeamRpsVoteService: one room from its creation to its end.              *)
(*                                                                         *)
(* Socket messages of the players are served concurrently (Handlers), and  *)
(* an in-memory timer resolves each round; every one of them is a chain of *)
(* reads and commits of its own transactions, interleaved with the others. *)
(* Transactions are READ COMMITTED and their reads take no lock.  A read   *)
(* of the room with its participants and rounds is one step.               *)
(*                                                                         *)
(* What the votes say is left to RpsVote: here a round that is resolved    *)
(* has any of the three outcomes.                                          *)
(***************************************************************************)
EXTENDS Ledger, FiniteSets

CONSTANTS
  Host,           \* the user who creates the room
  EntryStake,     \* room.entryStake, what every player stakes
  MaxPlayers,     \* MAX_PLAYERS, 10 in the code
  TeamHandlers,   \* the messages in flight at once
  MaxRounds       \* bound on the rounds played: draws can go on forever

ASSUME TeamRpsVoteAssumption ==
  /\ Host \in Users
  /\ EntryStake \in 1 .. MaxInt
  /\ MaxPlayers \in Nat \ {0} /\ MaxRounds \in Nat \ {0}
  /\ IsFiniteSet(TeamHandlers)

VARIABLES
  status,     \* room.status, "none" before the room is created
  team,       \* team[u]: "out" for no participant row, else its team
  stake,      \* room.stake
  round,      \* room.currentRound, the number of the latest round row
  roundOpen,  \* whether that row is OPEN
  expired,    \* whether its inputEndsAt has passed
  votes,      \* votes[n]: who has a submission row of round n
  score,      \* score[t]: room.scoreA and room.scoreB
  timer,      \* the round the in-memory timer is set for, 0 for none
  resolver,   \* the run of resolveRound under way, if any
  teamReq,    \* teamReq[h]: how far the message of h has come
  closings    \* history: how often the stakes were paid out or refunded

roomVars == <<status, team, stake>>
roundVars == <<round, roundOpen, expired, votes, score>>
serverVars == <<timer, resolver, teamReq>>
vars == <<ledgerVars, roomVars, roundVars, serverVars, closings>>

WinTarget == 2
MinPlayers == 2
Sides == {"A", "B"}

Idle == [op |-> "idle"]
Members == {u \in Users : team[u] # "out"}
Teamed == {u \in Users : team[u] \in Sides}
Recorded == UNION {votes[n] : n \in 1 .. MaxRounds}
OnTeam(tm, t) == {u \in Users : tm[u] = t}

Requests ==
  [op : {"create", "joinCoin", "join", "leave", "start", "schedule", "clear",
         "refund"},
   user : Users]
  \cup [op : {"choose"}, user : Users, side : Sides]
  \cup [op : {"vote"}, user : Users, round : 1 .. MaxRounds]
  \cup [op : {"refundCommit"}, user : Users, paid : SUBSET Users]

Resolvers ==
  [op : {"claim", "schedule"}, round : 1 .. MaxRounds]
  \cup [op : {"commit"}, round : 1 .. MaxRounds,
        team : [Users -> {"out", "none"} \cup Sides], voted : SUBSET Users]
  \cup [op : {"refund"}]
  \cup [op : {"refundCommit"}, paid : SUBSET Users]

TeamRpsVoteInit ==
  /\ LedgerInit
  /\ status = "none" /\ team = [u \in Users |-> "out"] /\ stake = 0
  /\ round = 0 /\ roundOpen = FALSE /\ expired = FALSE
  /\ votes = [n \in 1 .. MaxRounds |-> {}]
  /\ score = [t \in Sides |-> 0]
  /\ timer = 0 /\ resolver = Idle
  /\ teamReq = [h \in TeamHandlers |-> Idle]
  /\ closings = 0

Begin(h, r) == teamReq[h] = Idle /\ teamReq' = [teamReq EXCEPT ![h] = r]
Done(h) == teamReq' = [teamReq EXCEPT ![h] = Idle]

(* Every user of S gets a, with one row each.                              *)
PayEach(S, a) ==
  /\ coin' = [u \in Users |-> IF u \in S THEN coin[u] + a ELSE coin[u]]
  /\ booked' = [u \in Users |-> IF u \in S THEN booked[u] + a ELSE booked[u]]
  /\ Fits(coin')

(* u pays the entry stake, with one row.                                   *)
UnloggedStake(u) == coin' = Debit(coin, u, EntryStake) /\ UNCHANGED booked
PayStake(u) ==
  /\ coin' = Debit(coin, u, EntryStake)
  /\ booked' = Row(booked, u, NoUser, EntryStake)
  /\ Fits(coin')

-----------------------------------------------------------------------------
(* createRoom: one transaction, a read of the balance and the writes.      *)
CreateRead(h) ==
  /\ status = "none"
  /\ coin[Host] >= EntryStake
  /\ Begin(h, [op |-> "create", user |-> Host])
  /\ UNCHANGED <<ledgerVars, roomVars, roundVars, timer, resolver, closings>>

CreateCommit(h) ==
  /\ teamReq[h].op = "create"
  /\ status = "none"
  /\ status' = "waiting"
  /\ team' = [team EXCEPT ![Host] = "none"]
  /\ stake' = EntryStake
  /\ PayStake(Host)
  /\ Done(h)
  /\ UNCHANGED <<roundVars, timer, resolver, closings>>

(* joinRoom: one transaction, two reads and the writes.                    *)
NoSeatCheck == TRUE
HasSeat == Cardinality(Members) < MaxPlayers

JoinReadRoom(h, u) ==
  /\ status = "waiting"
  /\ u \notin Members
  /\ HasSeat
  /\ Begin(h, [op |-> "joinCoin", user |-> u])
  /\ UNCHANGED <<ledgerVars, roomVars, roundVars, timer, resolver, closings>>

JoinReadCoin(h) ==
  /\ teamReq[h].op = "joinCoin"
  /\ coin[teamReq[h].user] >= EntryStake
  /\ teamReq' = [teamReq EXCEPT ![h].op = "join"]
  /\ UNCHANGED <<ledgerVars, roomVars, roundVars, timer, resolver, closings>>

(* The unique index on (roomId, userId) of the participants.               *)
NoParticipantIndex(u) == TRUE
ParticipantFree(u) == team[u] = "out"

JoinCommit(h) ==
  LET u == teamReq[h].user IN
  /\ teamReq[h].op = "join"
  /\ ParticipantFree(u)
  /\ PayStake(u)
  /\ team' = [team EXCEPT ![u] = "none"]
  /\ stake' = stake + EntryStake
  /\ Done(h)
  /\ UNCHANGED <<status, roundVars, timer, resolver, closings>>

(* leaveRoom: the checks, on a room read outside a transaction.  Anyone    *)
(* but the host goes on to a transaction of its own.                       *)
MemberMayLeave(u) == u \in Members
MayLeave(u) == u \in Members /\ status = "waiting"

LeaveRead(h, u) ==
  /\ MayLeave(u)
  /\ Begin(h, [op |-> IF u = Host THEN "clear" ELSE "leave", user |-> u])
  /\ UNCHANGED <<ledgerVars, roomVars, roundVars, timer, resolver, closings>>

(* The host goes on to refundRoom, which clears the timer before it looks  *)
(* at the room: a game started since the leave was read loses its timer.   *)
HostClearTimer(h) ==
  /\ teamReq[h].op = "clear"
  /\ timer' = 0
  /\ teamReq' = [teamReq EXCEPT ![h].op = "refund"]
  /\ UNCHANGED <<ledgerVars, roomVars, roundVars, resolver, closings>>

(* The participant row must exist and no submission row may refer to it.   *)
LeaveCommit(h) ==
  LET u == teamReq[h].user IN
  /\ teamReq[h].op = "leave"
  /\ u \in Members \ Recorded
  /\ PayEach({u}, EntryStake)
  /\ team' = [team EXCEPT ![u] = "out"]
  /\ stake' = stake - EntryStake
  /\ Done(h)
  /\ UNCHANGED <<status, roundVars, timer, resolver, closings>>

(* chooseTeam: the checks outside a transaction, then an update by key.    *)
ChooseRead(h, u, t) ==
  /\ status = "waiting"
  /\ u \in Members
  /\ Begin(h, [op |-> "choose", user |-> u, side |-> t])
  /\ UNCHANGED <<ledgerVars, roomVars, roundVars, timer, resolver, closings>>

ChooseCommit(h) ==
  LET r == teamReq[h] IN
  /\ r.op = "choose"
  /\ r.user \in Members
  /\ team' = [team EXCEPT ![r.user] = r.side]
  /\ Done(h)
  /\ UNCHANGED <<ledgerVars, status, stake, roundVars, timer, resolver, closings>>

(* validateStart.                                                          *)
UnbalancedStart ==
  /\ Cardinality(Members) >= MinPlayers
  /\ Cardinality(Members) % 2 = 0
  /\ Members = Teamed
ValidateStart ==
  /\ Cardinality(Members) \in MinPlayers .. MaxPlayers
  /\ Cardinality(Members) % 2 = 0
  /\ Members = Teamed
  /\ Cardinality(OnTeam(team, "A")) = Cardinality(OnTeam(team, "B"))

(* startRoom: one transaction, then the timer is set once the room state   *)
(* has been read back and sent.                                            *)
StartRead(h) ==
  /\ status = "waiting"
  /\ ValidateStart
  /\ Begin(h, [op |-> "start", user |-> Host])
  /\ UNCHANGED <<ledgerVars, roomVars, roundVars, timer, resolver, closings>>

(* The unique index on (roomId, roundNumber).                              *)
NoRoundIndex(n) == TRUE
RoundFree(n) == round < n

OpenRound(n) ==
  /\ RoundFree(n)
  /\ round' = n
  /\ roundOpen' = TRUE
  /\ expired' = FALSE

StartCommit(h) ==
  /\ teamReq[h].op = "start"
  /\ status' = "playing"
  /\ OpenRound(1)
  /\ teamReq' = [teamReq EXCEPT ![h].op = "schedule"]
  /\ UNCHANGED <<ledgerVars, team, stake, votes, score, timer, resolver, closings>>

StartSchedule(h) ==
  /\ teamReq[h].op = "schedule"
  /\ timer' = 1
  /\ Done(h)
  /\ UNCHANGED <<ledgerVars, roomVars, roundVars, resolver, closings>>

(* submitVote: one transaction.  What it checks is read first; only the    *)
(* unique index on (roundId, participantId) is looked at when the row goes *)
(* in, so a vote may arrive in a round that was resolved in the meantime   *)
(* without a row of its player.                                            *)
VoteRead(h, u) ==
  /\ status = "playing"
  /\ u \in Teamed
  /\ roundOpen /\ ~expired
  /\ u \notin votes[round]
  /\ Begin(h, [op |-> "vote", user |-> u, round |-> round])
  /\ UNCHANGED <<ledgerVars, roomVars, roundVars, timer, resolver, closings>>

VoteCommit(h) ==
  LET r == teamReq[h] IN
  /\ r.op = "vote"
  /\ r.user \in Members \ votes[r.round]
  /\ votes' = [votes EXCEPT ![r.round] = @ \cup {r.user}]
  /\ Done(h)
  /\ UNCHANGED <<ledgerVars, roomVars, round, roundOpen, expired, score,
                 timer, resolver, closings>>

(* The transaction of h fails: a guard read later than the first turns out *)
(* false, a row is gone, a unique index or the deadlock detector refuses.  *)
TeamFail(h) ==
  /\ teamReq[h].op \notin {"idle", "schedule", "clear"}
  /\ Done(h)
  /\ UNCHANGED <<ledgerVars, roomVars, roundVars, timer, resolver, closings>>

-----------------------------------------------------------------------------
(* refundRoom: a transaction that reads the room and its participants and, *)
(* unless the room has ended, refunds every one of them.                   *)
Refundable == status \notin {"cancelled", "finished"}

Refund(paid, final) ==
  /\ PayEach(paid, EntryStake)
  /\ status' = final
  /\ closings' = closings + 1

HostRefundRead(h) ==
  /\ teamReq[h].op = "refund"
  /\ Refundable
  /\ teamReq' = [teamReq EXCEPT ![h] =
       [op |-> "refundCommit", user |-> Host, paid |-> Members]]
  /\ UNCHANGED <<ledgerVars, roomVars, roundVars, timer, resolver, closings>>

HostRefundCommit(h) ==
  /\ teamReq[h].op = "refundCommit"
  /\ Refund(teamReq[h].paid, "cancelled")
  /\ Done(h)
  /\ UNCHANGED <<team, stake, roundVars, timer, resolver>>

-----------------------------------------------------------------------------
(* The input window of the open round closes.                              *)
InputEnds ==
  /\ roundOpen /\ ~expired
  /\ expired' = TRUE
  /\ UNCHANGED <<ledgerVars, roomVars, round, roundOpen, votes, score,
                 serverVars, closings>>

(* setTimeout fires: resolveRound starts.                                  *)
DueWhenAllIn == timer # 0 /\ expired /\ Teamed \subseteq votes[timer]
TimerDue == timer # 0 /\ expired

TimerFires ==
  /\ TimerDue
  /\ timer' = 0
  /\ resolver' = [op |-> "claim", round |-> timer]
  /\ UNCHANGED <<ledgerVars, roomVars, roundVars, teamReq, closings>>

(* resolveRound claims the round and reads the room.  The claim is not     *)
(* visible to others before the commit.                                    *)
ResolveRead ==
  /\ resolver.op = "claim"
  /\ roundOpen
  /\ status = "playing"
  /\ resolver' = [op |-> "commit", round |-> resolver.round,
                  team |-> team, voted |-> votes[resolver.round]]
  /\ UNCHANGED <<ledgerVars, roomVars, roundVars, timer, teamReq, closings>>

(* The claim matches no row, or the room is no longer playing: null is     *)
(* returned and the claim, if any, commits.                                *)
ResolveNothing ==
  /\ resolver.op = "claim"
  /\ ~(roundOpen /\ status = "playing")
  /\ roundOpen' = FALSE
  /\ resolver' = Idle
  /\ UNCHANGED <<ledgerVars, roomVars, round, expired, votes, score,
                 timer, teamReq, closings>>

(* A submission is made up for every player read without one: it must not  *)
(* have come in since, and the participant must still be there.            *)
Missing == {u \in Users \ resolver.voted : resolver.team[u] \in Sides}
AutoPicked == Missing \subseteq Members \ votes[resolver.round]

NewScore(outcome) ==
  IF outcome = "draw" THEN score ELSE [score EXCEPT ![outcome] = @ + 1]
LateFinish(s) == \E t \in Sides : s[t] > WinTarget
Finished(s) == \E t \in Sides : s[t] >= WinTarget
Winners(s) == OnTeam(resolver.team, IF s["A"] > s["B"] THEN "A" ELSE "B")

ResolveCommon(outcome) ==
  /\ resolver.op = "commit"
  /\ AutoPicked
  /\ score' = NewScore(outcome)
  /\ votes' = [votes EXCEPT ![resolver.round] = @ \cup Missing]

(* The code clears the timer once the result has been sent; none can have  *)
(* been set by then (OneResolution), so it makes no difference when.       *)
FinishCommit(outcome) ==
  /\ ResolveCommon(outcome)
  /\ Finished(NewScore(outcome))
  /\ PayEach(Winners(NewScore(outcome)), 2 * EntryStake)
  /\ status' = "finished"
  /\ closings' = closings + 1
  /\ roundOpen' = FALSE
  /\ timer' = 0
  /\ resolver' = Idle
  /\ UNCHANGED <<team, stake, round, expired, teamReq>>

NextRoundCommit(outcome) ==
  /\ ResolveCommon(outcome)
  /\ ~Finished(NewScore(outcome))
  /\ resolver.round < MaxRounds
  /\ OpenRound(resolver.round + 1)
  /\ resolver' = [op |-> "schedule", round |-> resolver.round + 1]
  /\ UNCHANGED <<ledgerVars, roomVars, timer, teamReq, closings>>

Disarmed(n) == 0
Armed(n) == n

ResolveSchedule ==
  /\ resolver.op = "schedule"
  /\ timer' = Armed(resolver.round)
  /\ resolver' = Idle
  /\ UNCHANGED <<ledgerVars, roomVars, roundVars, teamReq, closings>>

(* The transaction of resolveRound throws: its catch refunds the room.     *)
ResolveThrows ==
  /\ resolver.op \in {"claim", "commit"}
  /\ resolver' = [op |-> "refund"]
  /\ timer' = 0
  /\ UNCHANGED <<ledgerVars, roomVars, roundVars, teamReq, closings>>

ResolverRefundRead ==
  /\ resolver.op = "refund"
  /\ resolver' = IF Refundable THEN [op |-> "refundCommit", paid |-> Members]
                 ELSE Idle
  /\ UNCHANGED <<ledgerVars, roomVars, roundVars, timer, teamReq, closings>>

ResolverRefundCommit ==
  /\ resolver.op = "refundCommit"
  /\ Refund(resolver.paid, "finished")
  /\ resolver' = Idle
  /\ UNCHANGED <<team, stake, roundVars, timer, teamReq>>

(* The process stops, the unhandled rejection of a failed refund included: *)
(* open transactions roll back, the timer and the requests are gone.       *)
Crash ==
  /\ timer # 0 \/ resolver # Idle \/ \E h \in TeamHandlers : teamReq[h] # Idle
  /\ timer' = 0
  /\ resolver' = Idle
  /\ teamReq' = [h \in TeamHandlers |-> Idle]
  /\ UNCHANGED <<ledgerVars, roomVars, roundVars, closings>>

-----------------------------------------------------------------------------
Scheduling == \E h \in TeamHandlers : StartSchedule(h)

ClientNext ==
  \/ Scheduling
  \/ \E h \in TeamHandlers :
       \/ CreateRead(h) \/ CreateCommit(h)
       \/ JoinReadCoin(h) \/ JoinCommit(h)
       \/ LeaveCommit(h) \/ ChooseCommit(h)
       \/ StartRead(h) \/ StartCommit(h)
       \/ VoteCommit(h)
       \/ HostClearTimer(h) \/ HostRefundRead(h) \/ HostRefundCommit(h)
       \/ TeamFail(h)
       \/ \E u \in Users :
            \/ JoinReadRoom(h, u) \/ LeaveRead(h, u) \/ VoteRead(h, u)
            \/ \E t \in Sides : ChooseRead(h, u, t)

(* What resolveRound does once it runs; every query it awaits settles.     *)
ResolverNext ==
  \/ ResolveRead \/ ResolveNothing \/ ResolveThrows
  \/ \E o \in Sides \cup {"draw"} : FinishCommit(o) \/ NextRoundCommit(o)
  \/ ResolveSchedule
  \/ ResolverRefundRead \/ ResolverRefundCommit

ServerNext == InputEnds \/ TimerFires \/ ResolverNext \/ Crash

TeamRpsVoteNext == ClientNext \/ ServerNext

TeamRpsVoteSpec == TeamRpsVoteInit /\ [][TeamRpsVoteNext]_vars

(* Time passes, and the event loop runs the timers that are due and        *)
(* settles what is awaited, unless the process stops.  Players owe nothing.*)
FairSpec ==
  /\ TeamRpsVoteSpec
  /\ WF_vars(Scheduling)
  /\ WF_vars(InputEnds)
  /\ WF_vars(TimerFires)
  /\ WF_vars(ResolverNext)

-----------------------------------------------------------------------------
(* Type invariant.                                                         *)
TypeOK ==
  /\ coin \in [Users -> Int4]
  /\ booked \in [Users -> Int]
  /\ status \in {"none", "waiting", "playing", "finished", "cancelled"}
  /\ team \in [Users -> {"out", "none"} \cup Sides]
  /\ stake \in Nat
  /\ round \in 0 .. MaxRounds /\ timer \in 0 .. MaxRounds
  /\ roundOpen \in BOOLEAN /\ expired \in BOOLEAN
  /\ votes \in [1 .. MaxRounds -> SUBSET Members]
  /\ score \in [Sides -> 0 .. WinTarget]
  /\ resolver \in Resolvers \cup {Idle}
  /\ teamReq \in [TeamHandlers -> Requests \cup {Idle}]
  /\ closings \in Nat

(* The stake the room shows is what its participants have staked, however  *)
(* joins and leaves interleave with everything else.                       *)
StakeMatchesParticipants == stake = EntryStake * Cardinality(Members)

(* Joiners of the last seat both find it free, but each of them did find   *)
(* one: a room is over-full by at most the other messages under way.       *)
OverfullBounded ==
  Cardinality(Members) <= MaxPlayers + Cardinality(TeamHandlers) - 1

(* The ledger accounts for every coin a room takes, pays out and refunds.  *)
LedgerExplainsCoins == \A u \in Users : coin[u] = StartCoin[u] + booked[u]

(* The score never runs ahead of the rounds, only one team can reach the   *)
(* target, and the game that has a winner has no round left to resolve.    *)
ScoreDecidesGame ==
  /\ score["A"] + score["B"] <= round
  /\ ~(score["A"] = WinTarget /\ score["B"] = WinTarget)
  /\ (\E t \in Sides : score[t] = WinTarget) =>
       status \in {"finished", "cancelled"} /\ ~roundOpen /\ timer = 0

(* At most one resolution is on its way: a timer is only set when none is  *)
(* running, and always for the round that is open.                         *)
OneResolution == timer # 0 => resolver = Idle /\ timer = round /\ roundOpen

(* Rounds are numbered without a gap or a repetition, even if the room is  *)
(* started twice, and the next one opens only when every player who was    *)
(* on a team when the last one was read has a vote in it.                  *)
RoundsInOrder ==
  [][round' # round =>
       /\ round' = round + 1
       /\ round > 0 =>
            {u \in Users : resolver.team[u] \in Sides} \subseteq votes'[round]]_vars

(* refundRoom returns null for a room that is cancelled or finished: the   *)
(* stakes of a room are paid out or refunded once.                         *)
SettledOnce == closings <= 1

(* startRoom accepts only balanced teams, so that the two stakes a winner  *)
(* gets are there: a room that plays has as many players on either side.   *)
PlaysBalanced ==
  status = "playing" =>
    /\ Members = Teamed
    /\ Cardinality(OnTeam(team, "A")) = Cardinality(OnTeam(team, "B"))

(* A host's refund under way ends the room, unless it fails.               *)
Refunding(h) == teamReq[h].op \in {"clear", "refund", "refundCommit"}

(* A room that plays with nothing left in memory to resolve its round or   *)
(* to end it.                                                              *)
Stranded ==
  /\ status = "playing" /\ timer = 0 /\ resolver = Idle
  /\ \A h \in TeamHandlers : teamReq[h].op # "schedule" /\ ~Refunding(h)

(* Each way out of a round sets the next timer or ends the room, and       *)
(* whoever clears the timer goes on to end it: a game is stranded only by  *)
(* a restart, or by a refund that fails after a host's leave has crossed   *)
(* the start and cleared its timer (nothing sets the timer again).         *)
OnlyFailuresStrand ==
  [][~Stranded /\ Stranded' =>
       Crash \/ \E h \in TeamHandlers : Refunding(h) /\ TeamFail(h)]_vars

(* No round is played for ever: without a single vote its timer fires and  *)
(* the round is resolved or the room refunded, unless the game is stranded.*)
EveryRoundEnds ==
  \A n \in 1 .. MaxRounds - 1 :
    (status = "playing" /\ roundOpen /\ round = n) ~>
      (~(status = "playing" /\ roundOpen /\ round = n) \/ Stranded)

(* The room as an escrow: it holds the stakes until it is settled.         *)
Escrowed == INSTANCE Escrow WITH
  RoomIds <- {"room"},
  pot <- [r \in {"room"} |-> IF closings = 0 THEN stake ELSE 0],
  closed <- [r \in {"room"} |-> closings > 0]

(* Coins go from players into the room and from the room to players, and a *)
(* settled room moves none: votes, timers, failing resolutions and crashes *)
(* may interleave with one message at a time.                              *)
ImplementsEscrow == Escrowed!EscrowSpec
=============================================================================
