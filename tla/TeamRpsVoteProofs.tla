-------------------------- MODULE TeamRpsVoteProofs --------------------------
(***************************************************************************)
(* Theorems about TeamRpsVote, for any users, stakes, seats, messages in   *)
(* flight and rounds: whatever two messages, a timer, a resolution and     *)
(* crashes do to one room between each other's reads and commits.          *)
(***************************************************************************)
EXTENDS TeamRpsVote, SumTheorems, TLAPS

(* The money part of the invariant needs no other.                         *)
MoneyInv ==
  /\ coin \in [Users -> Int4] /\ booked \in [Users -> Int]
  /\ LedgerExplainsCoins
  /\ closings \in Nat

(* The rows, the timer and the requests keep their shape; a join under way *)
(* has found a room.                                                       *)
JoinsFindRoom ==
  \A h \in TeamHandlers :
    teamReq[h].op \in {"joinCoin", "join"} => status # "none"

ShapeInv ==
  /\ status \in {"none", "waiting", "playing", "finished", "cancelled"}
  /\ team \in [Users -> {"out", "none"} \cup Sides]
  /\ round \in 0 .. MaxRounds /\ timer \in 0 .. MaxRounds
  /\ roundOpen \in BOOLEAN /\ expired \in BOOLEAN
  /\ roundOpen => round > 0
  /\ votes \in [1 .. MaxRounds -> SUBSET Members]
  /\ resolver \in Resolvers \cup {Idle}
  /\ teamReq \in [TeamHandlers -> Requests \cup {Idle}]
  /\ JoinsFindRoom

(* A room nobody has created has no participant; afterwards the stake is   *)
(* what the participants have staked.                                      *)
StakeInv ==
  /\ status = "none" => Members = {}
  /\ StakeMatchesParticipants

(* One resolution at a time: the start that opened the first round, the    *)
(* timer and a resolution under way exclude each other, and each of them   *)
(* is about the round that is open.                                        *)
ControlInv ==
  /\ OneResolution
  /\ resolver # Idle => timer = 0 /\ round > 0
  /\ resolver.op \in {"claim", "commit", "schedule"} =>
       roundOpen /\ resolver.round = round
  /\ \A h \in TeamHandlers : teamReq[h].op = "schedule" =>
       /\ timer = 0 /\ resolver = Idle /\ round = 1 /\ roundOpen
       /\ \A g \in TeamHandlers : teamReq[g].op = "schedule" => g = h

(* The votes a resolution has read are still there, and while a round is   *)
(* open it has not been counted.                                           *)
ScoreInv ==
  /\ score \in [Sides -> 0 .. WinTarget]
  /\ score["A"] + score["B"] <= round
  /\ roundOpen => /\ score["A"] + score["B"] < round
                  /\ score["A"] < WinTarget /\ score["B"] < WinTarget
  /\ ScoreDecidesGame

VotesInv ==
  resolver.op = "commit" => resolver.voted \subseteq votes[resolver.round]

TeamInv ==
  MoneyInv /\ ShapeInv /\ StakeInv /\ ControlInv /\ ScoreInv /\ VotesInv

-----------------------------------------------------------------------------
(* Money.                                                                  *)
LEMMA PayStakeIsLogged ==
  ASSUME MoneyInv, NEW u, PayStake(u), closings' \in Nat
  PROVE  MoneyInv'
<1>1. NoUser \notin Users /\ EntryStake \in Int /\ \A v \in Users : StartCoin[v] \in Int
  BY LedgerAssumption, TeamRpsVoteAssumption
<1>2. Int4 \subseteq Int
  BY LedgerAssumption DEF Int4
<1>3. booked' \in [Users -> Int]
  BY <1>1 DEF MoneyInv, PayStake, Row
<1>4. ASSUME NEW v \in Users
      PROVE  coin'[v] = StartCoin[v] + booked'[v]
  BY <1>1, <1>2 DEF MoneyInv, LedgerExplainsCoins, PayStake, Row, Debit
<1>5. coin' \in [Users -> Int4]
  <2>1. DOMAIN coin' = Users /\ coin' = [v \in Users |-> coin'[v]]
    BY DEF MoneyInv, PayStake, Debit
  <2>2. QED
    BY <2>1 DEF PayStake, Fits
<1>6. QED
  BY <1>3, <1>4, <1>5 DEF MoneyInv, LedgerExplainsCoins

LEMMA PayEachIsLogged ==
  ASSUME MoneyInv, NEW S, NEW a \in Int, PayEach(S, a),
         closings' \in Nat
  PROVE  MoneyInv'
<1>1. \A v \in Users : StartCoin[v] \in Int
  BY LedgerAssumption
<1>2. Int4 \subseteq Int
  BY LedgerAssumption DEF Int4
<1>3. booked' \in [Users -> Int] /\ coin' \in [Users -> Int4]
  BY <1>2 DEF MoneyInv, PayEach, Fits
<1>4. ASSUME NEW v \in Users
      PROVE  coin'[v] = StartCoin[v] + booked'[v]
  BY <1>1, <1>2 DEF MoneyInv, LedgerExplainsCoins, PayEach
<1>5. QED
  BY <1>3, <1>4 DEF MoneyInv, LedgerExplainsCoins

(* A step moves no coin, takes one stake, or pays some users alike.        *)
LEMMA StepsPay ==
  ASSUME [TeamRpsVoteNext]_vars
  PROVE  \/ UNCHANGED ledgerVars
         \/ \E u : PayStake(u)
         \/ \E S, a : a \in {EntryStake, 2 * EntryStake} /\ PayEach(S, a)
BY DEF TeamRpsVoteNext, ClientNext, ServerNext, Scheduling, ResolverNext,
       CreateRead, CreateCommit, JoinReadRoom, JoinReadCoin, JoinCommit, LeaveRead,
       HostClearTimer, LeaveCommit, ChooseRead, ChooseCommit, StartRead, StartCommit,
       StartSchedule, VoteRead, VoteCommit, TeamFail, HostRefundRead,
       HostRefundCommit, Refund, InputEnds, TimerFires, ResolveRead,
       ResolveNothing, FinishCommit, NextRoundCommit, ResolveSchedule,
       ResolveThrows, ResolverRefundRead, ResolverRefundCommit, Crash, vars

(* Every settlement is counted.                                            *)
LEMMA StepsCount ==
  ASSUME [TeamRpsVoteNext]_vars
  PROVE  closings' \in {closings, closings + 1}
BY DEF TeamRpsVoteNext, ClientNext, ServerNext, Scheduling, ResolverNext,
       CreateRead, CreateCommit, JoinReadRoom, JoinReadCoin, JoinCommit, LeaveRead,
       HostClearTimer, LeaveCommit, ChooseRead, ChooseCommit, StartRead, StartCommit,
       StartSchedule, VoteRead, VoteCommit, TeamFail, HostRefundRead,
       HostRefundCommit, Refund, InputEnds, TimerFires, ResolveRead,
       ResolveNothing, FinishCommit, NextRoundCommit, ResolveSchedule,
       ResolveThrows, ResolverRefundRead, ResolverRefundCommit, Crash, vars

LEMMA MoneyNext == MoneyInv /\ [TeamRpsVoteNext]_vars => MoneyInv'
<1> SUFFICES ASSUME MoneyInv, [TeamRpsVoteNext]_vars PROVE MoneyInv'
  OBVIOUS
<1>0. closings' \in Nat
  BY StepsCount DEF MoneyInv
<1>1. CASE UNCHANGED ledgerVars
  BY <1>0, <1>1 DEF MoneyInv, LedgerExplainsCoins, ledgerVars
<1>2. CASE \E u : PayStake(u)
  BY <1>0, <1>2, PayStakeIsLogged
<1>3. CASE \E S, a : a \in {EntryStake, 2 * EntryStake} /\ PayEach(S, a)
  BY <1>0, <1>3, PayEachIsLogged, TeamRpsVoteAssumption
<1>4. QED
  BY <1>1, <1>2, <1>3, StepsPay

-----------------------------------------------------------------------------
(* What a request or a resolution under way has the checks to thank for.   *)
LEMMA RequestIsTyped ==
  ASSUME ShapeInv, NEW h \in TeamHandlers
  PROVE  /\ teamReq[h].op # "idle" => teamReq[h].user \in Users
         /\ teamReq[h].op = "choose" => teamReq[h].side \in Sides
         /\ teamReq[h].op = "vote" => teamReq[h].round \in 1 .. MaxRounds
         /\ teamReq[h].op = "refundCommit" => teamReq[h].paid \in SUBSET Users
         /\ teamReq[h].op # "idle" <=> teamReq[h] # Idle
BY DEF ShapeInv, Requests, Idle

LEMMA ResolverIsTyped ==
  ASSUME ShapeInv
  PROVE  /\ resolver.op \in {"claim", "schedule", "commit"} =>
              resolver.round \in 1 .. MaxRounds
         /\ resolver.op = "commit" =>
              /\ resolver.team \in [Users -> {"out", "none"} \cup Sides]
              /\ resolver.voted \in SUBSET Users
         /\ resolver.op = "refundCommit" => resolver.paid \in SUBSET Users
         /\ resolver.op # "idle" <=> resolver # Idle
BY DEF ShapeInv, Resolvers, Idle

LEMMA RequestMoves ==
  ASSUME ShapeInv, NEW h \in TeamHandlers,
         NEW r \in Requests \cup {Idle}, teamReq' = [teamReq EXCEPT ![h] = r]
  PROVE  teamReq' \in [TeamHandlers -> Requests \cup {Idle}]
BY DEF ShapeInv

(* The steps of a message that neither start a game nor set its timer.     *)
ReadStep(h) ==
  \/ CreateRead(h) \/ JoinReadCoin(h) \/ StartRead(h)
  \/ HostClearTimer(h) \/ HostRefundRead(h) \/ TeamFail(h)
  \/ \E u \in Users :
       \/ JoinReadRoom(h, u) \/ LeaveRead(h, u) \/ VoteRead(h, u)
       \/ \E t \in Sides : ChooseRead(h, u, t)

CommitStep(h) ==
  \/ CreateCommit(h) \/ JoinCommit(h) \/ LeaveCommit(h) \/ ChooseCommit(h)
  \/ VoteCommit(h) \/ HostRefundCommit(h)

GameStep ==
  \/ \E h \in TeamHandlers : StartCommit(h) \/ StartSchedule(h)
  \/ InputEnds \/ TimerFires \/ ResolverNext \/ Crash

(* The requests stay well formed, and no game starts.                      *)
KeepsRequests ==
  /\ teamReq' \in [TeamHandlers -> Requests \cup {Idle}]
  /\ \A g \in TeamHandlers :
       teamReq'[g].op = "schedule" <=> teamReq[g].op = "schedule"
  /\ JoinsFindRoom'

LEMMA StepCases ==
  ASSUME [TeamRpsVoteNext]_vars
  PROVE  \/ \E h \in TeamHandlers : ReadStep(h) \/ CommitStep(h)
         \/ GameStep
         \/ UNCHANGED vars
BY DEF TeamRpsVoteNext, ClientNext, ServerNext, Scheduling, ReadStep, CommitStep,
       GameStep

LEMMA ClearMovesOn ==
  ASSUME ShapeInv, NEW h \in TeamHandlers, HostClearTimer(h)
  PROVE  /\ teamReq[h].op = "clear"
         /\ \E q \in [op : {"refund"}, user : Users] :
              teamReq' = [teamReq EXCEPT ![h] = q]
<1> DEFINE q == [teamReq[h] EXCEPT !.op = "refund"]
<1>1. teamReq[h].op = "clear" /\ teamReq' = [teamReq EXCEPT ![h] = q]
  BY DEF HostClearTimer
<1>2. teamReq[h] \in [op : {"clear"}, user : Users]
  BY <1>1 DEF ShapeInv, Requests, Idle
<1>3. q \in [op : {"refund"}, user : Users]
  BY <1>2
<1>4. QED
  BY <1>1, <1>3

LEMMA ReadSteps ==
  ASSUME ShapeInv, NEW h \in TeamHandlers, ReadStep(h)
  PROVE  /\ UNCHANGED <<roomVars, roundVars, resolver>>
         /\ timer' \in {0, timer}
         /\ KeepsRequests
<1> USE DEF Begin, Done
<1>0. teamReq \in [TeamHandlers -> Requests \cup {Idle}] /\ JoinsFindRoom
  BY DEF ShapeInv
<1>1. UNCHANGED <<roomVars, roundVars, resolver>> /\ timer' \in {0, timer}
  BY DEF ReadStep, CreateRead, JoinReadCoin, StartRead, HostClearTimer,
         HostRefundRead, TeamFail, JoinReadRoom, LeaveRead, VoteRead, ChooseRead
<1> SUFFICES KeepsRequests
  BY <1>1
<1>2. ASSUME NEW r \in Requests \cup {Idle}, r.op # "schedule",
             r.op \in {"joinCoin", "join"} => status # "none",
             teamReq[h].op # "schedule", teamReq' = [teamReq EXCEPT ![h] = r]
      PROVE  KeepsRequests
  BY <1>0, <1>1, <1>2 DEF KeepsRequests, JoinsFindRoom, roomVars
<1>3. ASSUME NEW r \in Requests \cup {Idle}, r.op # "schedule", Begin(h, r),
             r.op \in {"joinCoin", "join"} => status # "none"
      PROVE  KeepsRequests
  <2>1. teamReq[h].op = "idle" /\ teamReq' = [teamReq EXCEPT ![h] = r]
    BY <1>3 DEF Idle
  <2>2. r.op # "schedule" /\ teamReq[h].op # "schedule"
    BY <1>3, <2>1
  <2>3. QED
    BY <1>2, <1>3, <2>1, <2>2
<1>4. CASE CreateRead(h) \/ StartRead(h)
  BY <1>3, <1>4, TeamRpsVoteAssumption DEF CreateRead, StartRead, Requests
<1>5. CASE JoinReadCoin(h)
  <2>1. teamReq[h].op = "joinCoin" /\ teamReq[h] \in [op : {"joinCoin"}, user : Users]
    BY <1>0, <1>5 DEF JoinReadCoin, Requests, Idle
  <2> DEFINE q == [teamReq[h] EXCEPT !.op = "join"]
  <2>2. q \in [op : {"join"}, user : Users]
    BY <2>1
  <2>3. q \in Requests \cup {Idle} /\ q.op = "join"
    BY <2>2 DEF Requests
  <2>4. status # "none"
    BY <1>0, <2>1 DEF JoinsFindRoom
  <2>5. teamReq' = [teamReq EXCEPT ![h] = q]
    BY <1>5 DEF JoinReadCoin
  <2> HIDE DEF q
  <2>6. teamReq[h].op # "schedule" /\ q.op # "schedule"
    BY <2>1, <2>3
  <2>7. QED
    BY <1>2, <2>6, <2>3, <2>4, <2>5
<1>6. CASE HostRefundRead(h)
  BY <1>2, <1>6, TeamRpsVoteAssumption
     DEF HostRefundRead, Requests, Members
<1>7. CASE TeamFail(h)
  BY <1>2, <1>7 DEF TeamFail, Idle
<1>8. ASSUME NEW u \in Users, JoinReadRoom(h, u) \/ LeaveRead(h, u)
      PROVE  KeepsRequests
  BY <1>3, <1>8 DEF JoinReadRoom, LeaveRead, Requests
<1>9. ASSUME NEW u \in Users, VoteRead(h, u)
      PROVE  KeepsRequests
  <2>1. round \in 1 .. MaxRounds
    BY <1>9 DEF VoteRead, ShapeInv
  <2>2. QED
    BY <1>3, <1>9, <2>1 DEF VoteRead, Requests
<1>10. ASSUME NEW u \in Users, NEW t \in Sides, ChooseRead(h, u, t)
       PROVE  KeepsRequests
  BY <1>3, <1>10 DEF ChooseRead, Requests
<1>11. CASE HostClearTimer(h)
  <2>1. PICK q \in [op : {"refund"}, user : Users] :
          teamReq' = [teamReq EXCEPT ![h] = q]
    BY <1>0, <1>11, ClearMovesOn
  <2>2. q \in Requests \cup {Idle} /\ q.op = "refund" /\ teamReq[h].op = "clear"
    BY <1>11, ClearMovesOn DEF Requests
  <2>3. QED
    BY <1>2, <2>1, <2>2
<1>12. QED
  BY <1>4, <1>5, <1>6, <1>7, <1>8, <1>9, <1>10, <1>11 DEF ReadStep

LEMMA CommitSteps ==
  ASSUME ShapeInv, NEW h \in TeamHandlers, CommitStep(h)
  PROVE  /\ UNCHANGED <<round, roundOpen, expired, score, timer, resolver>>
         /\ KeepsRequests
         /\ \A n \in 1 .. MaxRounds : votes[n] \subseteq votes'[n]
         /\ status' = status \/ status = "none" \/ status' = "cancelled"
<1>1. /\ UNCHANGED <<round, roundOpen, expired, score, timer, resolver>>
      /\ teamReq[h].op # "schedule" /\ Done(h)
      /\ status' = status \/ status = "none" \/ status' = "cancelled"
  BY DEF CommitStep, CreateCommit, JoinCommit, LeaveCommit, ChooseCommit,
         VoteCommit, HostRefundCommit, Refund, roomVars, roundVars
<1>2. KeepsRequests
  <2>1. status # "none" => status' # "none"
    BY <1>1
  <2>2. QED
    BY <1>1, <2>1 DEF ShapeInv, Done, Idle, KeepsRequests, JoinsFindRoom
<1>3. \A n \in 1 .. MaxRounds : votes[n] \subseteq votes'[n]
  <2>1. CASE VoteCommit(h)
    BY <2>1 DEF VoteCommit, ShapeInv
  <2>2. CASE UNCHANGED votes
    BY <2>2
  <2>3. QED
    BY <2>1, <2>2 DEF CommitStep, CreateCommit, JoinCommit, LeaveCommit,
       ChooseCommit, HostRefundCommit, roundVars
<1>4. QED
  BY <1>1, <1>2, <1>3

-----------------------------------------------------------------------------
(* Participants, their votes and the stake.                                *)
LEMMA MembersAreFinite == IsFiniteSet(Members) /\ Cardinality(Members) \in Nat
<1>1. Members \subseteq Users
  BY DEF Members
<1>2. QED
  BY <1>1, FS_Subset, FS_CardinalityType, UsersAssumption

LEMMA OneMemberMore ==
  ASSUME ShapeInv, StakeInv, NEW u \in Users, u \notin Members,
         team' = [team EXCEPT ![u] = "none"], stake' = stake + EntryStake
  PROVE  /\ team' \in [Users -> {"out", "none"} \cup Sides]
         /\ Members' = Members \cup {u}
         /\ StakeMatchesParticipants'
<1>1. team \in [Users -> {"out", "none"} \cup Sides]
  BY DEF ShapeInv
<1>2. team' \in [Users -> {"out", "none"} \cup Sides] /\ Members' = Members \cup {u}
  BY <1>1 DEF Members, Sides
<1>3. Cardinality(Members') = Cardinality(Members) + 1
  BY <1>2, MembersAreFinite, FS_AddElement
<1>4. EntryStake \in Nat /\ stake = EntryStake * Cardinality(Members)
  BY TeamRpsVoteAssumption, LedgerAssumption DEF StakeInv, StakeMatchesParticipants
<1>5. EntryStake * (Cardinality(Members) + 1)
        = EntryStake * Cardinality(Members) + EntryStake
  BY <1>4, MembersAreFinite
<1>6. QED
  BY <1>2, <1>3, <1>4, <1>5 DEF StakeMatchesParticipants

LEMMA OneMemberLess ==
  ASSUME ShapeInv, StakeInv, NEW u \in Members,
         team' = [team EXCEPT ![u] = "out"], stake' = stake - EntryStake
  PROVE  /\ team' \in [Users -> {"out", "none"} \cup Sides]
         /\ Members' = Members \ {u}
         /\ StakeMatchesParticipants'
<1>1. team \in [Users -> {"out", "none"} \cup Sides] /\ u \in Users
  BY DEF ShapeInv, Members
<1>2. team' \in [Users -> {"out", "none"} \cup Sides] /\ Members' = Members \ {u}
  BY <1>1 DEF Members
<1>3. Cardinality(Members') = Cardinality(Members) - 1
  BY <1>2, MembersAreFinite, FS_RemoveElement
<1>4. EntryStake \in Nat /\ stake = EntryStake * Cardinality(Members)
  BY TeamRpsVoteAssumption, LedgerAssumption DEF StakeInv, StakeMatchesParticipants
<1>5. EntryStake * (Cardinality(Members) - 1)
        = EntryStake * Cardinality(Members) - EntryStake
  BY <1>4, MembersAreFinite
<1>6. QED
  BY <1>2, <1>3, <1>4, <1>5 DEF StakeMatchesParticipants

(* Whoever has a vote stays: the foreign key of the submission rows.       *)
RowsInv ==
  /\ team \in [Users -> {"out", "none"} \cup Sides]
  /\ votes \in [1 .. MaxRounds -> SUBSET Members]
  /\ StakeInv

LEMMA CommitsKeepRows ==
  ASSUME ShapeInv, StakeInv, NEW h \in TeamHandlers, CommitStep(h)
  PROVE  RowsInv'
<1> DEFINE u == teamReq[h].user
<1>0. /\ team \in [Users -> {"out", "none"} \cup Sides]
      /\ votes \in [1 .. MaxRounds -> SUBSET Members]
  BY DEF ShapeInv
<1>1. CASE CreateCommit(h)
  <2>1. /\ Members = {} /\ stake = 0 /\ Host \in Users
        /\ team' = [team EXCEPT ![Host] = "none"] /\ stake' = EntryStake
        /\ votes' = votes /\ status' # "none"
    <3>1. Members = {} /\ stake = EntryStake * 0
      BY <1>1, FS_EmptySet DEF CreateCommit, StakeInv, StakeMatchesParticipants
    <3>2. QED
      BY <1>1, <3>1, TeamRpsVoteAssumption, LedgerAssumption
         DEF CreateCommit, roundVars
  <2>2. stake' = stake + EntryStake
    BY <2>1, TeamRpsVoteAssumption, LedgerAssumption
  <2>3. Host \notin Members
    BY <2>1
  <2>4. /\ team' \in [Users -> {"out", "none"} \cup Sides]
        /\ Members' = Members \cup {Host} /\ StakeMatchesParticipants'
    BY <2>1, <2>2, <2>3, OneMemberMore
  <2>5. votes' \in [1 .. MaxRounds -> SUBSET Members']
    BY <1>0, <2>1, <2>4
  <2>6. QED
    BY <2>1, <2>4, <2>5 DEF RowsInv, StakeInv
<1>2. CASE JoinCommit(h)
  <2>1. u \in Users /\ u \notin Members
    BY <1>2, RequestIsTyped DEF JoinCommit, ParticipantFree, Members
  <2>2. /\ team' \in [Users -> {"out", "none"} \cup Sides]
        /\ Members' = Members \cup {u} /\ StakeMatchesParticipants'
    BY <1>2, <2>1, OneMemberMore DEF JoinCommit
  <2>3. status' = status /\ votes' = votes
    BY <1>2 DEF JoinCommit, roundVars
  <2>4. status # "none"
    BY <1>2 DEF JoinCommit, ShapeInv, JoinsFindRoom
  <2>5. votes' \in [1 .. MaxRounds -> SUBSET Members']
    BY <1>0, <2>2, <2>3
  <2>6. QED
    BY <2>2, <2>3, <2>4, <2>5 DEF RowsInv, StakeInv
<1>3. CASE LeaveCommit(h)
  <2>1. /\ u \in Members /\ \A n \in 1 .. MaxRounds : u \notin votes[n]
        /\ team' = [team EXCEPT ![u] = "out"] /\ stake' = stake - EntryStake
        /\ status' = status /\ votes' = votes
    BY <1>3 DEF LeaveCommit, Recorded, roundVars
  <2>2. /\ team' \in [Users -> {"out", "none"} \cup Sides]
        /\ Members' = Members \ {u} /\ StakeMatchesParticipants'
    BY <2>1, OneMemberLess
  <2>3. votes' \in [1 .. MaxRounds -> SUBSET Members']
    BY <1>0, <2>1, <2>2
  <2>4. QED
    BY <2>1, <2>2, <2>3 DEF RowsInv, StakeInv
<1>4. CASE ChooseCommit(h)
  <2>1. /\ u \in Members /\ teamReq[h].side \in Sides
        /\ team' = [team EXCEPT ![u] = teamReq[h].side]
        /\ UNCHANGED <<status, stake, votes>>
    BY <1>4, RequestIsTyped DEF ChooseCommit, roundVars
  <2>2. team' \in [Users -> {"out", "none"} \cup Sides] /\ Members' = Members
    BY <1>0, <2>1 DEF Members, Sides
  <2>3. QED
    BY <1>0, <2>1, <2>2 DEF RowsInv, StakeInv, StakeMatchesParticipants
<1>5. CASE VoteCommit(h)
  <2>1. u \in Members /\ UNCHANGED <<status, team, stake>> /\ Members' = Members
    BY <1>5 DEF VoteCommit, roomVars, Members
  <2>2. votes' \in [1 .. MaxRounds -> SUBSET Members]
    BY <1>0, <1>5, <2>1 DEF VoteCommit
  <2>3. QED
    BY <1>0, <2>1, <2>2 DEF RowsInv, StakeInv, StakeMatchesParticipants
<1>6. CASE HostRefundCommit(h)
  <2>1. UNCHANGED <<team, stake, votes>> /\ status' # "none" /\ Members' = Members
    BY <1>6 DEF HostRefundCommit, Refund, roundVars, Members
  <2>2. QED
    BY <1>0, <2>1 DEF RowsInv, StakeInv, StakeMatchesParticipants
<1>7. QED
  BY <1>1, <1>2, <1>3, <1>4, <1>5, <1>6 DEF CommitStep

-----------------------------------------------------------------------------
(* Everything but the money.                                               *)
GameInv == ShapeInv /\ StakeInv /\ ControlInv /\ ScoreInv /\ VotesInv

(* A message that neither starts a game nor sets its timer does not come   *)
(* in the way of the round under way.                                      *)
LEMMA MessagesKeepControl ==
  ASSUME GameInv, KeepsRequests,
         UNCHANGED <<round, roundOpen, score, resolver>>,
         timer' \in {0, timer},
         status' = status \/ status = "none" \/ status' = "cancelled",
         \A n \in 1 .. MaxRounds : votes[n] \subseteq votes'[n]
  PROVE  ControlInv' /\ ScoreInv' /\ VotesInv'
<1>1. ControlInv'
  BY DEF GameInv, ControlInv, OneResolution, KeepsRequests
<1>2. ScoreInv'
  BY DEF GameInv, ScoreInv, ScoreDecidesGame, WinTarget
<1>3. VotesInv'
  BY ResolverIsTyped DEF GameInv, VotesInv
<1>4. QED
  BY <1>1, <1>2, <1>3

LEMMA ReadsKeepGame ==
  ASSUME GameInv, NEW h \in TeamHandlers, ReadStep(h)
  PROVE  GameInv'
<1>0. ShapeInv /\ StakeInv
  BY DEF GameInv
<1>1. /\ UNCHANGED <<status, team, stake, round, roundOpen, expired, votes, score,
                    resolver>>
      /\ timer' \in {0, timer} /\ KeepsRequests
  BY <1>0, ReadSteps DEF roomVars, roundVars
<1>2. Members' = Members
  BY <1>1 DEF Members
<1>3. ShapeInv'
  BY <1>0, <1>1, <1>2, TeamRpsVoteAssumption DEF ShapeInv, KeepsRequests
<1>4. StakeInv'
  BY <1>0, <1>1, <1>2 DEF StakeInv, StakeMatchesParticipants
<1>5. ControlInv' /\ ScoreInv' /\ VotesInv'
  BY <1>1, MessagesKeepControl
<1>6. QED
  BY <1>3, <1>4, <1>5 DEF GameInv

LEMMA CommitsKeepGame ==
  ASSUME GameInv, NEW h \in TeamHandlers, CommitStep(h)
  PROVE  GameInv'
<1>0. ShapeInv /\ StakeInv
  BY DEF GameInv
<1>1. /\ UNCHANGED <<round, roundOpen, expired, score, timer, resolver>>
      /\ KeepsRequests
      /\ \A n \in 1 .. MaxRounds : votes[n] \subseteq votes'[n]
      /\ status' = status \/ status = "none" \/ status' = "cancelled"
  BY <1>0, CommitSteps
<1>2. RowsInv'
  BY <1>0, CommitsKeepRows
<1>3. status' \in {"none", "waiting", "playing", "finished", "cancelled"}
  BY <1>0 DEF ShapeInv, CommitStep, CreateCommit, JoinCommit, LeaveCommit,
     ChooseCommit, VoteCommit, HostRefundCommit, Refund, roomVars
<1>4. ShapeInv'
  BY <1>0, <1>1, <1>2, <1>3 DEF ShapeInv, KeepsRequests, RowsInv
<1>5. ControlInv' /\ ScoreInv' /\ VotesInv'
  BY <1>1, MessagesKeepControl
<1>6. QED
  BY <1>2, <1>4, <1>5 DEF GameInv, RowsInv

-----------------------------------------------------------------------------
(* The start, the timer and the resolution.                                *)
LEMMA StartKeepsGame ==
  ASSUME GameInv, NEW h \in TeamHandlers, StartCommit(h)
  PROVE  GameInv'
<1>0. ShapeInv /\ StakeInv /\ ControlInv /\ ScoreInv /\ VotesInv
  BY DEF GameInv
<1>1. /\ teamReq[h].op = "start" /\ status' = "playing" /\ round = 0
      /\ round' = 1 /\ roundOpen' = TRUE /\ expired' = FALSE
      /\ teamReq' = [teamReq EXCEPT ![h].op = "schedule"]
      /\ UNCHANGED <<team, stake, votes, score, timer, resolver>>
  BY <1>0 DEF StartCommit, OpenRound, RoundFree, ShapeInv
<1>2. /\ teamReq' \in [TeamHandlers -> Requests \cup {Idle}]
      /\ teamReq'[h].op = "schedule"
      /\ \A g \in TeamHandlers \ {h} : teamReq'[g] = teamReq[g]
  <2> DEFINE q == [teamReq[h] EXCEPT !.op = "schedule"]
  <2>1. teamReq[h] \in [op : {"start"}, user : Users]
    BY <1>0, <1>1 DEF ShapeInv, Requests, Idle
  <2>2. q \in [op : {"schedule"}, user : Users] /\ q.op = "schedule"
    BY <2>1
  <2>3. q \in Requests
    BY <2>2 DEF Requests
  <2>4. teamReq' = [teamReq EXCEPT ![h] = q]
    BY <1>1
  <2> HIDE DEF q
  <2>5. QED
    BY <1>0, <2>2, <2>3, <2>4 DEF ShapeInv
<1>3. Members' = Members
  BY <1>1 DEF Members
<1>4. ShapeInv'
  <2>1. JoinsFindRoom'
    BY <1>1 DEF JoinsFindRoom
  <2>2. round' \in 0 .. MaxRounds
    BY <1>1, TeamRpsVoteAssumption
  <2>3. roundOpen' \in BOOLEAN /\ expired' \in BOOLEAN
    BY <1>1, Zenon
  <2>4. round' > 0
    BY <1>1
  <2>5. QED
    BY <1>0, <1>1, <1>2, <1>3, <2>1, <2>2, <2>3, <2>4 DEF ShapeInv
<1>5. StakeInv'
  BY <1>0, <1>1, <1>3 DEF StakeInv, StakeMatchesParticipants
<1>6. timer = 0 /\ resolver = Idle /\ \A g \in TeamHandlers : teamReq[g].op # "schedule"
  <2>1. timer = 0
    BY <1>0, <1>1 DEF ControlInv, OneResolution
  <2>2. ~roundOpen
    BY <1>0, <1>1 DEF ShapeInv
  <2>3. QED
    BY <1>0, <1>1, <2>1, <2>2 DEF ControlInv
<1>7. ControlInv'
  BY <1>1, <1>2, <1>6 DEF ControlInv, OneResolution, Idle
<1>8. ScoreInv'
  BY <1>0, <1>1 DEF ScoreInv, ScoreDecidesGame, WinTarget, Sides
<1>9. VotesInv'
  BY <1>0, <1>1 DEF VotesInv
<1>10. QED
  BY <1>4, <1>5, <1>7, <1>8, <1>9 DEF GameInv

(* The steps of the server leave the participants alone.                   *)
LEMMA ServerKeepsStake ==
  ASSUME StakeInv, UNCHANGED <<team, stake>>, status' = status \/ status' # "none"
  PROVE  StakeInv' /\ Members' = Members
<1>1. Members' = Members
  BY DEF Members
<1>2. QED
  BY <1>1 DEF StakeInv, StakeMatchesParticipants

LEMMA ScheduleKeepsGame ==
  ASSUME GameInv, NEW h \in TeamHandlers, StartSchedule(h)
  PROVE  GameInv'
<1>0. ShapeInv /\ StakeInv /\ ControlInv /\ ScoreInv /\ VotesInv
  BY DEF GameInv
<1>1. /\ teamReq[h].op = "schedule" /\ timer' = 1
      /\ teamReq' = [teamReq EXCEPT ![h] = Idle]
      /\ UNCHANGED <<status, team, stake, round, roundOpen, expired, votes, score,
                     resolver>>
  BY DEF StartSchedule, Done, roomVars, roundVars
<1>2. StakeInv' /\ Members' = Members
  BY <1>0, <1>1, ServerKeepsStake
<1>3. round = 1 /\ roundOpen /\ resolver = Idle
      /\ \A g \in TeamHandlers : teamReq[g].op = "schedule" => g = h
  BY <1>0, <1>1 DEF ControlInv
<1>4. \A g \in TeamHandlers : teamReq'[g].op # "schedule"
  BY <1>0, <1>1, <1>3 DEF ShapeInv, Idle
<1>5. ShapeInv'
  <2>1. JoinsFindRoom'
    BY <1>0, <1>1 DEF JoinsFindRoom, ShapeInv, Idle
  <2>2. QED
    BY <1>0, <1>1, <1>2, <1>3, <2>1, TeamRpsVoteAssumption DEF ShapeInv
<1>6. ControlInv'
  BY <1>0, <1>1, <1>3, <1>4 DEF ControlInv, OneResolution, Idle
<1>7. ScoreInv' /\ VotesInv'
  BY <1>0, <1>1, <1>3 DEF ScoreInv, ScoreDecidesGame, VotesInv, WinTarget
<1>8. QED
  BY <1>2, <1>5, <1>6, <1>7 DEF GameInv

LEMMA TimeKeepsGame ==
  ASSUME GameInv, InputEnds
  PROVE  GameInv'
<1>0. ShapeInv /\ StakeInv /\ ControlInv /\ ScoreInv /\ VotesInv
  BY DEF GameInv
<1>1. /\ expired' = TRUE
      /\ UNCHANGED <<status, team, stake, round, roundOpen, votes, score, timer,
                     resolver, teamReq>>
  BY DEF InputEnds, roomVars, serverVars
<1>2. StakeInv' /\ Members' = Members
  BY <1>0, <1>1, ServerKeepsStake
<1>3. expired' \in BOOLEAN
  BY <1>1, Zenon
<1>4. ShapeInv'
  BY <1>0, <1>1, <1>2, <1>3 DEF ShapeInv, JoinsFindRoom
<1>5. ControlInv'
  BY <1>0, <1>1 DEF ControlInv, OneResolution
<1>6. ScoreInv' /\ VotesInv'
  BY <1>0, <1>1 DEF ScoreInv, ScoreDecidesGame, VotesInv
<1>7. QED
  BY <1>2, <1>4, <1>5, <1>6 DEF GameInv

LEMMA CrashKeepsGame ==
  ASSUME GameInv, Crash
  PROVE  GameInv'
<1>0. ShapeInv /\ StakeInv /\ ControlInv /\ ScoreInv /\ VotesInv
  BY DEF GameInv
<1>1. /\ timer' = 0 /\ resolver' = Idle
      /\ teamReq' = [h \in TeamHandlers |-> Idle]
      /\ UNCHANGED <<status, team, stake, round, roundOpen, expired, votes, score>>
  BY DEF Crash, roomVars, roundVars
<1>2. StakeInv' /\ Members' = Members
  BY <1>0, <1>1, ServerKeepsStake
<1>3. \A h \in TeamHandlers : teamReq'[h].op = "idle"
  BY <1>1 DEF Idle
<1>4. ShapeInv'
  <2>1. JoinsFindRoom'
    BY <1>3 DEF JoinsFindRoom
  <2>2. QED
    BY <1>0, <1>1, <1>2, <2>1, TeamRpsVoteAssumption DEF ShapeInv
<1>5. ControlInv'
  BY <1>1, <1>3 DEF ControlInv, OneResolution, Idle
<1>6. ScoreInv' /\ VotesInv'
  BY <1>0, <1>1 DEF ScoreInv, ScoreDecidesGame, VotesInv, Idle
<1>7. QED
  BY <1>2, <1>4, <1>5, <1>6 DEF GameInv

(* While a resolution is under way, nothing else is about the round.       *)
LEMMA NothingElse ==
  ASSUME GameInv, timer # 0 \/ resolver # Idle
  PROVE  /\ \A h \in TeamHandlers : teamReq[h].op # "schedule"
         /\ round > 0
BY DEF GameInv, ControlInv, OneResolution, ShapeInv

(* A step of the timer or the resolver that writes no vote and no score.   *)
LEMMA ResolverMoves ==
  ASSUME GameInv, timer # 0 \/ resolver # Idle,
         UNCHANGED <<team, stake, round, expired, votes, score, teamReq>>,
         timer' = 0, resolver' \in Resolvers \cup {Idle},
         roundOpen' \in BOOLEAN, roundOpen' => roundOpen,
         resolver'.op \in {"claim", "commit"} =>
           roundOpen' /\ resolver'.round = round,
         resolver'.op # "schedule", VotesInv',
         status' \in {status, "finished"}
  PROVE  GameInv'
<1>0. ShapeInv /\ StakeInv /\ ControlInv /\ ScoreInv /\ VotesInv
  BY DEF GameInv
<1>1. StakeInv' /\ Members' = Members
  BY <1>0, ServerKeepsStake
<1>2. ShapeInv'
  BY <1>0, <1>1, TeamRpsVoteAssumption DEF ShapeInv, JoinsFindRoom
<1>3. ControlInv'
  BY <1>0, NothingElse DEF ControlInv, OneResolution
<1>4. ScoreInv'
  BY <1>0 DEF ScoreInv, ScoreDecidesGame, WinTarget
<1>5. QED
  BY <1>1, <1>2, <1>3, <1>4 DEF GameInv

LEMMA ResolverKeepsGame ==
  ASSUME GameInv,
         \/ TimerFires \/ ResolveRead \/ ResolveNothing \/ ResolveThrows
         \/ ResolverRefundRead \/ ResolverRefundCommit
  PROVE  GameInv'
<1> USE DEF roomVars, roundVars
<1>0. ShapeInv /\ ControlInv
  BY DEF GameInv
<1>1. CASE TimerFires
  <2>1. /\ timer # 0 /\ timer = round /\ roundOpen /\ timer \in 1 .. MaxRounds
        /\ timer' = 0 /\ resolver' = [op |-> "claim", round |-> timer]
        /\ UNCHANGED <<status, team, stake, round, roundOpen, expired, votes, score,
                       teamReq>>
    BY <1>0, <1>1 DEF TimerFires, TimerDue, ControlInv, OneResolution, ShapeInv
  <2>2. resolver' \in Resolvers /\ VotesInv'
    BY <2>1 DEF Resolvers, VotesInv
  <2>3. roundOpen' \in BOOLEAN
    BY <1>0, <2>1 DEF ShapeInv
  <2>4. QED
    BY <2>1, <2>2, <2>3, ResolverMoves
<1>2. CASE ResolveRead
  <2>1. /\ resolver.op = "claim" /\ resolver # Idle /\ timer = 0
        /\ resolver.round = round /\ round \in 1 .. MaxRounds /\ roundOpen
        /\ resolver' = [op |-> "commit", round |-> resolver.round,
                        team |-> team, voted |-> votes[resolver.round]]
        /\ UNCHANGED <<status, team, stake, round, roundOpen, expired, votes, score,
                       timer, teamReq>>
    BY <1>0, <1>2, ResolverIsTyped DEF ResolveRead, ControlInv
  <2>2. votes[resolver.round] \in SUBSET Users
    BY <1>0, <2>1 DEF ShapeInv, Members
  <2>3. resolver' \in Resolvers /\ VotesInv'
    BY <1>0, <2>1, <2>2 DEF Resolvers, VotesInv, ShapeInv
  <2>4. roundOpen' \in BOOLEAN
    BY <1>0, <2>1 DEF ShapeInv
  <2>5. QED
    BY <2>1, <2>3, <2>4, ResolverMoves
<1>3. CASE ResolveNothing
  <2>1. /\ resolver # Idle /\ timer = 0 /\ resolver' = Idle /\ roundOpen' = FALSE
        /\ UNCHANGED <<status, team, stake, round, expired, votes, score,
                       timer, teamReq>>
    BY <1>0, <1>3, ResolverIsTyped DEF ResolveNothing, ControlInv
  <2>2. resolver'.op = "idle" /\ VotesInv'
    BY <2>1 DEF Idle, VotesInv
  <2>3. roundOpen' \in BOOLEAN /\ ~roundOpen'
    BY <2>1, Zenon
  <2>4. QED
    BY <2>1, <2>2, <2>3, ResolverMoves
<1>4. CASE ResolveThrows
  <2>1. /\ resolver # Idle /\ timer' = 0 /\ resolver' = [op |-> "refund"]
        /\ UNCHANGED <<status, team, stake, round, roundOpen, expired, votes, score,
                       teamReq>>
    BY <1>0, <1>4, ResolverIsTyped DEF ResolveThrows
  <2>2. resolver' \in Resolvers /\ resolver'.op = "refund" /\ VotesInv'
    BY <2>1 DEF Resolvers, VotesInv
  <2>3. roundOpen' \in BOOLEAN
    BY <1>0, <2>1 DEF ShapeInv
  <2>4. QED
    BY <2>1, <2>2, <2>3, ResolverMoves
<1>5. CASE ResolverRefundRead
  <2>1. /\ resolver # Idle /\ timer = 0
        /\ resolver' \in {[op |-> "refundCommit", paid |-> Members], Idle}
        /\ UNCHANGED <<status, team, stake, round, roundOpen, expired, votes, score,
                       timer, teamReq>>
    BY <1>0, <1>5, ResolverIsTyped DEF ResolverRefundRead, ControlInv
  <2>2. Members \in SUBSET Users
    BY DEF Members
  <2>3. /\ resolver' \in Resolvers \cup {Idle} /\ VotesInv'
        /\ resolver'.op \in {"refundCommit", "idle"}
    BY <2>1, <2>2 DEF Resolvers, Idle, VotesInv
  <2>4. roundOpen' \in BOOLEAN
    BY <1>0, <2>1 DEF ShapeInv
  <2>5. QED
    BY <2>1, <2>3, <2>4, ResolverMoves
<1>6. CASE ResolverRefundCommit
  <2>1. /\ resolver # Idle /\ timer = 0 /\ resolver' = Idle /\ status' = "finished"
        /\ UNCHANGED <<team, stake, round, roundOpen, expired, votes, score,
                       timer, teamReq>>
    BY <1>0, <1>6, ResolverIsTyped DEF ResolverRefundCommit, Refund, ControlInv
  <2>2. resolver'.op = "idle" /\ VotesInv'
    BY <2>1 DEF Idle, VotesInv
  <2>3. roundOpen' \in BOOLEAN
    BY <1>0, <2>1 DEF ShapeInv
  <2>4. QED
    BY <2>1, <2>2, <2>3, ResolverMoves
<1>7. QED
  BY <1>1, <1>2, <1>3, <1>4, <1>5, <1>6

-----------------------------------------------------------------------------
(* A round that is counted gives a team that has not won yet one point.    *)
LEMMA OnePoint ==
  ASSUME ScoreInv, ShapeInv, roundOpen, NEW o \in Sides \cup {"draw"}
  PROVE  LET s == NewScore(o) IN
         /\ s \in [Sides -> 0 .. WinTarget]
         /\ s["A"] + s["B"] <= round
         /\ ~(s["A"] = WinTarget /\ s["B"] = WinTarget)
         /\ Finished(s) <=> s["A"] = WinTarget \/ s["B"] = WinTarget
<1> DEFINE s == NewScore(o)
<1>1. /\ score \in [Sides -> 0 .. 2] /\ round \in Int
      /\ score["A"] < 2 /\ score["B"] < 2 /\ score["A"] + score["B"] < round
      /\ score["A"] \in 0 .. 2 /\ score["B"] \in 0 .. 2
  BY DEF ScoreInv, ShapeInv, WinTarget, Sides
<1>2. CASE o = "draw"
  <2>1. s = score
    BY <1>2 DEF NewScore
  <2>2. QED
    BY <1>1, <2>1 DEF Finished, WinTarget, Sides
<1>3. CASE o = "A"
  <2>1. /\ s \in [Sides -> 0 .. 2]
        /\ s["A"] = score["A"] + 1 /\ s["B"] = score["B"]
    BY <1>1, <1>3 DEF NewScore, Sides
  <2>2. QED
    BY <1>1, <2>1 DEF Finished, WinTarget, Sides
<1>4. CASE o = "B"
  <2>1. /\ s \in [Sides -> 0 .. 2]
        /\ s["B"] = score["B"] + 1 /\ s["A"] = score["A"]
    BY <1>1, <1>4 DEF NewScore, Sides
  <2>2. QED
    BY <1>1, <2>1 DEF Finished, WinTarget, Sides
<1>5. QED
  BY <1>2, <1>3, <1>4 DEF Sides

(* What a resolution that commits knows, and the votes it completes.       *)
LEMMA ResolutionFacts ==
  ASSUME GameInv, NEW o \in Sides \cup {"draw"}, ResolveCommon(o)
  PROVE  /\ resolver # Idle /\ timer = 0 /\ roundOpen
         /\ resolver.round = round /\ round \in 1 .. MaxRounds
         /\ \A h \in TeamHandlers : teamReq[h].op # "schedule"
         /\ score' = NewScore(o)
         /\ votes' \in [1 .. MaxRounds -> SUBSET Members]
         /\ {u \in Users : resolver.team[u] \in Sides} \subseteq votes'[round]
<1>0. ShapeInv /\ ControlInv /\ VotesInv
  BY DEF GameInv
<1>1. resolver.op = "commit" /\ resolver # Idle
  BY <1>0, ResolverIsTyped DEF ResolveCommon
<1>2. /\ timer = 0 /\ roundOpen /\ resolver.round = round
      /\ round \in 1 .. MaxRounds
  BY <1>0, <1>1, ResolverIsTyped DEF ControlInv
<1>3. \A h \in TeamHandlers : teamReq[h].op # "schedule"
  BY <1>1, NothingElse
<1>4. /\ votes' = [votes EXCEPT ![round] = votes[round] \cup Missing]
      /\ Missing \subseteq Members /\ score' = NewScore(o)
  BY <1>2 DEF ResolveCommon, AutoPicked
<1>5. votes' \in [1 .. MaxRounds -> SUBSET Members]
  BY <1>0, <1>2, <1>4 DEF ShapeInv
<1>6. votes'[round] = votes[round] \cup Missing /\ resolver.voted \subseteq votes[round]
  BY <1>0, <1>1, <1>2, <1>4 DEF ShapeInv, VotesInv
<1>7. {u \in Users : resolver.team[u] \in Sides} \subseteq votes'[round]
  BY <1>6 DEF Missing
<1>8. QED
  BY <1>1, <1>2, <1>3, <1>4, <1>5, <1>7

LEMMA FinishKeepsGame ==
  ASSUME GameInv, NEW o \in Sides \cup {"draw"}, FinishCommit(o)
  PROVE  GameInv'
<1>0. ShapeInv /\ StakeInv /\ ControlInv /\ ScoreInv
  BY DEF GameInv
<1>1. /\ timer' = 0 /\ resolver' = Idle /\ status' = "finished" /\ roundOpen' = FALSE
      /\ UNCHANGED <<team, stake, round, expired, teamReq>>
  BY DEF FinishCommit
<1>2. /\ roundOpen /\ score' = NewScore(o)
      /\ votes' \in [1 .. MaxRounds -> SUBSET Members]
      /\ \A h \in TeamHandlers : teamReq[h].op # "schedule"
  BY ResolutionFacts DEF FinishCommit
<1>3. StakeInv' /\ Members' = Members
  BY <1>0, <1>1, ServerKeepsStake
<1>4. roundOpen' \in BOOLEAN /\ ~roundOpen'
  BY <1>1, Zenon
<1>5. ShapeInv'
  BY <1>0, <1>1, <1>2, <1>3, <1>4, TeamRpsVoteAssumption DEF ShapeInv, JoinsFindRoom
<1>6. ControlInv' /\ VotesInv'
  BY <1>1, <1>2 DEF ControlInv, OneResolution, VotesInv, Idle
<1>7. /\ score' \in [Sides -> 0 .. WinTarget]
      /\ score'["A"] + score'["B"] <= round'
      /\ ~(score'["A"] = WinTarget /\ score'["B"] = WinTarget)
  BY <1>0, <1>1, <1>2, OnePoint
<1>8. ScoreInv'
  BY <1>1, <1>4, <1>7 DEF ScoreInv, ScoreDecidesGame
<1>9. QED
  BY <1>3, <1>5, <1>6, <1>8 DEF GameInv

LEMMA NextRoundKeepsGame ==
  ASSUME GameInv, NEW o \in Sides \cup {"draw"}, NextRoundCommit(o)
  PROVE  GameInv'
<1>0. ShapeInv /\ StakeInv /\ ControlInv /\ ScoreInv
  BY DEF GameInv
<1>1. /\ roundOpen /\ score' = NewScore(o) /\ timer = 0
      /\ resolver.round = round /\ round \in 1 .. MaxRounds
      /\ votes' \in [1 .. MaxRounds -> SUBSET Members]
      /\ \A h \in TeamHandlers : teamReq[h].op # "schedule"
  BY ResolutionFacts DEF NextRoundCommit
<1>2. /\ roundOpen' = TRUE /\ expired' = FALSE /\ round' = round + 1
      /\ round < MaxRounds /\ ~Finished(score')
      /\ resolver' = [op |-> "schedule", round |-> round + 1]
      /\ UNCHANGED <<status, team, stake, timer, teamReq>>
  BY <1>1 DEF NextRoundCommit, OpenRound, roomVars
<1>3. StakeInv' /\ Members' = Members
  BY <1>0, <1>2, ServerKeepsStake
<1>4. roundOpen' \in BOOLEAN /\ expired' \in BOOLEAN
  BY <1>2, Zenon
<1>5. round' \in 1 .. MaxRounds
  BY <1>1, <1>2, TeamRpsVoteAssumption
<1>6. resolver' \in Resolvers /\ resolver'.op = "schedule" /\ resolver'.round = round'
  BY <1>2, <1>5 DEF Resolvers
<1>7. ShapeInv'
  BY <1>0, <1>1, <1>2, <1>3, <1>4, <1>5, <1>6 DEF ShapeInv, JoinsFindRoom
<1>8. ControlInv' /\ VotesInv'
  BY <1>1, <1>2, <1>5, <1>6 DEF ControlInv, OneResolution, VotesInv
<1>9. /\ score' \in [Sides -> 0 .. WinTarget]
      /\ score'["A"] + score'["B"] <= round
      /\ score'["A"] # WinTarget /\ score'["B"] # WinTarget
  BY <1>0, <1>1, <1>2, OnePoint
<1>10. ScoreInv'
  BY <1>1, <1>2, <1>9 DEF ScoreInv, ScoreDecidesGame, WinTarget, Sides
<1>11. QED
  BY <1>3, <1>7, <1>8, <1>10 DEF GameInv

LEMMA ResolveScheduleKeepsGame ==
  ASSUME GameInv, ResolveSchedule
  PROVE  GameInv'
<1>0. ShapeInv /\ StakeInv /\ ControlInv /\ ScoreInv /\ VotesInv
  BY DEF GameInv
<1>1. /\ resolver # Idle /\ resolver.round = round /\ roundOpen
      /\ round \in 1 .. MaxRounds /\ timer' = round /\ resolver' = Idle
      /\ UNCHANGED <<status, team, stake, round, roundOpen, expired, votes, score,
                     teamReq>>
  BY <1>0, ResolverIsTyped
     DEF ResolveSchedule, Armed, ControlInv, roomVars, roundVars
<1>2. \A h \in TeamHandlers : teamReq[h].op # "schedule"
  BY <1>1, NothingElse
<1>3. StakeInv' /\ Members' = Members
  BY <1>0, <1>1, ServerKeepsStake
<1>4. ShapeInv'
  BY <1>0, <1>1, <1>3 DEF ShapeInv, JoinsFindRoom
<1>5. ControlInv' /\ VotesInv'
  BY <1>1, <1>2 DEF ControlInv, OneResolution, VotesInv, Idle
<1>6. ScoreInv'
  BY <1>0, <1>1 DEF ScoreInv, ScoreDecidesGame
<1>7. QED
  BY <1>3, <1>4, <1>5, <1>6 DEF GameInv

-----------------------------------------------------------------------------
LEMMA GameInitially == TeamRpsVoteInit => MoneyInv /\ GameInv
<1> SUFFICES ASSUME TeamRpsVoteInit PROVE MoneyInv /\ GameInv
  OBVIOUS
<1>1. MoneyInv
  <2>1. StartCoin \in [Users -> 0 .. MaxInt] /\ MaxInt \in Nat
    BY LedgerAssumption
  <2>2. QED
    BY <2>1 DEF TeamRpsVoteInit, LedgerInit, MoneyInv, LedgerExplainsCoins, Int4
<1>2. Members = {}
  BY DEF TeamRpsVoteInit, Members
<1>3. \A h \in TeamHandlers : teamReq[h].op = "idle"
  BY DEF TeamRpsVoteInit, Idle
<1>4. ShapeInv
  <2>1. roundOpen \in BOOLEAN /\ expired \in BOOLEAN /\ ~roundOpen
    BY Zenon DEF TeamRpsVoteInit
  <2>2. JoinsFindRoom
    BY <1>3 DEF JoinsFindRoom
  <2>3. /\ team \in [Users -> {"out", "none"} \cup Sides]
        /\ votes \in [1 .. MaxRounds -> SUBSET Members]
        /\ teamReq \in [TeamHandlers -> Requests \cup {Idle}]
    BY DEF TeamRpsVoteInit
  <2>4. QED
    BY <2>1, <2>2, <2>3, TeamRpsVoteAssumption DEF TeamRpsVoteInit, ShapeInv
<1>5. StakeInv
  <2>1. Cardinality(Members) = 0
    BY <1>2, FS_EmptySet
  <2>2. QED
    BY <1>2, <2>1, TeamRpsVoteAssumption, LedgerAssumption
       DEF TeamRpsVoteInit, StakeInv, StakeMatchesParticipants
<1>6. ControlInv /\ VotesInv
  BY <1>3 DEF TeamRpsVoteInit, ControlInv, OneResolution, VotesInv, Idle
<1>7. ScoreInv
  BY DEF TeamRpsVoteInit, ScoreInv, ScoreDecidesGame, WinTarget, Sides
<1>8. QED
  BY <1>1, <1>4, <1>5, <1>6, <1>7 DEF GameInv

LEMMA GameNext == GameInv /\ [TeamRpsVoteNext]_vars => GameInv'
<1> SUFFICES ASSUME GameInv, [TeamRpsVoteNext]_vars PROVE GameInv'
  OBVIOUS
<1>1. ASSUME NEW h \in TeamHandlers, ReadStep(h) \/ CommitStep(h)
      PROVE  GameInv'
  BY <1>1, ReadsKeepGame, CommitsKeepGame
<1>2. CASE GameStep
  <2>1. ASSUME NEW h \in TeamHandlers, StartCommit(h) \/ StartSchedule(h)
        PROVE  GameInv'
    BY <2>1, StartKeepsGame, ScheduleKeepsGame
  <2>2. CASE InputEnds \/ Crash
    BY <2>2, TimeKeepsGame, CrashKeepsGame
  <2>3. ASSUME NEW o \in Sides \cup {"draw"}, FinishCommit(o) \/ NextRoundCommit(o)
        PROVE  GameInv'
    BY <2>3, FinishKeepsGame, NextRoundKeepsGame
  <2>4. QED
    BY <1>2, <2>1, <2>2, <2>3, ResolverKeepsGame, ResolveScheduleKeepsGame
       DEF GameStep, ResolverNext
<1>3. CASE UNCHANGED vars
  <2>1. Members' = Members
    BY <1>3 DEF vars, roomVars, Members
  <2>2. QED
    BY <1>3, <2>1
       DEF GameInv, ShapeInv, JoinsFindRoom, StakeInv, StakeMatchesParticipants,
           ControlInv, OneResolution, ScoreInv, ScoreDecidesGame, VotesInv,
           vars, roomVars, roundVars, serverVars
<1>4. QED
  BY <1>1, <1>2, <1>3, StepCases

(* The inductive invariant.                                                *)
LEMMA InvHolds == TeamRpsVoteSpec => [](MoneyInv /\ GameInv)
BY GameInitially, MoneyNext, GameNext, PTL DEF TeamRpsVoteSpec

-----------------------------------------------------------------------------
(* The stake the room shows is what its participants have staked.          *)
THEOREM StakeCorrect == TeamRpsVoteSpec => []StakeMatchesParticipants
<1>1. GameInv => StakeMatchesParticipants
  BY DEF GameInv, StakeInv
<1>2. QED
  BY <1>1, InvHolds, PTL

(* Rows, requests, the timer and the resolver keep their shape, a vote     *)
(* keeps its participant, and the score stops at the target.               *)
THEOREM TypeCorrect == TeamRpsVoteSpec => []TypeOK
<1>1. MoneyInv /\ GameInv => TypeOK
  <2> SUFFICES ASSUME MoneyInv, GameInv PROVE TypeOK
    OBVIOUS
  <2>1. stake \in Nat
    BY MembersAreFinite, TeamRpsVoteAssumption, LedgerAssumption
       DEF GameInv, StakeInv, StakeMatchesParticipants
  <2>2. QED
    BY <2>1 DEF MoneyInv, GameInv, ShapeInv, ScoreInv, TypeOK
<1>2. QED
  BY <1>1, InvHolds, PTL

(* The rows account for every coin a room takes, pays out and refunds.     *)
THEOREM LedgerCorrect == TeamRpsVoteSpec => []LedgerExplainsCoins
<1>1. MoneyInv => LedgerExplainsCoins
  BY DEF MoneyInv
<1>2. QED
  BY <1>1, InvHolds, PTL

(* The score never runs ahead of the rounds, at most one team reaches the  *)
(* target, and then no round is left to resolve.                           *)
THEOREM ScoreCorrect == TeamRpsVoteSpec => []ScoreDecidesGame
<1>1. GameInv => ScoreDecidesGame
  BY DEF GameInv, ScoreInv
<1>2. QED
  BY <1>1, InvHolds, PTL

(* A timer is only set while nothing resolves a round, for the open round. *)
THEOREM OneResolutionCorrect == TeamRpsVoteSpec => []OneResolution
<1>1. GameInv => OneResolution
  BY DEF GameInv, ControlInv
<1>2. QED
  BY <1>1, InvHolds, PTL

(* Rounds are numbered in order, and the next one opens when everyone who  *)
(* was read on a team has a vote in the last.                              *)
THEOREM RoundsCorrect == TeamRpsVoteSpec => RoundsInOrder
<1> DEFINE InOrder == round' # round =>
             /\ round' = round + 1
             /\ round > 0 =>
                  {u \in Users : resolver.team[u] \in Sides} \subseteq votes'[round]
<1>1. ASSUME GameInv, [TeamRpsVoteNext]_vars PROVE InOrder
  <2>0. ShapeInv
    BY <1>1 DEF GameInv
  <2>1. ASSUME NEW h \in TeamHandlers, StartCommit(h) PROVE InOrder
    BY <2>0, <2>1 DEF StartCommit, OpenRound, RoundFree, ShapeInv
  <2>2. ASSUME NEW o \in Sides \cup {"draw"}, NextRoundCommit(o) PROVE InOrder
    <3>1. /\ resolver.round = round
          /\ {u \in Users : resolver.team[u] \in Sides} \subseteq votes'[round]
      BY <1>1, <2>2, ResolutionFacts DEF NextRoundCommit
    <3>2. QED
      BY <2>2, <3>1 DEF NextRoundCommit, OpenRound
  <2>3. ASSUME NEW h \in TeamHandlers, ReadStep(h) \/ CommitStep(h)
        PROVE  InOrder
    BY <2>0, <2>3, ReadSteps, CommitSteps DEF roundVars
  <2>4. CASE UNCHANGED round
    BY <2>4
  <2>5. QED
    BY <1>1, <2>1, <2>2, <2>3, <2>4, StepCases
       DEF GameStep, ResolverNext, StartSchedule, InputEnds, TimerFires,
           ResolveRead, ResolveNothing, ResolveThrows, FinishCommit,
           ResolveSchedule, ResolverRefundRead, ResolverRefundCommit, Crash,
           vars, roundVars
<1>2. QED
  BY <1>1, InvHolds, PTL DEF TeamRpsVoteSpec, RoundsInOrder

(* Each message that neither fails a refund nor clears the timer leaves    *)
(* the timer, the game and every refund under way as they are, or ends the *)
(* room.                                                                   *)
LEMMA RefundsGoOn ==
  ASSUME ShapeInv, NEW h \in TeamHandlers, ~HostClearTimer(h),
         ReadStep(h) \/ CommitStep(h)
  PROVE  /\ timer' = timer
         /\ status' = status \/ status' # "playing"
         /\ \/ Refunding(h) /\ TeamFail(h)
            \/ status' # "playing"
            \/ \A g \in TeamHandlers : Refunding(g) => Refunding(g)'
<1>0. teamReq \in [TeamHandlers -> Requests \cup {Idle}]
  BY DEF ShapeInv
<1>1. timer' = timer /\ (status' = status \/ status' # "playing")
  BY DEF ReadStep, CreateRead, JoinReadRoom, JoinReadCoin, LeaveRead, ChooseRead,
     StartRead, VoteRead, TeamFail, HostRefundRead, CommitStep, CreateCommit,
     JoinCommit, LeaveCommit, ChooseCommit, VoteCommit, HostRefundCommit, Refund,
     roomVars
<1>2. CASE HostRefundCommit(h)
  BY <1>1, <1>2 DEF HostRefundCommit, Refund
<1>3. CASE HostRefundRead(h)
  BY <1>0, <1>1, <1>3 DEF HostRefundRead, Refunding
<1>4. ASSUME NEW r, ~Refunding(h), teamReq' = [teamReq EXCEPT ![h] = r]
      PROVE  \A g \in TeamHandlers : Refunding(g) => Refunding(g)'
  BY <1>0, <1>4 DEF Refunding
<1>5. CASE TeamFail(h)
  BY <1>1, <1>4, <1>5 DEF TeamFail, Done
<1>6. CASE CreateCommit(h) \/ JoinCommit(h) \/ LeaveCommit(h) \/ ChooseCommit(h)
           \/ VoteCommit(h) \/ JoinReadCoin(h)
  BY <1>1, <1>4, <1>6
     DEF CreateCommit, JoinCommit, LeaveCommit, ChooseCommit, VoteCommit,
         JoinReadCoin, Done, Refunding
<1>7. CASE \/ CreateRead(h) \/ StartRead(h)
           \/ \E u \in Users :
                \/ JoinReadRoom(h, u) \/ LeaveRead(h, u) \/ VoteRead(h, u)
                \/ \E t \in Sides : ChooseRead(h, u, t)
  <2>1. ~Refunding(h) /\ \E r : teamReq' = [teamReq EXCEPT ![h] = r]
    BY <1>7 DEF CreateRead, StartRead, JoinReadRoom, LeaveRead, VoteRead,
       ChooseRead, Begin, Refunding, Idle
  <2>2. QED
    BY <1>1, <1>4, <2>1
<1>8. QED
  BY <1>2, <1>3, <1>5, <1>6, <1>7 DEF ReadStep, CommitStep

(* A game is left without a timer, a resolution, a start that is about to  *)
(* set one and a refund under way only by a restart, or by the failing     *)
(* refund of a host whose leave crossed the start.                         *)
THEOREM StrandCorrect == TeamRpsVoteSpec => OnlyFailuresStrand
<1> DEFINE Failed == \E h \in TeamHandlers : Refunding(h) /\ TeamFail(h)
           Explained == ~Stranded /\ Stranded' => Crash \/ Failed
<1>1. ASSUME GameInv, [TeamRpsVoteNext]_vars PROVE Explained
  <2>0. ShapeInv /\ ControlInv
    BY <1>1 DEF GameInv
  <2>1. ASSUME NEW h \in TeamHandlers, ~HostClearTimer(h),
               ReadStep(h) \/ CommitStep(h)
        PROVE  Explained
    <3>1. resolver' = resolver /\ KeepsRequests
      BY <2>0, <2>1, ReadSteps, CommitSteps
    <3>2. /\ timer' = timer
          /\ status' = status \/ status' # "playing"
          /\ \/ Refunding(h) /\ TeamFail(h)
             \/ status' # "playing"
             \/ \A g \in TeamHandlers : Refunding(g) => Refunding(g)'
      BY <2>0, <2>1, RefundsGoOn
    <3>3. QED
      BY <3>1, <3>2 DEF Stranded, KeepsRequests
  <2>2. ASSUME NEW h \in TeamHandlers, HostClearTimer(h) PROVE Explained
    <3>1. Refunding(h)'
      BY <2>0, <2>2, ClearMovesOn DEF ShapeInv, Refunding
    <3>2. QED
      BY <3>1 DEF Stranded
  <2>3. ASSUME NEW h \in TeamHandlers, StartCommit(h) PROVE Explained
    <3>1. teamReq'[h].op = "schedule"
      BY <2>0, <2>3 DEF StartCommit, ShapeInv, Requests, Idle
    <3>2. QED
      BY <3>1 DEF Stranded
  <2>4. ASSUME NEW h \in TeamHandlers, StartSchedule(h) PROVE Explained
    BY <2>4 DEF StartSchedule, Stranded
  <2>5. CASE InputEnds \/ UNCHANGED vars
    BY <2>5 DEF InputEnds, Stranded, Refunding, vars, roomVars, serverVars
  <2>6. CASE TimerFires \/ ResolveRead \/ ResolveThrows
    BY <2>6 DEF TimerFires, ResolveRead, ResolveThrows, Stranded, Idle
  <2>7. CASE ResolveNothing \/ ResolverRefundRead \/ ResolverRefundCommit
    BY <2>0, <2>7, MembersAreFinite
       DEF ControlInv, ResolveNothing, ResolverRefundRead, Refundable,
           ResolverRefundCommit, Refund, Stranded, Idle, roomVars
  <2>8. ASSUME NEW o \in Sides \cup {"draw"}, FinishCommit(o) \/ NextRoundCommit(o)
        PROVE  Explained
    BY <2>8 DEF FinishCommit, NextRoundCommit, Stranded, Idle
  <2>9. CASE ResolveSchedule
    <3>1. timer' \in 1 .. MaxRounds
      BY <2>0, <2>9, ResolverIsTyped DEF ResolveSchedule, Armed
    <3>2. QED
      BY <3>1 DEF Stranded
  <2>10. CASE Crash
    BY <2>10
  <2>11. QED
    BY <1>1, <2>1, <2>2, <2>3, <2>4, <2>5, <2>6, <2>7, <2>8, <2>9, <2>10, StepCases
       DEF GameStep, ResolverNext
<1>2. GameInv /\ [TeamRpsVoteNext]_vars => [Explained]_vars
  BY <1>1
<1>3. QED
  BY <1>2, InvHolds, PTL DEF TeamRpsVoteSpec, OnlyFailuresStrand

-----------------------------------------------------------------------------
(* A message that has found a free seat has one reserved: it may be taken  *)
(* twice, but at most as often as there are messages.                      *)
Joining == {h \in TeamHandlers : teamReq[h].op \in {"joinCoin", "join"}}

SeatsInv ==
  Cardinality(Members) + Cardinality(Joining)
    <= MaxPlayers + Cardinality(TeamHandlers) - 1

LEMMA JoiningIsFinite ==
  /\ IsFiniteSet(Joining) /\ Cardinality(Joining) \in Nat
  /\ Cardinality(TeamHandlers) \in Nat
  /\ Cardinality(Joining) <= Cardinality(TeamHandlers)
<1>1. Joining \subseteq TeamHandlers
  BY DEF Joining
<1>2. QED
  BY <1>1, FS_Subset, FS_CardinalityType, TeamRpsVoteAssumption

LEMMA JoiningIsFiniteNext ==
  /\ IsFiniteSet(Joining') /\ Cardinality(Joining') \in Nat
  /\ Cardinality(Joining') <= Cardinality(TeamHandlers)
<1>1. Joining' \subseteq TeamHandlers
  BY DEF Joining
<1>2. QED
  BY <1>1, FS_Subset, FS_CardinalityType, TeamRpsVoteAssumption

(* Nobody new takes a seat or is promised one.                             *)
LEMMA NobodyJoins ==
  ASSUME SeatsInv, Members' \subseteq Members, Joining' \subseteq Joining
  PROVE  SeatsInv'
<1>1. /\ Cardinality(Members') <= Cardinality(Members)
      /\ Cardinality(Members') \in Nat
  BY MembersAreFinite, FS_Subset, FS_CardinalityType
<1>2. Cardinality(Joining') <= Cardinality(Joining)
  BY JoiningIsFinite, FS_Subset
<1>3. QED
  BY <1>1, <1>2, MembersAreFinite, JoiningIsFinite, JoiningIsFiniteNext,
     TeamRpsVoteAssumption
     DEF SeatsInv

LEMMA SeatsNext ==
  GameInv /\ SeatsInv /\ [TeamRpsVoteNext]_vars => SeatsInv'
<1> SUFFICES ASSUME GameInv, SeatsInv, [TeamRpsVoteNext]_vars
             PROVE  SeatsInv'
  OBVIOUS
<1>0. ShapeInv /\ StakeInv
  BY DEF GameInv
<1>1. ASSUME NEW h \in TeamHandlers, NEW u \in Users, JoinReadRoom(h, u)
      PROVE  SeatsInv'
  <2>1. Members' = Members /\ Cardinality(Members) < MaxPlayers
    BY <1>1 DEF JoinReadRoom, HasSeat, roomVars, Members
  <2>2. QED
    BY <2>1, MembersAreFinite, JoiningIsFinite, JoiningIsFiniteNext,
       TeamRpsVoteAssumption
       DEF SeatsInv
<1>2. ASSUME NEW h \in TeamHandlers, CreateCommit(h)
      PROVE  SeatsInv'
  <2>1. Members = {} /\ status = "none" /\ team' = [team EXCEPT ![Host] = "none"]
        /\ teamReq' = [teamReq EXCEPT ![h] = Idle]
    BY <1>0, <1>2 DEF CreateCommit, StakeInv, Done
  <2>2. Members' = {Host} /\ Cardinality(Members') = 1
    <3>1. Members' = {Host}
      BY <1>0, <2>1, TeamRpsVoteAssumption DEF ShapeInv, Members
    <3>2. QED
      BY <3>1, FS_Singleton
  <2>3. Joining' = {} /\ Cardinality(Joining') = 0
    <3>1. Joining' = {}
      BY <1>0, <2>1 DEF ShapeInv, JoinsFindRoom, Joining, Idle
    <3>2. QED
      BY <3>1, FS_EmptySet
  <2>4. Cardinality(TeamHandlers) >= 1
    <3>1. Cardinality({h}) = 1 /\ {h} \subseteq TeamHandlers
      BY FS_Singleton
    <3>2. QED
      BY <3>1, FS_Subset, TeamRpsVoteAssumption
  <2>5. QED
    BY <2>2, <2>3, <2>4, JoiningIsFinite, TeamRpsVoteAssumption DEF SeatsInv
<1>3. ASSUME NEW h \in TeamHandlers, JoinCommit(h)
      PROVE  SeatsInv'
  <2> DEFINE u == teamReq[h].user
  <2>1. /\ u \in Users /\ u \notin Members /\ h \in Joining
        /\ team' = [team EXCEPT ![u] = "none"]
        /\ teamReq' = [teamReq EXCEPT ![h] = Idle]
    BY <1>0, <1>3, RequestIsTyped
       DEF JoinCommit, ParticipantFree, Members, Joining, Done
  <2>2. Members' = Members \cup {u} /\ Joining' = Joining \ {h}
    BY <1>0, <2>1 DEF ShapeInv, Members, Joining, Idle
  <2>3. /\ Cardinality(Members') = Cardinality(Members) + 1
        /\ Cardinality(Joining') = Cardinality(Joining) - 1
    BY <2>1, <2>2, MembersAreFinite, JoiningIsFinite, FS_AddElement,
       FS_RemoveElement
  <2>4. QED
    BY <2>3, MembersAreFinite, JoiningIsFinite, TeamRpsVoteAssumption DEF SeatsInv
<1>4. ASSUME NEW h \in TeamHandlers, ReadStep(h),
             \A u \in Users : ~JoinReadRoom(h, u)
      PROVE  SeatsInv'
  <2>1. Members' = Members
    BY <1>0, <1>4, ReadSteps DEF roomVars, Members
  <2>2. ASSUME NEW r, r.op \notin {"joinCoin", "join"},
               teamReq' = [teamReq EXCEPT ![h] = r]
        PROVE  Joining' \subseteq Joining
    BY <1>0, <2>2 DEF ShapeInv, Joining
  <2>3. ASSUME JoinReadCoin(h)
        PROVE  Joining' \subseteq Joining
    BY <1>0, <2>3 DEF JoinReadCoin, ShapeInv, Joining
  <2>4. ASSUME CreateRead(h) \/ StartRead(h) \/ HostRefundRead(h) \/ TeamFail(h)
        PROVE  Joining' \subseteq Joining
    BY <2>2, <2>4
       DEF CreateRead, StartRead, HostRefundRead, TeamFail, Begin, Done, Idle
  <2>5. ASSUME NEW u \in Users, NEW t \in Sides,
               LeaveRead(h, u) \/ VoteRead(h, u) \/ ChooseRead(h, u, t)
        PROVE  Joining' \subseteq Joining
    BY <2>2, <2>5 DEF LeaveRead, VoteRead, ChooseRead, Begin
  <2>6. ASSUME HostClearTimer(h)
        PROVE  Joining' \subseteq Joining
    BY <1>0, <2>2, <2>6, ClearMovesOn
  <2>7. Joining' \subseteq Joining
    BY <1>4, <2>3, <2>4, <2>5, <2>6 DEF ReadStep, Sides
  <2>8. QED
    BY <2>1, <2>7, NobodyJoins
<1>5. ASSUME NEW h \in TeamHandlers,
             LeaveCommit(h) \/ ChooseCommit(h) \/ VoteCommit(h) \/ HostRefundCommit(h)
      PROVE  SeatsInv'
  <2>1. Joining' \subseteq Joining
    BY <1>0, <1>5
       DEF LeaveCommit, ChooseCommit, VoteCommit, HostRefundCommit, Done,
           ShapeInv, Joining, Idle
  <2>2. Members' \subseteq Members
    BY <1>0, <1>5
       DEF LeaveCommit, ChooseCommit, VoteCommit, HostRefundCommit, roomVars,
           ShapeInv, Members
  <2>3. QED
    BY <2>1, <2>2, NobodyJoins
<1>6. CASE GameStep \/ UNCHANGED vars
  <2>1. Members' = Members
    BY <1>6 DEF GameStep, ResolverNext, StartCommit, StartSchedule, InputEnds,
       TimerFires, ResolveRead, ResolveNothing, ResolveThrows, FinishCommit,
       NextRoundCommit, ResolveSchedule, ResolverRefundRead,
       ResolverRefundCommit, Crash, vars, roomVars, Members
  <2>2. ASSUME NEW h \in TeamHandlers, StartCommit(h) \/ StartSchedule(h)
        PROVE  Joining' \subseteq Joining
    <3>1. DOMAIN teamReq = TeamHandlers
      BY <1>0 DEF ShapeInv
    <3>2. /\ \A g \in TeamHandlers \ {h} : teamReq'[g] = teamReq[g]
          /\ teamReq'[h].op \in {"schedule", "idle"}
      <4>1. CASE StartSchedule(h)
        BY <3>1, <4>1 DEF StartSchedule, Done, Idle
      <4>2. CASE StartCommit(h)
        <5>1. teamReq[h].op = "start" /\ teamReq' = [teamReq EXCEPT ![h].op = "schedule"]
          BY <4>2 DEF StartCommit
        <5>2. teamReq[h] \in [op : {"start"}, user : Users]
          BY <1>0, <5>1 DEF ShapeInv, Requests, Idle
        <5>3. QED
          BY <3>1, <5>1, <5>2
      <4>3. QED
        BY <2>2, <4>1, <4>2
    <3>3. QED
      BY <3>2 DEF Joining
  <2>3. ASSUME Crash
        PROVE  Joining' \subseteq Joining
    BY <2>3 DEF Crash, Joining, Idle
  <2>4. ASSUME UNCHANGED teamReq
        PROVE  Joining' \subseteq Joining
    BY <2>4 DEF Joining
  <2>5. Joining' \subseteq Joining
    BY <1>6, <2>2, <2>3, <2>4
       DEF GameStep, ResolverNext, InputEnds, TimerFires, ResolveRead,
           ResolveNothing, ResolveThrows, FinishCommit, NextRoundCommit,
           ResolveSchedule, ResolverRefundRead, ResolverRefundCommit,
           vars, serverVars
  <2>6. QED
    BY <2>1, <2>5, NobodyJoins
<1>7. QED
  BY <1>1, <1>2, <1>3, <1>4, <1>5, <1>6, StepCases DEF CommitStep

(* A room is over-full by at most the other messages under way.            *)
THEOREM SeatsCorrect == TeamRpsVoteSpec => []OverfullBounded
<1>1. TeamRpsVoteInit => SeatsInv
  <2> SUFFICES ASSUME TeamRpsVoteInit PROVE SeatsInv
    OBVIOUS
  <2>1. Members = {} /\ Joining = {}
    BY DEF TeamRpsVoteInit, Members, Joining, Idle
  <2>2. Cardinality(Members) = 0 /\ Cardinality(Joining) = 0
    BY <2>1, FS_EmptySet
  <2>3. QED
    BY <2>2, JoiningIsFinite, TeamRpsVoteAssumption DEF SeatsInv
<1>2. SeatsInv => OverfullBounded
  BY MembersAreFinite, JoiningIsFinite, TeamRpsVoteAssumption
     DEF SeatsInv, OverfullBounded
<1>3. QED
  BY <1>1, <1>2, SeatsNext, InvHolds, PTL DEF TeamRpsVoteSpec

-----------------------------------------------------------------------------
(* One message at a time.                                                  *)
OneMessage == \A g, h \in TeamHandlers : g = h

(* What the message under way has checked is still true.                   *)
Promised(r) ==
  /\ r.op = "create" => status = "none"
  /\ r.op \in {"joinCoin", "join", "leave", "choose", "start",
               "clear", "refund", "refundCommit"} => status = "waiting"
  /\ r.op = "start" => ValidateStart
  /\ r.op = "refundCommit" => r.paid = Members
  /\ r.op = "schedule" => status = "playing"

(* A room goes from waiting to playing to its end: it is settled exactly   *)
(* when it has ended, only a room that plays has a timer or a resolution,  *)
(* and what the resolution has read of the participants is what they are.  *)
SerialInv ==
  /\ closings > 0 <=> status \in {"finished", "cancelled"}
  /\ status \in {"none", "waiting"} => round = 0
  /\ timer # 0 \/ resolver # Idle => status = "playing"
  /\ PlaysBalanced
  /\ resolver.op = "commit" => resolver.team = team
  /\ resolver.op = "refundCommit" => resolver.paid = Members
  /\ \A h \in TeamHandlers : Promised(teamReq[h])

LEMMA IdlePromisesNothing == Promised(Idle)
BY DEF Promised, Idle

LEMMA IdleWillPromiseNothing == Promised(Idle)'
BY IdlePromisesNothing, PTL

(* A request is answered while nothing resolves a round.                   *)
LEMMA ReadsKeepSerial ==
  ASSUME OneMessage, GameInv, SerialInv, NEW h \in TeamHandlers, ReadStep(h)
  PROVE  SerialInv'
<1>0. ShapeInv
  BY DEF GameInv
<1>1. /\ UNCHANGED <<status, team, stake, round, roundOpen, expired, votes, score,
                    resolver>>
      /\ timer' \in {0, timer}
  BY <1>0, ReadSteps DEF roomVars, roundVars
<1>2. closings' = closings
  BY DEF ReadStep, CreateRead, JoinReadCoin, StartRead, HostClearTimer,
         HostRefundRead, TeamFail, JoinReadRoom, LeaveRead, VoteRead, ChooseRead
<1>3. /\ Members' = Members /\ Teamed' = Teamed
      /\ \A t \in Sides : OnTeam(team, t)' = OnTeam(team, t)
      /\ ValidateStart' <=> ValidateStart
  BY <1>1 DEF Members, Teamed, OnTeam, ValidateStart
<1>4. PlaysBalanced'
  BY <1>1, <1>3 DEF SerialInv, PlaysBalanced, Sides
<1>5. Promised(teamReq[h])
  BY DEF SerialInv
<1>6. ASSUME NEW r, teamReq' = [teamReq EXCEPT ![h] = r], Promised(r)
      PROVE  \A g \in TeamHandlers : Promised(teamReq[g])'
  <2>1. teamReq'[h] = r /\ \A g \in TeamHandlers : g = h
    BY <1>0, <1>6 DEF ShapeInv, OneMessage
  <2>2. Promised(teamReq[h])'
    BY <1>1, <1>3, <1>6, <2>1 DEF Promised
  <2>3. QED
    BY <2>1, <2>2
<1>7. \A g \in TeamHandlers : Promised(teamReq[g])'
  <2>1. CASE CreateRead(h)
    BY <1>6, <2>1 DEF CreateRead, Begin, Promised
  <2>2. CASE StartRead(h)
    BY <1>6, <2>2 DEF StartRead, Begin, Promised
  <2>3. CASE TeamFail(h)
    BY <1>6, <2>3, IdlePromisesNothing DEF TeamFail, Done
  <2>4. CASE JoinReadCoin(h)
    <3> DEFINE q == [teamReq[h] EXCEPT !.op = "join"]
    <3>1. teamReq[h].op = "joinCoin" /\ teamReq' = [teamReq EXCEPT ![h] = q]
      BY <2>4 DEF JoinReadCoin
    <3>2. q.op = "join"
      BY <1>0, <3>1 DEF ShapeInv, Requests, Idle
    <3> HIDE DEF q
    <3>3. Promised(q)
      BY <1>5, <3>1, <3>2 DEF Promised
    <3>4. QED
      BY <1>6, <3>1, <3>3
  <2>5. CASE HostRefundRead(h)
    <3>1. /\ teamReq[h].op = "refund"
          /\ teamReq' = [teamReq EXCEPT ![h] =
               [op |-> "refundCommit", user |-> Host, paid |-> Members]]
      BY <2>5 DEF HostRefundRead
    <3>2. Promised([op |-> "refundCommit", user |-> Host, paid |-> Members])
      BY <1>5, <3>1 DEF Promised
    <3>3. QED
      BY <1>6, <3>1, <3>2
  <2>6. ASSUME NEW u \in Users,
               \/ JoinReadRoom(h, u) \/ LeaveRead(h, u) \/ VoteRead(h, u)
               \/ \E t \in Sides : ChooseRead(h, u, t)
        PROVE  \A g \in TeamHandlers : Promised(teamReq[g])'
    <3>1. CASE JoinReadRoom(h, u)
      BY <1>6, <3>1 DEF JoinReadRoom, Begin, Promised
    <3>2. CASE LeaveRead(h, u)
      <4> DEFINE q == [op |-> IF u = Host THEN "clear" ELSE "leave", user |-> u]
      <4>1. q.op \in {"clear", "leave"} /\ status = "waiting"
        BY <3>2 DEF LeaveRead, MayLeave
      <4>2. teamReq' = [teamReq EXCEPT ![h] = q]
        BY <3>2 DEF LeaveRead, Begin
      <4> HIDE DEF q
      <4>3. Promised(q)
        BY <4>1 DEF Promised
      <4>4. QED
        BY <1>6, <4>2, <4>3
    <3>3. CASE VoteRead(h, u)
      BY <1>6, <3>3 DEF VoteRead, Begin, Promised
    <3>4. CASE \E t \in Sides : ChooseRead(h, u, t)
      BY <1>6, <3>4 DEF ChooseRead, Begin, Promised
    <3>5. QED
      BY <2>6, <3>1, <3>2, <3>3, <3>4
  <2>7. CASE HostClearTimer(h)
    <3>1. PICK q \in [op : {"refund"}, user : Users] :
            teamReq' = [teamReq EXCEPT ![h] = q]
      BY <1>0, <2>7, ClearMovesOn
    <3>2. Promised(q)
      BY <1>0, <1>5, <2>7, ClearMovesOn DEF Promised
    <3>3. QED
      BY <1>6, <3>1, <3>2
  <2>8. QED
    BY <2>1, <2>2, <2>3, <2>4, <2>5, <2>6, <2>7 DEF ReadStep
<1>8. QED
  BY <1>1, <1>2, <1>3, <1>4, <1>7 DEF SerialInv

(* A message other than a vote changes a room that does not play.          *)
LEMMA CommitsKeepSerial ==
  ASSUME OneMessage, MoneyInv, GameInv, SerialInv, NEW h \in TeamHandlers, CommitStep(h)
  PROVE  SerialInv'
<1>0. ShapeInv /\ ControlInv
  BY DEF GameInv
<1>1. /\ UNCHANGED <<round, timer, resolver>> /\ Done(h)
  BY <1>0, CommitSteps DEF CommitStep, CreateCommit, JoinCommit, LeaveCommit,
     ChooseCommit, VoteCommit, HostRefundCommit
<1>2. \A g \in TeamHandlers : Promised(teamReq[g])'
  <2>1. teamReq'[h] = Idle /\ \A g \in TeamHandlers : g = h
    BY <1>0, <1>1 DEF ShapeInv, OneMessage, Done
  <2>2. Promised(teamReq[h])'
    BY <2>1, IdleWillPromiseNothing
  <2>3. QED
    BY <2>1, <2>2
<1>3. Promised(teamReq[h])
  BY DEF SerialInv
<1>4. CASE VoteCommit(h)
  <2>1. UNCHANGED <<status, team, closings>>
    BY <1>4 DEF VoteCommit, roomVars
  <2>2. Members' = Members /\ PlaysBalanced'
    BY <2>1 DEF SerialInv, PlaysBalanced, Members, Teamed, OnTeam
  <2>3. QED
    BY <1>1, <1>2, <2>1, <2>2 DEF SerialInv
<1>5. CASE ~VoteCommit(h)
  <2>1. status \in {"none", "waiting"} /\ closings = 0
    <3>1. status \in {"none", "waiting"}
      BY <1>3, <1>5 DEF CommitStep, CreateCommit, JoinCommit, LeaveCommit,
         ChooseCommit, HostRefundCommit, Promised
    <3>2. QED
      BY <3>1 DEF SerialInv, MoneyInv
  <2>2. round = 0 /\ timer = 0 /\ resolver = Idle
    BY <2>1 DEF SerialInv
  <2>3. \/ status' \in {status, "waiting"} /\ closings' = closings
        \/ status' = "cancelled" /\ closings' = closings + 1
    BY <1>5 DEF CommitStep, CreateCommit, JoinCommit, LeaveCommit, ChooseCommit,
       HostRefundCommit, Refund
  <2>4. PlaysBalanced'
    BY <2>1, <2>3 DEF PlaysBalanced
  <2>5. QED
    BY <1>1, <1>2, <2>1, <2>2, <2>3, <2>4 DEF SerialInv, Idle
<1>6. QED
  BY <1>4, <1>5

(* The start validates what it starts; the steps of the server change      *)
(* neither the participants nor their teams.                               *)
LEMMA GameKeepsSerial ==
  ASSUME OneMessage, MoneyInv, GameInv, SerialInv, GameStep
  PROVE  SerialInv'
<1>0. /\ ShapeInv /\ ControlInv /\ closings \in Nat
      /\ teamReq \in [TeamHandlers -> Requests \cup {Idle}]
  BY DEF GameInv, MoneyInv, ShapeInv
<1>1. team' = team
  BY DEF GameStep, StartCommit, StartSchedule, InputEnds, TimerFires, ResolverNext,
     ResolveRead, ResolveNothing, FinishCommit, NextRoundCommit, ResolveSchedule,
     ResolveThrows, ResolverRefundRead, ResolverRefundCommit, Crash, roomVars
<1>2. /\ Members' = Members /\ Teamed' = Teamed
      /\ \A t \in Sides : OnTeam(team, t)' = OnTeam(team, t)
      /\ ValidateStart' <=> ValidateStart
  BY <1>1 DEF Members, Teamed, OnTeam, ValidateStart
<1>3. ASSUME NEW h \in TeamHandlers, StartCommit(h) PROVE SerialInv'
  <2>1. /\ status = "waiting" /\ ValidateStart /\ teamReq[h].op = "start"
    BY <1>3 DEF StartCommit, SerialInv, Promised
  <2>2. round = 0 /\ timer = 0 /\ resolver = Idle /\ closings = 0
    BY <1>0, <2>1 DEF SerialInv
  <2>3. /\ status' = "playing" /\ round' = 1 /\ UNCHANGED <<timer, resolver, closings>>
        /\ teamReq' = [teamReq EXCEPT ![h].op = "schedule"]
    BY <1>3 DEF StartCommit, OpenRound
  <2>4. PlaysBalanced'
    BY <1>2, <2>1 DEF PlaysBalanced, ValidateStart, Sides
  <2>5. teamReq'[h].op = "schedule"
    BY <1>0, <2>1, <2>3 DEF Requests, Idle
  <2>6. \A g \in TeamHandlers : Promised(teamReq[g])'
    <3>1. Promised(teamReq[h])'
      BY <2>3, <2>5 DEF Promised
    <3>2. QED
      BY <3>1 DEF OneMessage
  <2>7. QED
    BY <1>2, <2>2, <2>3, <2>4, <2>6 DEF SerialInv, Idle
<1>4. ASSUME NEW h \in TeamHandlers, StartSchedule(h) PROVE SerialInv'
  <2>1. status = "playing" /\ resolver = Idle
    BY <1>0, <1>4 DEF StartSchedule, SerialInv, Promised, ControlInv
  <2>2. /\ timer' = 1 /\ teamReq' = [teamReq EXCEPT ![h] = Idle]
        /\ UNCHANGED <<status, round, resolver, closings>>
    BY <1>4 DEF StartSchedule, Done, roomVars, roundVars
  <2>3. PlaysBalanced'
    BY <1>2, <2>2 DEF SerialInv, PlaysBalanced, Sides
  <2>4. \A g \in TeamHandlers : Promised(teamReq[g])'
    <3>1. teamReq'[h] = Idle
      BY <1>0, <2>2
    <3>2. Promised(teamReq[h])'
      BY <3>1, IdleWillPromiseNothing
    <3>3. QED
      BY <3>2 DEF OneMessage
  <2>5. QED
    BY <1>2, <2>1, <2>2, <2>3, <2>4 DEF SerialInv, Idle
<1>5. CASE Crash
  <2>1. /\ timer' = 0 /\ resolver' = Idle /\ UNCHANGED <<status, round, closings>>
        /\ \A g \in TeamHandlers : teamReq'[g] = Idle
    BY <1>5 DEF Crash, roomVars, roundVars
  <2>2. PlaysBalanced'
    BY <1>2, <2>1 DEF SerialInv, PlaysBalanced, Sides
  <2>3. \A g \in TeamHandlers : Promised(teamReq[g])'
    BY <2>1, IdleWillPromiseNothing
  <2>4. QED
    BY <1>2, <2>1, <2>2, <2>3 DEF SerialInv, Idle
(* While a round is resolved no message has checked anything but votes.    *)
<1>6. ASSUME status = "playing", UNCHANGED teamReq,
             \/ status' = status /\ closings' = closings
             \/ status' = "finished" /\ closings' = closings + 1,
             status' # status => resolver # Idle /\ timer' = 0 /\ resolver' = Idle,
             resolver'.op = "commit" => resolver'.team = team,
             resolver'.op = "refundCommit" => resolver'.paid = Members
      PROVE  SerialInv'
  <2>1. closings = 0
    BY <1>0, <1>6 DEF SerialInv
  <2>2. PlaysBalanced'
    BY <1>2, <1>6 DEF SerialInv, PlaysBalanced, Sides
  <2>3. ASSUME NEW g \in TeamHandlers PROVE Promised(teamReq[g])'
    <3>1. Promised(teamReq[g])
      BY DEF SerialInv
    <3>2. teamReq'[g] = teamReq[g]
      BY <1>6
    <3>3. CASE teamReq[g].op # "schedule"
      BY <1>6, <3>1, <3>2, <3>3 DEF Promised
    <3>4. CASE teamReq[g].op = "schedule" /\ status' = status
      BY <1>6, <3>2, <3>4 DEF Promised
    <3>5. CASE teamReq[g].op = "schedule" /\ status' = "finished"
      <4>1. resolver = Idle
        BY <1>0, <3>5 DEF ControlInv
      <4>2. QED
        BY <1>6, <3>5, <4>1
    <3>6. QED
      BY <1>6, <3>3, <3>4, <3>5
  <2>4. round' = 0 \/ status' \notin {"none", "waiting"}
    BY <1>6
  <2>5. timer' # 0 \/ resolver' # Idle => status' = "playing"
    BY <1>6
  <2>6. closings' > 0 <=> status' \in {"finished", "cancelled"}
    <3>1. CASE status' = status /\ closings' = closings
      BY <1>6, <2>1, <3>1
    <3>2. CASE status' = "finished" /\ closings' = closings + 1
      BY <2>1, <3>2
    <3>3. QED
      BY <1>6, <3>1, <3>2
  <2>7. QED
    BY <1>1, <1>2, <1>6, <2>2, <2>3, <2>4, <2>5, <2>6 DEF SerialInv
<1>7. CASE InputEnds
  <2>1. UNCHANGED <<status, round, timer, resolver, teamReq, closings>>
    BY <1>7 DEF InputEnds, roomVars, serverVars
  <2>2. PlaysBalanced'
    BY <1>2, <2>1 DEF SerialInv, PlaysBalanced, Sides
  <2>3. \A g \in TeamHandlers : Promised(teamReq[g])'
    BY <1>2, <2>1 DEF SerialInv, Promised
  <2>4. QED
    BY <1>1, <1>2, <2>1, <2>2, <2>3 DEF SerialInv
<1>8. CASE TimerFires
  <2>1. /\ UNCHANGED <<status, closings, teamReq>> /\ timer # 0
        /\ resolver' = [op |-> "claim", round |-> timer]
    BY <1>8 DEF TimerFires, TimerDue, roomVars
  <2>2. resolver'.op = "claim" /\ status = "playing"
    BY <2>1 DEF SerialInv
  <2>3. QED
    BY <1>6, <2>1, <2>2
<1>9. CASE ResolverNext
  <2>1. resolver # Idle /\ status = "playing" /\ timer = 0 /\ UNCHANGED teamReq
    <3>1. resolver # Idle /\ UNCHANGED teamReq
      BY <1>0, <1>9, ResolverIsTyped
         DEF ResolverNext, ResolveRead, ResolveNothing, FinishCommit, NextRoundCommit,
             ResolveCommon, ResolveSchedule, ResolveThrows, ResolverRefundRead,
             ResolverRefundCommit
    <3>2. QED
      BY <1>0, <3>1 DEF SerialInv, ControlInv
  <2>2. CASE ResolveRead
    <3>1. /\ UNCHANGED <<status, closings>>
          /\ resolver' = [op |-> "commit", round |-> resolver.round,
                          team |-> team, voted |-> votes[resolver.round]]
      BY <2>2 DEF ResolveRead, roomVars
    <3>2. resolver'.op = "commit" /\ resolver'.team = team
      BY <3>1
    <3>3. QED
      BY <1>1, <1>6, <2>1, <3>1, <3>2
  <2>3. CASE \/ ResolveNothing \/ ResolveThrows \/ ResolveSchedule
             \/ \E o \in Sides \cup {"draw"} : NextRoundCommit(o)
    <3>1. UNCHANGED <<status, closings>> /\ resolver'.op \notin {"commit", "refundCommit"}
      BY <2>3 DEF ResolveNothing, ResolveThrows, ResolveSchedule, NextRoundCommit,
                  roomVars, Idle
    <3>2. QED
      BY <1>6, <2>1, <3>1
  <2>4. CASE ResolverRefundRead
    <3>1. /\ UNCHANGED <<status, closings>>
          /\ resolver' = IF Refundable THEN [op |-> "refundCommit", paid |-> Members]
                         ELSE Idle
      BY <2>4 DEF ResolverRefundRead, roomVars
    <3>2. /\ resolver'.op # "commit"
          /\ resolver'.op = "refundCommit" => resolver'.paid = Members
      BY <3>1 DEF Idle
    <3>3. QED
      BY <1>6, <2>1, <3>1, <3>2
  <2>5. CASE ResolverRefundCommit \/ \E o \in Sides \cup {"draw"} : FinishCommit(o)
    <3>1. /\ status' = "finished" /\ closings' = closings + 1
          /\ timer' = 0 /\ resolver' = Idle
      BY <2>1, <2>5 DEF ResolverRefundCommit, Refund, FinishCommit
    <3>2. QED
      BY <1>6, <2>1, <3>1 DEF Idle
  <2>6. QED
    BY <1>9, <2>2, <2>3, <2>4, <2>5 DEF ResolverNext
<1>10. QED
  BY <1>3, <1>4, <1>5, <1>7, <1>8, <1>9 DEF GameStep

LEMMA SerialNext ==
  ASSUME OneMessage, MoneyInv, GameInv, SerialInv, [TeamRpsVoteNext]_vars
  PROVE  SerialInv'
<1>1. CASE UNCHANGED vars
  <2>1. UNCHANGED <<status, team, round, timer, resolver, teamReq, closings>>
    BY <1>1 DEF vars, roomVars, roundVars, serverVars
  <2>2. /\ Members' = Members /\ Teamed' = Teamed
        /\ \A t \in Sides : OnTeam(team, t)' = OnTeam(team, t)
        /\ ValidateStart' <=> ValidateStart
    BY <2>1 DEF Members, Teamed, OnTeam, ValidateStart
  <2>3. PlaysBalanced' /\ \A g \in TeamHandlers : Promised(teamReq[g])'
    BY <2>1, <2>2 DEF SerialInv, PlaysBalanced, Promised, Sides
  <2>4. QED
    BY <2>1, <2>2, <2>3 DEF SerialInv
<1>2. QED
  BY <1>1, StepCases, ReadsKeepSerial, CommitsKeepSerial, GameKeepsSerial

LEMMA SerialInitially == TeamRpsVoteInit => SerialInv
BY IdlePromisesNothing DEF TeamRpsVoteInit, SerialInv, PlaysBalanced, Idle

LEMMA SerialHolds ==
  ASSUME OneMessage
  PROVE  TeamRpsVoteSpec => [](MoneyInv /\ GameInv /\ SerialInv)
<1>1. MoneyInv /\ GameInv /\ SerialInv /\ [TeamRpsVoteNext]_vars => SerialInv'
  BY SerialNext
<1>2. QED
  BY <1>1, SerialInitially, InvHolds, PTL DEF TeamRpsVoteSpec

(* With one message at a time a room that plays has as many players on     *)
(* either side, and nobody without a team.                                 *)
THEOREM BalanceCorrect ==
  ASSUME OneMessage
  PROVE  TeamRpsVoteSpec => []PlaysBalanced
<1>1. SerialInv => PlaysBalanced
  BY DEF SerialInv
<1>2. QED
  BY <1>1, SerialHolds, PTL

-----------------------------------------------------------------------------
(* The room as an escrow, with one message at a time.                      *)
Pot == IF closings = 0 THEN stake ELSE 0

LEMMA PotIsTyped == StakeInv => stake \in Nat /\ Pot \in Nat
<1> SUFFICES ASSUME StakeInv PROVE stake \in Nat /\ Pot \in Nat
  OBVIOUS
<1>1. EntryStake \in Nat
  BY TeamRpsVoteAssumption, LedgerAssumption
<1>2. QED
  BY <1>1, MembersAreFinite DEF StakeInv, StakeMatchesParticipants, Pot

LEMMA PotStaysTyped == (StakeInv => stake \in Nat /\ Pot \in Nat)'
BY PotIsTyped, PTL

LEMMA CoinsAreInts ==
  ASSUME MoneyInv
  PROVE  coin \in [Users -> Int] /\ SumFunction(coin) \in Int
<1>1. Int4 \subseteq Int
  BY LedgerAssumption DEF Int4
<1>2. coin \in [Users -> Int]
  BY <1>1 DEF MoneyInv
<1>3. QED
  BY <1>2, UsersAssumption, SumIsInt

(* Paying a to each of S moves that many coins.                            *)
LEMMA PayEachSum ==
  ASSUME MoneyInv, NEW S \in SUBSET Users, NEW a \in Int, PayEach(S, a)
  PROVE  SumFunction(coin') = SumFunction(coin) + a * Cardinality(S)
<1> DEFINE c == coin'
           f == [u \in Users |-> IF u \in S THEN a ELSE 0]
<1>1. coin \in [Users -> Int] /\ c = [u \in Users |-> IF u \in S THEN coin[u] + a ELSE coin[u]]
  BY CoinsAreInts DEF PayEach
<1>2. /\ DOMAIN c = Users /\ DOMAIN coin = Users
      /\ \A u \in Users : coin[u] \in Int /\ f[u] \in Int
      /\ \A u \in Users : c[u] = coin[u] + f[u]
      /\ \A u \in Users : f[u] = IF u \in S THEN a ELSE 0
  BY <1>1
<1> HIDE DEF c, f
<1>3. SumFunctionOnSet(c, Users) = SumFunctionOnSet(coin, Users) + SumFunctionOnSet(f, Users)
  BY <1>2, UsersAssumption, SumPlus
<1>4. SumFunctionOnSet(f, Users) = a * Cardinality(S)
  BY <1>2, UsersAssumption, SumShares
<1>5. SumFunction(c) = SumFunction(coin) + a * Cardinality(S)
  BY <1>2, <1>3, <1>4, SumOverDomain
<1>6. QED
  BY <1>5 DEF c

LEMMA PayStakeSum ==
  ASSUME MoneyInv, NEW u \in Users, PayStake(u)
  PROVE  SumFunction(coin') = SumFunction(coin) - EntryStake
BY CoinsAreInts, SumDebit, TeamRpsVoteAssumption DEF PayStake

LEMMA EscrowSumIsSum == ASSUME NEW f PROVE Escrowed!SumFunction(f) = SumFunction(f)
BY DEF Escrowed!SumFunction, Escrowed!SumFunctionOnSet, Escrowed!FoldFunctionOnSet,
       Escrowed!MapThenFoldSet, SumFunction, SumFunctionOnSet, FoldFunctionOnSet,
       MapThenFoldSet

LEMMA TotalIsCoinsAndPot == StakeInv => Escrowed!Total = SumFunction(coin) + Pot
<1> SUFFICES ASSUME StakeInv PROVE Escrowed!Total = SumFunction(coin) + Pot
  OBVIOUS
<1> DEFINE p == [r \in {"room"} |-> Pot]
<1>1. DOMAIN p = {"room"} /\ p["room"] = Pot /\ Pot \in Int
  BY PotIsTyped
<1>2. IsFiniteSet({"room"}) /\ Cardinality({"room"}) = 1
  BY FS_Singleton
<1>3. \A x \in {"room"} : p[x] = IF x \in {"room"} THEN Pot ELSE 0
  BY <1>1
<1>4. Escrowed!Total = SumFunction(coin) + SumFunction(p)
  BY EscrowSumIsSum DEF Escrowed!Total, Pot
<1> HIDE DEF p
<1>5. SumFunctionOnSet(p, {"room"}) = Pot * Cardinality({"room"})
  BY <1>1, <1>2, <1>3, SumShares
<1>6. SumFunction(p) = Pot
  BY <1>1, <1>2, <1>5, SumOverDomain
<1>7. QED
  BY <1>4, <1>6

LEMMA TotalStays == (StakeInv => Escrowed!Total = SumFunction(coin) + Pot)'
BY TotalIsCoinsAndPot, PTL

(* A transaction of a room that is not settled, which moves into its stake *)
(* what it takes from the balances, is an exchange of the escrow.          *)
LEMMA RoomExchanges ==
  ASSUME StakeInv, StakeInv', closings = 0, closings' \in Nat,
         SumFunction(coin') + Pot' = SumFunction(coin) + Pot
  PROVE  Escrowed!Exchange("room")
<1>1. Escrowed!Total' = Escrowed!Total
  BY TotalIsCoinsAndPot, TotalStays
<1>2. Pot' \in Nat /\ (closings' > 0 => Pot' = 0)
  BY PotStaysTyped DEF Pot
<1>3. [r \in {"room"} |-> Pot'] = [[r \in {"room"} |-> Pot] EXCEPT !["room"] = Pot']
  OBVIOUS
<1>4. [r \in {"room"} |-> closings' > 0]
        = [[r \in {"room"} |-> closings > 0] EXCEPT !["room"] = (closings' > 0)]
  OBVIOUS
<1>5. Pot' >= 0 /\ ~(closings > 0)
  BY <1>2
<1>6. QED
  BY <1>1, <1>2, <1>3, <1>4, <1>5 DEF Escrowed!Exchange, Pot

(* The winners are half of the participants: their two stakes each are the *)
(* stake of the room.                                                      *)
LEMMA WinnersTakeStake ==
  ASSUME ShapeInv, StakeInv, PlaysBalanced, status = "playing", NEW t \in Sides
  PROVE  /\ OnTeam(team, t) \in SUBSET Users
         /\ (2 * EntryStake) * Cardinality(OnTeam(team, t)) = stake
<1> DEFINE A == OnTeam(team, "A")
           B == OnTeam(team, "B")
<1>1. A \in SUBSET Users /\ B \in SUBSET Users /\ A \cap B = {}
  BY DEF OnTeam
<1>2. Members = A \cup B
  BY DEF PlaysBalanced, Teamed, OnTeam, Sides
<1>3. IsFiniteSet(A) /\ IsFiniteSet(B)
  BY <1>1, UsersAssumption, FS_Subset
<1>4. Cardinality(A) \in Nat /\ Cardinality(B) = Cardinality(A)
  BY <1>3, FS_CardinalityType DEF PlaysBalanced
<1>5. Cardinality(A \cup B) = Cardinality(A) + Cardinality(B) - Cardinality({})
  BY <1>1, <1>3, FS_Union
<1>6. t \in {"A", "B"}
  BY DEF Sides
<1>7. OnTeam(team, t) \in SUBSET Users /\ Cardinality(OnTeam(team, t)) = Cardinality(A)
  BY <1>1, <1>4, <1>6
<1>8. stake = EntryStake * Cardinality(Members)
  BY DEF StakeInv, StakeMatchesParticipants
<1> HIDE DEF A, B
<1>9. Cardinality(Members) = 2 * Cardinality(A)
  BY <1>2, <1>4, <1>5, FS_EmptySet
<1>10. EntryStake * (2 * Cardinality(A)) = (2 * EntryStake) * Cardinality(A)
  BY <1>4, TeamRpsVoteAssumption
<1>11. QED
  BY <1>7, <1>8, <1>9, <1>10

LEMMA MessagesExchange ==
  ASSUME MoneyInv, GameInv, GameInv', SerialInv, NEW h \in TeamHandlers,
         closings' \in Nat,
         \/ CreateCommit(h) \/ JoinCommit(h) \/ LeaveCommit(h) \/ HostRefundCommit(h)
  PROVE  Escrowed!Exchange("room")
<1> DEFINE u == teamReq[h].user
<1>0. /\ ShapeInv /\ StakeInv /\ StakeInv' /\ Promised(teamReq[h])
      /\ closings \in Nat /\ stake \in Nat /\ EntryStake \in Nat
      /\ SumFunction(coin) \in Int
  BY CoinsAreInts, PotIsTyped, TeamRpsVoteAssumption
     DEF GameInv, SerialInv, MoneyInv
<1>1. closings = 0 /\ Pot = stake
  <2>1. status \in {"none", "waiting"}
    BY <1>0 DEF CreateCommit, JoinCommit, LeaveCommit, HostRefundCommit, Promised
  <2>2. ~(closings > 0)
    BY <2>1 DEF SerialInv
  <2>3. QED
    BY <1>0, <2>2 DEF Pot
<1>2. CASE CreateCommit(h)
  <2>1. Members = {} /\ PayStake(Host) /\ stake' = EntryStake /\ closings' = closings
    BY <1>0, <1>2 DEF CreateCommit, StakeInv
  <2>2. stake = EntryStake * 0
    BY <1>0, <2>1, FS_EmptySet DEF StakeInv, StakeMatchesParticipants
  <2>3. SumFunction(coin') = SumFunction(coin) - EntryStake
    BY <2>1, PayStakeSum, TeamRpsVoteAssumption
  <2>4. SumFunction(coin') + Pot' = SumFunction(coin) + Pot
    BY <1>0, <1>1, <2>1, <2>2, <2>3 DEF Pot
  <2>5. QED
    BY <1>0, <1>1, <2>4, RoomExchanges
<1>3. CASE JoinCommit(h)
  <2>1. /\ PayStake(u) /\ stake' = stake + EntryStake /\ closings' = closings
        /\ u \in Users
    BY <1>0, <1>3, RequestIsTyped DEF JoinCommit
  <2>2. SumFunction(coin') = SumFunction(coin) - EntryStake
    BY <2>1, PayStakeSum
  <2>3. SumFunction(coin') + Pot' = SumFunction(coin) + Pot
    BY <1>0, <1>1, <2>1, <2>2 DEF Pot
  <2>4. QED
    BY <1>0, <1>1, <2>3, RoomExchanges
<1>4. CASE LeaveCommit(h)
  <2>1. /\ PayEach({u}, EntryStake) /\ stake' = stake - EntryStake
        /\ closings' = closings /\ {u} \in SUBSET Users /\ Cardinality({u}) = 1
    BY <1>4, FS_Singleton DEF LeaveCommit, Members
  <2>2. SumFunction(coin') = SumFunction(coin) + EntryStake * Cardinality({u})
    BY <1>0, <2>1, PayEachSum
  <2>3. SumFunction(coin') + Pot' = SumFunction(coin) + Pot
    BY <1>0, <1>1, <2>1, <2>2 DEF Pot
  <2>4. QED
    BY <1>0, <1>1, <2>3, RoomExchanges
<1>5. CASE HostRefundCommit(h)
  <2>1. /\ PayEach(Members, EntryStake) /\ closings' = closings + 1
        /\ Members \in SUBSET Users
    BY <1>0, <1>5 DEF HostRefundCommit, Refund, Promised, Members
  <2>2. SumFunction(coin') = SumFunction(coin) + EntryStake * Cardinality(Members)
    BY <1>0, <2>1, PayEachSum
  <2>3. SumFunction(coin') + Pot' = SumFunction(coin) + Pot
    BY <1>0, <1>1, <2>1, <2>2 DEF Pot, StakeInv, StakeMatchesParticipants
  <2>4. QED
    BY <1>0, <1>1, <2>3, RoomExchanges
<1>6. QED
  BY <1>2, <1>3, <1>4, <1>5

LEMMA ResolutionsExchange ==
  ASSUME MoneyInv, GameInv, GameInv', SerialInv, closings' \in Nat,
         \/ ResolverRefundCommit
         \/ \E o \in Sides \cup {"draw"} : FinishCommit(o)
  PROVE  Escrowed!Exchange("room")
<1>0. /\ ShapeInv /\ StakeInv /\ StakeInv' /\ PlaysBalanced
      /\ closings \in Nat /\ stake \in Nat /\ EntryStake \in Nat
      /\ SumFunction(coin) \in Int
  BY CoinsAreInts, PotIsTyped, TeamRpsVoteAssumption
     DEF GameInv, SerialInv, MoneyInv
<1>1. closings = 0 /\ Pot = stake /\ status = "playing"
  <2>1. resolver # Idle
    BY <1>0, ResolverIsTyped DEF ResolverRefundCommit, FinishCommit, ResolveCommon
  <2>2. status = "playing" /\ ~(closings > 0)
    BY <2>1 DEF SerialInv
  <2>3. QED
    BY <1>0, <2>2 DEF Pot
<1>2. ASSUME NEW S \in SUBSET Users, NEW a \in Int, PayEach(S, a),
             a * Cardinality(S) = stake, closings' = closings + 1
      PROVE  Escrowed!Exchange("room")
  <2>1. SumFunction(coin') = SumFunction(coin) + a * Cardinality(S)
    BY <1>2, PayEachSum
  <2>2. SumFunction(coin') + Pot' = SumFunction(coin) + Pot
    BY <1>0, <1>1, <1>2, <2>1 DEF Pot
  <2>3. QED
    BY <1>0, <1>1, <2>2, RoomExchanges
<1>3. CASE ResolverRefundCommit
  <2>1. /\ PayEach(Members, EntryStake) /\ closings' = closings + 1
        /\ Members \in SUBSET Users
    BY <1>3 DEF ResolverRefundCommit, Refund, SerialInv, Members
  <2>2. EntryStake * Cardinality(Members) = stake
    BY <1>0 DEF StakeInv, StakeMatchesParticipants
  <2>3. QED
    BY <1>0, <1>2, <2>1, <2>2
<1>4. ASSUME NEW o \in Sides \cup {"draw"}, FinishCommit(o)
      PROVE  Escrowed!Exchange("room")
  <2>1. PICK t \in Sides : Winners(NewScore(o)) = OnTeam(resolver.team, t)
    BY DEF Winners, Sides
  <2>2. resolver.team = team
    BY <1>4 DEF SerialInv, FinishCommit, ResolveCommon
  <2>3. PayEach(OnTeam(team, t), 2 * EntryStake) /\ closings' = closings + 1
    BY <1>4, <2>1, <2>2 DEF FinishCommit
  <2>4. /\ OnTeam(team, t) \in SUBSET Users
        /\ (2 * EntryStake) * Cardinality(OnTeam(team, t)) = stake
    BY <1>0, <1>1, WinnersTakeStake
  <2>5. 2 * EntryStake \in Int
    BY <1>0
  <2>6. QED
    BY <1>2, <2>3, <2>4, <2>5
<1>5. QED
  BY <1>3, <1>4

LEMMA EscrowStep ==
  ASSUME MoneyInv, GameInv, SerialInv, [TeamRpsVoteNext]_vars
  PROVE  [\E r \in {"room"} : Escrowed!Exchange(r)]_(Escrowed!escrowVars)
<1>0. GameInv' /\ closings' \in Nat
  BY GameNext, MoneyNext DEF MoneyInv
<1>1. CASE UNCHANGED <<coin, stake, closings>>
  BY <1>1 DEF Escrowed!escrowVars
<1>2. CASE \E h \in TeamHandlers :
             \/ CreateCommit(h) \/ JoinCommit(h) \/ LeaveCommit(h)
             \/ HostRefundCommit(h)
  BY <1>0, <1>2, MessagesExchange
<1>3. CASE \/ ResolverRefundCommit
           \/ \E o \in Sides \cup {"draw"} : FinishCommit(o)
  BY <1>0, <1>3, ResolutionsExchange
<1>4. QED
  BY <1>1, <1>2, <1>3, StepCases
     DEF ReadStep, CreateRead, JoinReadCoin, StartRead, HostClearTimer,
         HostRefundRead, TeamFail, JoinReadRoom, LeaveRead, VoteRead, ChooseRead,
         CommitStep, ChooseCommit,
         VoteCommit, GameStep, StartCommit, StartSchedule, InputEnds, TimerFires,
         ResolverNext, ResolveRead, ResolveNothing, NextRoundCommit, ResolveSchedule,
         ResolveThrows, ResolverRefundRead, Crash, vars, ledgerVars, roomVars

LEMMA EscrowInitially == TeamRpsVoteInit => Escrowed!EscrowInit
<1> SUFFICES ASSUME TeamRpsVoteInit PROVE Escrowed!EscrowInit
  OBVIOUS
<1>1. coin = StartCoin /\ stake = 0 /\ closings = 0
  BY DEF TeamRpsVoteInit, LedgerInit
<1>2. (closings > 0) = FALSE /\ (IF closings = 0 THEN stake ELSE 0) = 0
  BY <1>1
<1>3. QED
  BY <1>1, <1>2 DEF Escrowed!EscrowInit

(* With one message at a time the room keeps the escrow promise, for any   *)
(* users, stakes and rounds: its stake is the coins of its participants,   *)
(* the winners share exactly that, and a settled room never pays again.    *)
THEOREM EscrowCorrect ==
  ASSUME OneMessage
  PROVE  TeamRpsVoteSpec => ImplementsEscrow
<1>1. MoneyInv /\ GameInv /\ SerialInv /\ [TeamRpsVoteNext]_vars
        => [\E r \in {"room"} : Escrowed!Exchange(r)]_(Escrowed!escrowVars)
  BY EscrowStep
<1>2. QED
  BY <1>1, EscrowInitially, SerialHolds, PTL
     DEF TeamRpsVoteSpec, ImplementsEscrow, Escrowed!EscrowSpec
=============================================================================
