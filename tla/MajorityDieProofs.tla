-------------------------- MODULE MajorityDieProofs --------------------------
(***************************************************************************)
(* Theorems about MajorityDie, for any users, stakes, winners, messages in *)
(* flight and stages, with lobby queries that fail and restarts anywhere.  *)
(***************************************************************************)
EXTENDS MajorityDie, SumTheorems, TLAPS

(* The rows, the timer and the requests keep their shape; a submission     *)
(* keeps its participant.                                                  *)
ShapeInv ==
  /\ status \in {"none", "waiting", "playing", "finished", "cancelled"}
  /\ member \in Memberships
  /\ stage \in 0 .. MaxStages /\ timer \in 0 .. MaxStages
  /\ stageOpen \in BOOLEAN
  /\ stageOpen => stage > 0
  /\ choice \in Choices
  /\ recorded \subseteq Members /\ Submitted \subseteq Members
  /\ resolver \in Resolvers \cup {Idle}
  /\ dieReq \in [DieHandlers -> DieRequests \cup {Idle}]

(* One resolution at a time: the start that opened the first stage, the    *)
(* timer and a resolution under way exclude each other, and each of them   *)
(* is about the stage that is open.  A game that is announced is over.     *)
ControlInv ==
  /\ OneResolution
  /\ resolver # Idle => timer = 0 /\ stage > 0
  /\ resolver.op \in {"read", "commit", "schedule"} =>
       stageOpen /\ resolver.stage = stage
  /\ resolver.op = "announce" => status # "playing"
  /\ \A h \in DieHandlers : dieReq[h].op = "schedule" =>
       /\ timer = 0 /\ resolver = Idle /\ stage = 1 /\ stageOpen
       /\ \A g \in DieHandlers : dieReq[g].op = "schedule" => g = h

(* Whoever has died has played a game that was created, and what a         *)
(* resolution has read of the submissions is still there.                  *)
DeadInv ==
  /\ \A u \in Users : member[u] = "dead" => u \in recorded /\ stage > 0
  /\ stage > 0 => status # "none"
  /\ resolver.op = "commit" =>
       {u \in Users : resolver.choice[u] # "none"} \subseteq Submitted

GameInv == ShapeInv /\ ControlInv /\ DeadInv

-----------------------------------------------------------------------------
LEMMA RequestIsTyped ==
  ASSUME ShapeInv, NEW h \in DieHandlers
  PROVE  /\ dieReq[h].op \in {"join", "leave", "submit"} => dieReq[h].user \in Users
         /\ dieReq[h].op = "start" => dieReq[h].paying \in SUBSET Users
         /\ dieReq[h].op = "submit" =>
              dieReq[h].stage \in 1 .. MaxStages /\ dieReq[h].pick \in Options
         /\ dieReq[h].op # "idle" <=> dieReq[h] # Idle
BY DEF ShapeInv, DieRequests, Idle

LEMMA ResolverIsTyped ==
  ASSUME ShapeInv
  PROVE  /\ resolver.op \in {"read", "schedule", "commit"} =>
              resolver.stage \in 1 .. MaxStages
         /\ resolver.op = "commit" =>
              resolver.member \in Memberships /\ resolver.choice \in Choices
         /\ resolver.op \in {"refundCoin", "refundRow"} =>
              resolver.todo \in SUBSET Users
         /\ resolver.op = "refundRow" => resolver.user \in Users
         /\ resolver.op # "idle" <=> resolver # Idle
BY DEF ShapeInv, Resolvers, Idle

(* The requests stay well formed, and no game starts.                      *)
KeepsRequests ==
  /\ dieReq' \in [DieHandlers -> DieRequests \cup {Idle}]
  /\ \A g \in DieHandlers :
       dieReq'[g].op = "schedule" <=> dieReq[g].op = "schedule"

(* The steps of a message that neither start a game nor set its timer.     *)
ReadStep(h) ==
  \/ StartRead(h) \/ DieFail(h)
  \/ \E u \in Users :
       \/ JoinRead(h, u) \/ LeaveRead(h, u)
       \/ \E side \in Options : SubmitRead(h, u, side)

CommitStep(h) ==
  JoinCommit(h) \/ CancelCommit(h) \/ LeaveCommit(h) \/ SubmitCommit(h)

StartStep(h) == StartCommit(h) \/ StartSchedule(h) \/ StartAnnounceFails(h)

(* What a resolution, an announcement and a refund under way do.           *)
ResolverStep ==
  \/ ResolveRead \/ ResolveNothing \/ ResolveThrows
  \/ AnnounceDone \/ AnnounceFails
  \/ RefundRead \/ (\E u \in Users : RefundCoin(u)) \/ RefundRow \/ RefundEnd

ResolutionStep ==
  \E ch \in AutoPicks : resolver.op = "commit" /\ (FinishCommit(ch) \/ NextStageCommit(ch))

LEMMA StepCases ==
  ASSUME [MajorityDieNext]_vars
  PROVE  \/ CreateRoom
         \/ \E h \in DieHandlers : ReadStep(h) \/ CommitStep(h) \/ StartStep(h)
         \/ TimerFires \/ ResolverStep \/ ResolutionStep \/ ResolveSchedule
         \/ Crash
         \/ UNCHANGED vars
BY DEF MajorityDieNext, QuietNext, ClientNext, Scheduling, StartUnannounced,
       ResolverNext, ReadStep, CommitStep, StartStep, ResolverStep, ResolutionStep

LEMMA ReadSteps ==
  ASSUME ShapeInv, NEW h \in DieHandlers, ReadStep(h)
  PROVE  /\ UNCHANGED <<ledgerVars, roomVars, stageVars, timer, resolver, returned>>
         /\ KeepsRequests
<1>1. UNCHANGED <<ledgerVars, roomVars, stageVars, timer, resolver, returned>>
  BY DEF ReadStep, StartRead, DieFail, JoinRead, LeaveRead, SubmitRead
<1>2. ASSUME NEW q \in DieRequests \cup {Idle}, q.op # "schedule",
             dieReq[h].op # "schedule", dieReq' = [dieReq EXCEPT ![h] = q]
      PROVE  KeepsRequests
  BY <1>2 DEF ShapeInv, KeepsRequests
<1>3. ASSUME NEW q \in DieRequests \cup {Idle}, q.op # "schedule", Begin(h, q)
      PROVE  KeepsRequests
  <2>1. dieReq[h].op = "idle" /\ dieReq' = [dieReq EXCEPT ![h] = q]
    BY <1>3 DEF Begin, Idle
  <2>2. QED
    BY <1>2, <1>3, <2>1
<1>4. ASSUME StartRead(h) PROVE KeepsRequests
  <2>1. Members \in SUBSET Users
    BY DEF Members
  <2>2. QED
    BY <1>3, <1>4, <2>1 DEF StartRead, DieRequests
<1>5. ASSUME DieFail(h) PROVE KeepsRequests
  BY <1>2, <1>5 DEF DieFail, Done, Idle
<1>6. ASSUME NEW u \in Users, JoinRead(h, u) \/ LeaveRead(h, u)
      PROVE  KeepsRequests
  BY <1>3, <1>6 DEF JoinRead, LeaveRead, DieRequests
<1>7. ASSUME NEW u \in Users, NEW side \in Options, SubmitRead(h, u, side)
      PROVE  KeepsRequests
  <2>1. stage \in 1 .. MaxStages
    BY <1>7 DEF SubmitRead, ShapeInv
  <2>2. QED
    BY <1>3, <1>7, <2>1 DEF SubmitRead, DieRequests
<1>8. QED
  BY <1>1, <1>4, <1>5, <1>6, <1>7 DEF ReadStep

LEMMA CommitSteps ==
  ASSUME ShapeInv, NEW h \in DieHandlers, CommitStep(h)
  PROVE  /\ UNCHANGED <<ledgerVars, stake, stage, stageOpen, timer, resolver, returned>>
         /\ KeepsRequests
         /\ status' = status \/ status' = "cancelled"
         /\ \A u \in Users : member'[u] = "dead" <=> member[u] = "dead" /\ u \in Members'
<1>1. /\ UNCHANGED <<ledgerVars, stake, stage, stageOpen, timer, resolver, returned>>
      /\ dieReq[h].op # "schedule" /\ Done(h)
      /\ status' = status \/ status' = "cancelled"
  BY DEF CommitStep, JoinCommit, CancelCommit, LeaveCommit, SubmitCommit,
         roomVars, stageVars
<1>2. KeepsRequests
  BY <1>1 DEF ShapeInv, Done, Idle, KeepsRequests
<1>3. \A u \in Users : member'[u] = "dead" <=> member[u] = "dead" /\ u \in Members'
  <2>1. CASE member' = member
    BY <2>1 DEF Members
  <2>2. CASE JoinCommit(h) \/ LeaveCommit(h)
    BY <2>2 DEF JoinCommit, LeaveCommit, ShapeInv, Memberships, Members
  <2>3. QED
    BY <2>1, <2>2 DEF CommitStep, CancelCommit, SubmitCommit, roomVars
<1>4. QED
  BY <1>1, <1>2, <1>3

-----------------------------------------------------------------------------
(* Participants and their submissions.                                     *)
RowsInv ==
  /\ member \in Memberships /\ choice \in Choices
  /\ recorded \subseteq Members /\ Submitted \subseteq Members

LEMMA CommitsKeepRows ==
  ASSUME ShapeInv, NEW h \in DieHandlers, CommitStep(h)
  PROVE  /\ RowsInv'
         /\ recorded \subseteq recorded' /\ Submitted \subseteq Submitted'
<1> DEFINE r == dieReq[h]
<1>0. RowsInv
  BY DEF ShapeInv, RowsInv
<1>1. CASE JoinCommit(h)
  <2>1. /\ r.user \in Users /\ member' = [member EXCEPT ![r.user] = "alive"]
        /\ recorded' = recorded /\ choice' = choice
    BY <1>1, RequestIsTyped DEF JoinCommit, stageVars
  <2>2. member' \in Memberships /\ Members \subseteq Members'
    BY <1>0, <2>1 DEF RowsInv, Memberships, Members
  <2>3. Submitted' = Submitted
    BY <2>1 DEF Submitted
  <2>4. QED
    BY <1>0, <2>1, <2>2, <2>3 DEF RowsInv
<1>2. CASE CancelCommit(h)
  <2>1. /\ member' = member /\ recorded' = recorded /\ choice' = choice
        /\ Members' = Members /\ Submitted' = Submitted
    BY <1>2 DEF CancelCommit, stageVars, Members, Submitted
  <2>2. QED
    BY <1>0, <2>1 DEF RowsInv
<1>3. CASE LeaveCommit(h)
  <2>1. /\ r.user \in Members \ (recorded \cup Submitted)
        /\ member' = [member EXCEPT ![r.user] = "out"]
        /\ recorded' = recorded /\ choice' = choice /\ Submitted' = Submitted
    BY <1>3 DEF LeaveCommit, Deletable, stageVars, Submitted
  <2>2. member' \in Memberships /\ Members' = Members \ {r.user}
    BY <1>0, <2>1 DEF RowsInv, Memberships, Members
  <2>3. QED
    BY <1>0, <2>1, <2>2 DEF RowsInv
<1>4. CASE SubmitCommit(h)
  <2>1. /\ r.user \in Members /\ r.user \in Users /\ r.pick \in Options
        /\ member' = member /\ Members' = Members
    BY <1>4, RequestIsTyped DEF SubmitCommit, roomVars, Members
  <2>2. CASE r.stage = stage
    <3>1. recorded' = recorded /\ choice' = [choice EXCEPT ![r.user] = r.pick]
      BY <1>4, <2>2 DEF SubmitCommit
    <3>2. choice' \in Choices /\ Submitted' = Submitted \cup {r.user}
      BY <1>0, <2>1, <3>1 DEF RowsInv, Choices, Options, Submitted
    <3>3. QED
      BY <1>0, <2>1, <3>1, <3>2 DEF RowsInv
  <2>3. CASE r.stage # stage
    <3>1. /\ recorded' = recorded \cup {r.user} /\ choice' = choice
          /\ Submitted' = Submitted
      BY <1>4, <2>3 DEF SubmitCommit, Submitted
    <3>2. QED
      BY <1>0, <2>1, <3>1 DEF RowsInv
  <2>4. QED
    BY <2>2, <2>3
<1>5. QED
  BY <1>1, <1>2, <1>3, <1>4 DEF CommitStep

LEMMA MessagesKeepGame ==
  ASSUME GameInv, RowsInv', KeepsRequests,
         UNCHANGED <<stage, stageOpen, timer, resolver>>,
         status' \in {status, "cancelled", "waiting"},
         recorded \subseteq recorded', Submitted \subseteq Submitted',
         \A u \in Users : member'[u] = "dead" => member[u] = "dead"
  PROVE  GameInv'
<1>1. ShapeInv'
  BY DEF GameInv, ShapeInv, RowsInv, KeepsRequests
<1>2. ControlInv'
  BY DEF GameInv, ControlInv, OneResolution, KeepsRequests
<1>3. DeadInv'
  BY DEF GameInv, DeadInv
<1>4. QED
  BY <1>1, <1>2, <1>3 DEF GameInv

LEMMA ClientsKeepGame ==
  ASSUME GameInv, CreateRoom \/ \E h \in DieHandlers : ReadStep(h) \/ CommitStep(h)
  PROVE  GameInv'
<1>0. ShapeInv
  BY DEF GameInv
<1>1. CASE CreateRoom
  <2>1. /\ UNCHANGED <<stage, stageOpen, timer, resolver, choice, recorded, dieReq>>
        /\ status' = "waiting" /\ member' = [member EXCEPT ![Host] = "alive"]
    BY <1>1 DEF CreateRoom, stageVars, serverVars
  <2>2. Host \in Users
    BY MajorityDieAssumption
  <2>3. /\ member' \in Memberships /\ Members \subseteq Members'
        /\ \A u \in Users : member'[u] = "dead" => member[u] = "dead"
    BY <1>0, <2>1, <2>2 DEF ShapeInv, Memberships, Members
  <2>4. Submitted' = Submitted
    BY <2>1 DEF Submitted
  <2>5. RowsInv' /\ KeepsRequests
    BY <1>0, <2>1, <2>3, <2>4 DEF ShapeInv, RowsInv, KeepsRequests
  <2>6. QED
    BY <2>1, <2>3, <2>4, <2>5, MessagesKeepGame
<1>2. ASSUME NEW h \in DieHandlers, ReadStep(h) PROVE GameInv'
  <2>1. /\ UNCHANGED <<stage, stageOpen, timer, resolver, choice, recorded>>
        /\ status' = status /\ member' = member /\ KeepsRequests
    BY <1>0, <1>2, ReadSteps DEF roomVars, stageVars
  <2>2. Members' = Members /\ Submitted' = Submitted
    BY <2>1 DEF Members, Submitted
  <2>3. RowsInv'
    BY <1>0, <2>1, <2>2 DEF ShapeInv, RowsInv
  <2>4. QED
    BY <2>1, <2>2, <2>3, MessagesKeepGame
<1>3. ASSUME NEW h \in DieHandlers, CommitStep(h) PROVE GameInv'
  BY <1>0, <1>3, CommitSteps, CommitsKeepRows, MessagesKeepGame
<1>4. QED
  BY <1>1, <1>2, <1>3

-----------------------------------------------------------------------------
(* The start.                                                              *)
LEMMA StartFacts ==
  ASSUME GameInv, NEW h \in DieHandlers, StartCommit(h)
  PROVE  /\ stage = 0 /\ ~stageOpen /\ timer = 0 /\ resolver = Idle
         /\ \A g \in DieHandlers : dieReq[g].op # "schedule"
         /\ \A u \in Users : member[u] # "dead"
<1>0. ShapeInv /\ ControlInv /\ DeadInv
  BY DEF GameInv
<1>1. stage = 0 /\ ~stageOpen
  BY <1>0 DEF StartCommit, OpenStage, StageFree, ShapeInv
<1>2. timer = 0 /\ resolver = Idle
  BY <1>0, <1>1 DEF ControlInv, OneResolution
<1>3. \A g \in DieHandlers : dieReq[g].op # "schedule"
  BY <1>0, <1>1 DEF ControlInv
<1>4. \A u \in Users : member[u] # "dead"
  <2>1. ~(stage > 0)
    BY <1>1
  <2>2. QED
    BY <1>0, <2>1 DEF DeadInv
<1>5. QED
  BY <1>1, <1>2, <1>3, <1>4

LEMMA StartKeepsGame ==
  ASSUME GameInv, NEW h \in DieHandlers, StartStep(h)
  PROVE  GameInv'
<1>0. ShapeInv /\ ControlInv /\ DeadInv
  BY DEF GameInv
<1>1. CASE StartCommit(h)
  <2>1. /\ status' = "playing" /\ stage' = 1 /\ stageOpen' = TRUE
        /\ choice' = NoChoice
        /\ member' = [u \in Users |-> IF u \in Members THEN "alive" ELSE "out"]
        /\ dieReq' = [dieReq EXCEPT ![h] = [op |-> "schedule"]]
        /\ UNCHANGED <<recorded, timer, resolver>>
    BY <1>1 DEF StartCommit, OpenStage
  <2>2. /\ member' \in Memberships /\ Members' = Members
        /\ \A u \in Users : member'[u] # "dead"
    BY <2>1 DEF Memberships, Members
  <2>3. choice' \in Choices /\ Submitted' = {}
    BY <2>1 DEF NoChoice, Choices, Submitted
  <2>4. stageOpen' \in BOOLEAN
    BY <2>1, Zenon
  <2>5. /\ dieReq' \in [DieHandlers -> DieRequests \cup {Idle}]
        /\ dieReq'[h].op = "schedule"
        /\ \A g \in DieHandlers \ {h} : dieReq'[g] = dieReq[g]
    BY <1>0, <2>1 DEF ShapeInv, DieRequests
  <2>6. ShapeInv'
    BY <1>0, <2>1, <2>2, <2>3, <2>4, <2>5, MajorityDieAssumption DEF ShapeInv
  <2>7. ControlInv' /\ DeadInv'
    BY <1>1, <2>1, <2>2, <2>5, StartFacts
       DEF ControlInv, OneResolution, DeadInv, Idle
  <2>8. QED
    BY <2>6, <2>7 DEF GameInv
<1>2. CASE StartSchedule(h) \/ StartAnnounceFails(h)
  <2>1. /\ dieReq[h].op = "schedule" /\ timer' \in {timer, 1}
        /\ dieReq' = [dieReq EXCEPT ![h] = Idle]
        /\ UNCHANGED <<status, member, stage, stageOpen, choice, recorded, resolver>>
    BY <1>2 DEF StartSchedule, StartAnnounceFails, Done, roomVars, stageVars
  <2>2. Members' = Members /\ Submitted' = Submitted
    BY <2>1 DEF Members, Submitted
  <2>3. stage = 1 /\ stageOpen /\ resolver = Idle /\ timer = 0
        /\ \A g \in DieHandlers : dieReq[g].op = "schedule" => g = h
    BY <1>0, <2>1 DEF ControlInv
  <2>4. \A g \in DieHandlers : dieReq'[g].op # "schedule"
    BY <1>0, <2>1, <2>3 DEF ShapeInv, Idle
  <2>5. dieReq' \in [DieHandlers -> DieRequests \cup {Idle}]
    BY <1>0, <2>1 DEF ShapeInv
  <2>6. ShapeInv'
    BY <1>0, <2>1, <2>2, <2>3, <2>5, MajorityDieAssumption DEF ShapeInv
  <2>7. ControlInv' /\ DeadInv'
    BY <1>0, <2>1, <2>2, <2>3, <2>4
       DEF ControlInv, OneResolution, DeadInv, Idle
  <2>8. QED
    BY <2>6, <2>7 DEF GameInv
<1>3. QED
  BY <1>1, <1>2 DEF StartStep

-----------------------------------------------------------------------------
(* Resolutions.                                                            *)
LEMMA ResolverMoves ==
  ASSUME GameInv, resolver # Idle \/ timer # 0,
         timer' = 0, resolver' \in Resolvers \cup {Idle},
         resolver'.op \in {"read", "commit", "schedule"} =>
           stageOpen /\ resolver'.stage = stage,
         resolver'.op = "announce" => status' # "playing",
         resolver'.op = "commit" =>
           {u \in Users : resolver'.choice[u] # "none"} \subseteq Submitted,
         status' \in {status, "cancelled"},
         UNCHANGED <<member, stageVars, dieReq>>
  PROVE  GameInv'
<1>0. ShapeInv /\ ControlInv /\ DeadInv
  BY DEF GameInv
<1>1. /\ UNCHANGED <<stage, stageOpen, choice, recorded>>
      /\ Members' = Members /\ Submitted' = Submitted
  BY DEF stageVars, Members, Submitted
<1>2. ShapeInv'
  BY <1>0, <1>1, MajorityDieAssumption DEF ShapeInv
<1>3. stage > 0
  <2>1. CASE resolver # Idle
    BY <1>0, <2>1 DEF ControlInv
  <2>2. CASE timer # 0
    BY <1>0, <2>2 DEF ControlInv, OneResolution, ShapeInv
  <2>3. QED
    BY <2>1, <2>2
<1>4. \A h \in DieHandlers : dieReq'[h].op # "schedule"
  BY <1>0 DEF ControlInv
<1>5. ControlInv'
  BY <1>1, <1>3, <1>4 DEF ControlInv, OneResolution
<1>6. DeadInv'
  BY <1>0, <1>1 DEF DeadInv
<1>7. QED
  BY <1>2, <1>5, <1>6 DEF GameInv

LEMMA ResolverKeepsGame ==
  ASSUME GameInv, TimerFires \/ ResolverStep \/ ResolveSchedule
  PROVE  GameInv'
<1>0. ShapeInv /\ ControlInv /\ DeadInv
  BY DEF GameInv
<1>1. CASE TimerFires
  <2>1. /\ timer \in 1 .. MaxStages /\ timer = stage /\ stageOpen /\ timer' = 0
        /\ resolver' = [op |-> "read", stage |-> timer] /\ status' = status
        /\ UNCHANGED <<member, stageVars, dieReq>>
    BY <1>0, <1>1 DEF TimerFires, TimerDue, ShapeInv, ControlInv, OneResolution, roomVars
  <2>2. resolver' \in Resolvers
    BY <2>1 DEF Resolvers
  <2>3. QED
    BY <2>1, <2>2, ResolverMoves
<1>2. CASE ResolveRead
  <2>1. /\ resolver.op = "read" /\ timer' = timer /\ status' = status
        /\ resolver' = [op |-> "commit", stage |-> resolver.stage,
                        member |-> member, choice |-> choice]
        /\ UNCHANGED <<member, stageVars, dieReq>>
    BY <1>2 DEF ResolveRead, roomVars
  <2>2. resolver' \in Resolvers
    BY <1>0, <2>1, ResolverIsTyped DEF Resolvers, ShapeInv
  <2>3. timer' = 0 /\ resolver # Idle /\ stageOpen /\ resolver.stage = stage
    BY <1>0, <2>1, ResolverIsTyped DEF ControlInv
  <2>4. {u \in Users : resolver'.choice[u] # "none"} = Submitted
    BY <2>1 DEF Submitted
  <2>5. QED
    BY <2>1, <2>2, <2>3, <2>4, ResolverMoves
<1>3. ASSUME resolver # Idle, timer' = timer, UNCHANGED <<member, stageVars, dieReq>>,
             status' \in {status, "cancelled"}, resolver' \in Resolvers \cup {Idle},
             resolver'.op \notin {"read", "commit", "schedule", "announce"}
      PROVE  GameInv'
  <2>1. timer' = 0
    BY <1>0, <1>3 DEF ControlInv
  <2>2. QED
    BY <1>3, <2>1, ResolverMoves
<1>4. CASE ResolveNothing \/ AnnounceDone
  <2>1. resolver # Idle /\ timer' = timer /\ status' = status /\ resolver' = Idle
        /\ UNCHANGED <<member, stageVars, dieReq>>
    BY <1>0, <1>4, ResolverIsTyped DEF ResolveNothing, AnnounceDone, roomVars
  <2>2. QED
    BY <1>3, <2>1 DEF Idle
<1>5. CASE ResolveThrows \/ AnnounceFails
  <2>1. resolver # Idle /\ timer' = timer /\ status' = status
        /\ resolver' = [op |-> "refund"] /\ UNCHANGED <<member, stageVars, dieReq>>
    BY <1>0, <1>5, ResolverIsTyped DEF ResolveThrows, AnnounceFails, roomVars
  <2>2. QED
    BY <1>3, <2>1 DEF Resolvers
<1>6. CASE RefundRead
  <2>1. resolver # Idle /\ timer' = timer /\ status' = status
        /\ resolver' = [op |-> "refundCoin", todo |-> IF stake > 0 THEN Members ELSE {}]
        /\ UNCHANGED <<member, stageVars, dieReq>>
    BY <1>0, <1>6, ResolverIsTyped DEF RefundRead, roomVars
  <2>2. resolver' \in Resolvers /\ resolver'.op = "refundCoin"
    BY <2>1 DEF Resolvers, Members
  <2>3. QED
    BY <1>3, <2>1, <2>2
<1>7. ASSUME NEW u \in Users, RefundCoin(u) PROVE GameInv'
  <2>1. resolver # Idle /\ timer' = timer /\ status' = status
        /\ resolver' = [op |-> "refundRow", todo |-> resolver.todo \ {u}, user |-> u]
        /\ resolver.todo \in SUBSET Users
        /\ UNCHANGED <<member, stageVars, dieReq>>
    BY <1>0, <1>7, ResolverIsTyped DEF RefundCoin, roomVars
  <2>2. resolver' \in Resolvers /\ resolver'.op = "refundRow"
    BY <2>1 DEF Resolvers
  <2>3. QED
    BY <1>3, <2>1, <2>2
<1>8. CASE RefundRow
  <2>1. resolver # Idle /\ timer' = timer /\ status' = status
        /\ resolver' = [op |-> "refundCoin", todo |-> resolver.todo]
        /\ resolver.todo \in SUBSET Users
        /\ UNCHANGED <<member, stageVars, dieReq>>
    BY <1>0, <1>8, ResolverIsTyped DEF RefundRow, roomVars
  <2>2. resolver' \in Resolvers /\ resolver'.op = "refundCoin"
    BY <2>1 DEF Resolvers
  <2>3. QED
    BY <1>3, <2>1, <2>2
<1>9. CASE RefundEnd
  <2>1. resolver # Idle /\ timer' = timer /\ status' = "cancelled" /\ resolver' = Idle
        /\ UNCHANGED <<member, stageVars, dieReq>>
    BY <1>0, <1>9, ResolverIsTyped DEF RefundEnd
  <2>2. QED
    BY <1>3, <2>1 DEF Idle
<1>10. CASE ResolveSchedule
  <2>1. /\ resolver.op = "schedule" /\ timer' = resolver.stage /\ resolver' = Idle
        /\ UNCHANGED <<status, member, stageVars, dieReq>>
    BY <1>10 DEF ResolveSchedule, Armed, roomVars
  <2>2. /\ resolver # Idle /\ stageOpen /\ resolver.stage = stage
        /\ UNCHANGED <<stage, stageOpen, choice, recorded>>
        /\ resolver.stage \in 0 .. MaxStages
    BY <1>0, <2>1, ResolverIsTyped DEF ControlInv, stageVars, ShapeInv
  <2>3. Members' = Members /\ Submitted' = Submitted
    BY <2>1, <2>2 DEF Members, Submitted
  <2>4. ShapeInv'
    BY <1>0, <2>1, <2>2, <2>3 DEF ShapeInv
  <2>5. \A h \in DieHandlers : dieReq'[h].op # "schedule"
    BY <1>0, <2>1, <2>2 DEF ControlInv
  <2>6. ControlInv' /\ DeadInv'
    BY <1>0, <2>1, <2>2, <2>3, <2>5 DEF ControlInv, OneResolution, DeadInv, Idle
  <2>7. QED
    BY <2>4, <2>6 DEF GameInv
<1>11. QED
  BY <1>1, <1>2, <1>4, <1>5, <1>6, <1>7, <1>8, <1>9, <1>10 DEF ResolverStep

(* What a resolution writes: everybody it read alive has a submission row  *)
(* of the stage, and only they die.                                        *)
LEMMA ResolutionWrites ==
  ASSUME GameInv, NEW ch \in AutoPicks, resolver.op = "commit",
         FinishCommit(ch) \/ NextStageCommit(ch)
  PROVE  /\ ch \in Choices
         /\ {u \in Users : ch[u] # "none"} \subseteq recorded'
         /\ recorded \subseteq recorded' /\ recorded' \subseteq Members
         /\ member' \in Memberships /\ Members' = Members
         /\ \A u \in Users : member'[u] = "dead" => u \in recorded'
         /\ \A u \in Users : member[u] = "dead" => member'[u] = "dead"
<1>0. ShapeInv /\ DeadInv /\ ResolveCommon(ch)
  BY DEF GameInv, FinishCommit, NextStageCommit
<1>1. resolver.member \in Memberships /\ resolver.choice \in Choices
  BY <1>0, ResolverIsTyped
<1>2. PICK p \in [Missing -> Options] :
        ch = [u \in Users |-> IF u \in Missing THEN p[u] ELSE resolver.choice[u]]
  BY DEF AutoPicks
<1>3. ch \in Choices
  BY <1>1, <1>2 DEF Choices, Options
<1>4. /\ Missing \subseteq Members
      /\ recorded' = recorded \cup Submitted \cup Missing
      /\ member' = [u \in Users |->
           IF u \in AliveIn(resolver.member) \ Survivors(ch) THEN "dead" ELSE member[u]]
  BY <1>0 DEF ResolveCommon, AutoPicked
<1>5. {u \in Users : ch[u] # "none"} \subseteq recorded'
  BY <1>0, <1>2, <1>4 DEF DeadInv
<1>6. recorded \subseteq recorded' /\ recorded' \subseteq Members
  BY <1>0, <1>4 DEF ShapeInv
<1>7. AliveIn(resolver.member) \subseteq recorded'
  <2>1. ASSUME NEW u \in AliveIn(resolver.member) PROVE u \in recorded'
    <3>1. CASE resolver.choice[u] = "none"
      BY <1>4, <2>1, <3>1 DEF Missing
    <3>2. CASE resolver.choice[u] # "none"
      BY <1>0, <1>4, <2>1, <3>2 DEF DeadInv, AliveIn
    <3>3. QED
      BY <3>1, <3>2
  <2>2. QED
    BY <2>1
<1>8. member' \in Memberships
  BY <1>0, <1>4 DEF ShapeInv, Memberships
<1>9. Members' = Members
  <2>1. AliveIn(resolver.member) \subseteq Members
    BY <1>6, <1>7
  <2>2. QED
    BY <1>4, <2>1 DEF Members
<1>10. /\ \A u \in Users : member'[u] = "dead" => u \in recorded'
       /\ \A u \in Users : member[u] = "dead" => member'[u] = "dead"
  BY <1>0, <1>4, <1>6, <1>7 DEF DeadInv
<1>11. QED
  BY <1>3, <1>5, <1>6, <1>8, <1>9, <1>10

LEMMA ResolutionKeepsGame ==
  ASSUME GameInv, ResolutionStep
  PROVE  GameInv'
<1>0. ShapeInv /\ ControlInv /\ DeadInv
  BY DEF GameInv
<1>1. PICK ch \in AutoPicks :
        resolver.op = "commit" /\ (FinishCommit(ch) \/ NextStageCommit(ch))
  BY DEF ResolutionStep
<1>2. /\ ch \in Choices
      /\ {u \in Users : ch[u] # "none"} \subseteq recorded'
      /\ recorded' \subseteq Members
      /\ member' \in Memberships /\ Members' = Members
      /\ \A u \in Users : member'[u] = "dead" => u \in recorded'
  BY <1>1, ResolutionWrites
<1>3. /\ timer = 0 /\ stage > 0 /\ stageOpen /\ resolver.stage = stage
      /\ stage \in 1 .. MaxStages
      /\ \A h \in DieHandlers : dieReq[h].op # "schedule"
  BY <1>0, <1>1, ResolverIsTyped DEF ControlInv
<1>4. CASE FinishCommit(ch)
  <2>1. /\ status' = "finished" /\ stageOpen' = FALSE /\ choice' = ch
        /\ resolver' = [op |-> "announce"]
        /\ UNCHANGED <<stage, timer, dieReq>>
    BY <1>4 DEF FinishCommit
  <2>2. Submitted' \subseteq recorded'
    BY <1>2, <2>1 DEF Submitted
  <2>3. stageOpen' \in BOOLEAN
    BY <2>1, Zenon
  <2>4. resolver' \in Resolvers
    BY <2>1 DEF Resolvers
  <2>5. ShapeInv'
    BY <1>0, <1>2, <1>3, <2>1, <2>2, <2>3, <2>4 DEF ShapeInv
  <2>6. ControlInv' /\ DeadInv'
    BY <1>0, <1>2, <1>3, <2>1 DEF ControlInv, OneResolution, DeadInv, ShapeInv
  <2>7. QED
    BY <2>5, <2>6 DEF GameInv
<1>5. CASE NextStageCommit(ch)
  <2>1. /\ status' = status /\ stage' = stage + 1 /\ stageOpen' = TRUE
        /\ choice' = NoChoice /\ stage < MaxStages
        /\ resolver' = [op |-> "schedule", stage |-> stage + 1]
        /\ UNCHANGED <<timer, dieReq>>
    BY <1>3, <1>5 DEF NextStageCommit, OpenStage
  <2>2. choice' \in Choices /\ Submitted' = {}
    BY <2>1 DEF NoChoice, Choices, Submitted
  <2>3. stageOpen' \in BOOLEAN
    BY <2>1, Zenon
  <2>4. stage' \in 1 .. MaxStages
    BY <1>3, <2>1, MajorityDieAssumption
  <2>5. resolver' \in Resolvers
    BY <2>1, <2>4 DEF Resolvers
  <2>6. ShapeInv'
    BY <1>0, <1>2, <2>1, <2>2, <2>3, <2>4, <2>5 DEF ShapeInv
  <2>7. ControlInv' /\ DeadInv'
    BY <1>0, <1>2, <1>3, <2>1, <2>4 DEF ControlInv, OneResolution, DeadInv, ShapeInv
  <2>8. QED
    BY <2>6, <2>7 DEF GameInv
<1>6. QED
  BY <1>1, <1>4, <1>5

-----------------------------------------------------------------------------
LEMMA GameInitially ==
  ASSUME MajorityDieInit
  PROVE  GameInv
<1>1. /\ status = "none" /\ member = [u \in Users |-> "out"]
      /\ stage = 0 /\ stageOpen = FALSE /\ choice = NoChoice /\ recorded = {}
      /\ timer = 0 /\ resolver = Idle /\ dieReq = [h \in DieHandlers |-> Idle]
  BY DEF MajorityDieInit
<1>2. Members = {} /\ Submitted = {}
  BY <1>1 DEF Members, Submitted, NoChoice
<1>3. stageOpen \in BOOLEAN
  BY <1>1, Zenon
<1>4. member \in Memberships /\ choice \in Choices
  BY <1>1 DEF Memberships, Choices, NoChoice
<1>5. ShapeInv
  BY <1>1, <1>2, <1>3, <1>4, MajorityDieAssumption DEF ShapeInv
<1>6. ControlInv /\ DeadInv
  BY <1>1 DEF ControlInv, OneResolution, DeadInv, Idle
<1>7. QED
  BY <1>5, <1>6 DEF GameInv

LEMMA GameNext ==
  ASSUME GameInv, [MajorityDieNext]_vars
  PROVE  GameInv'
<1>0. ShapeInv /\ ControlInv /\ DeadInv
  BY DEF GameInv
<1>1. CASE Crash
  <2>1. /\ timer' = 0 /\ resolver' = Idle
        /\ dieReq' = [h \in DieHandlers |-> Idle]
        /\ UNCHANGED <<status, member, stage, stageOpen, choice, recorded>>
    BY <1>1 DEF Crash, roomVars, stageVars
  <2>2. Members' = Members /\ Submitted' = Submitted
    BY <2>1 DEF Members, Submitted
  <2>3. ShapeInv'
    BY <1>0, <2>1, <2>2, MajorityDieAssumption DEF ShapeInv
  <2>4. ControlInv' /\ DeadInv'
    BY <1>0, <2>1, <2>2 DEF ControlInv, OneResolution, DeadInv, Idle
  <2>5. QED
    BY <2>3, <2>4 DEF GameInv
<1>2. CASE UNCHANGED vars
  <2>1. UNCHANGED <<status, member, stage, stageOpen, choice, recorded,
                    timer, resolver, dieReq>>
    BY <1>2 DEF vars, roomVars, stageVars, serverVars
  <2>2. Members' = Members /\ Submitted' = Submitted
    BY <2>1 DEF Members, Submitted
  <2>3. ShapeInv' /\ ControlInv' /\ DeadInv'
    BY <1>0, <2>1, <2>2 DEF ShapeInv, ControlInv, OneResolution, DeadInv
  <2>4. QED
    BY <2>3 DEF GameInv
<1>3. QED
  BY <1>1, <1>2, StepCases, ClientsKeepGame, StartKeepsGame, ResolverKeepsGame,
     ResolutionKeepsGame

THEOREM GameCorrect == MajorityDieSpec => []GameInv
<1>1. MajorityDieInit => GameInv
  BY GameInitially
<1>2. GameInv /\ [MajorityDieNext]_vars => GameInv'
  BY GameNext
<1>3. QED
  BY <1>1, <1>2, PTL DEF MajorityDieSpec

-----------------------------------------------------------------------------
(* Money.  What a user's coin is ahead of the rows that explain it.        *)
Lag(u) == coin[u] - StartCoin[u] - booked[u]
NoLag == \A u \in Users : Lag(u) = 0

MoneyInv ==
  /\ coin \in [Users -> Int4] /\ booked \in [Users -> Int]
  /\ stake \in Nat /\ returned \in Nat

(* A game nothing will ever resolve or refund any more.                    *)
Over ==
  /\ stage > 0 /\ timer = 0 /\ resolver = Idle
  /\ \A h \in DieHandlers : dieReq[h].op # "schedule"

(* A missing row is the one the refund under way is about to write, or one *)
(* that a restart has kept it from writing: then nothing pays any more.    *)
LagInv ==
  /\ LedgerLagsOneRefund
  /\ resolver.op = "refundRow" => Lag(resolver.user) = EntryStake
  /\ \A u \in Users : Lag(u) # 0 =>
       Over \/ (resolver.op = "refundRow" /\ resolver.user = u)

LEMMA UsersCounted ==
  ASSUME NEW S \in SUBSET Users
  PROVE  IsFiniteSet(S) /\ Cardinality(S) \in Nat /\ (Cardinality(S) = 0 <=> S = {})
BY FS_Subset, FS_CardinalityType, FS_EmptySet, UsersAssumption

LEMMA ConstantsAreInts ==
  /\ EntryStake \in Nat \ {0} /\ Int4 \subseteq Int /\ NoUser \notin Users
  /\ \A u \in Users : StartCoin[u] \in Int
BY LedgerAssumption, MajorityDieAssumption DEF Int4

(* Paying with rows leaves no lag behind.                                  *)
LEMMA PayEachIsLogged ==
  ASSUME MoneyInv, NEW a \in [Users -> Int], PayEach(a)
  PROVE  /\ coin' \in [Users -> Int4] /\ booked' \in [Users -> Int]
         /\ \A u \in Users : Lag(u)' = Lag(u)
<1>1. coin' \in [Users -> Int4] /\ booked' \in [Users -> Int]
  BY DEF MoneyInv, PayEach, Fits
<1>2. ASSUME NEW u \in Users PROVE Lag(u)' = Lag(u)
  <2>1. coin'[u] = coin[u] + a[u] /\ booked'[u] = booked[u] + a[u]
    BY DEF PayEach
  <2>2. coin[u] \in Int /\ booked[u] \in Int /\ a[u] \in Int /\ StartCoin[u] \in Int
    BY ConstantsAreInts DEF MoneyInv
  <2>3. QED
    BY <2>1, <2>2 DEF Lag
<1>3. QED
  BY <1>1, <1>2

LEMMA SplitIsTyped ==
  ASSUME MoneyInv, NEW W \in SUBSET Users, W # {}, NEW pay \in SplitPot(stake, W)
  PROVE  pay \in [Users -> Int]
<1>1. Cardinality(W) \in Nat \ {0}
  BY UsersCounted
<1>2. stake \div Cardinality(W) \in Int
  BY <1>1 DEF MoneyInv
<1>3. QED
  BY <1>2 DEF SplitPot

LEMMA FinishHasSurvivors ==
  ASSUME NEW ch \in AutoPicks, FinishCommit(ch)
  PROVE  Survivors(ch) \in SUBSET Users /\ Survivors(ch) # {}
<1>1. Minority(ch) # {}
  BY DEF FinishCommit, ShouldFinish
<1>2. Survivors(ch) = UNION {On(ch, s) : s \in Minority(ch)}
  BY <1>1 DEF Survivors
<1>3. \A s \in Minority(ch) : On(ch, s) # {} /\ On(ch, s) \subseteq Users
  BY DEF Minority, On
<1>4. QED
  BY <1>1, <1>2, <1>3

LEMMA FinishPays ==
  ASSUME MoneyInv, NEW ch \in AutoPicks, FinishCommit(ch)
  PROVE  \E pay \in [Users -> Int] : PayEach(pay)
<1>1. PICK pay \in SplitPot(stake, Survivors(ch)) : PayEach(pay)
  BY DEF FinishCommit
<1>2. pay \in [Users -> Int]
  BY <1>1, FinishHasSurvivors, SplitIsTyped
<1>3. QED
  BY <1>1, <1>2

LEMMA StartPays ==
  ASSUME NEW h \in DieHandlers, StartCommit(h)
  PROVE  \E pay \in [Users -> Int] : PayEach(pay)
<1>1. [u \in Users |-> IF u \in dieReq[h].paying THEN -EntryStake ELSE 0]
        \in [Users -> Int]
  BY ConstantsAreInts
<1>2. QED
  BY <1>1 DEF StartCommit

(* The other steps of the room pay nothing; a refund pays one coin and     *)
(* then its row.                                                           *)
LEMMA QuietSteps ==
  /\ CreateRoom \/ TimerFires \/ ResolveSchedule \/ Crash \/ UNCHANGED vars =>
       UNCHANGED <<ledgerVars, stake, returned>>
  /\ \A h \in DieHandlers : StartSchedule(h) \/ StartAnnounceFails(h) =>
       UNCHANGED <<ledgerVars, stake, returned>>
  /\ \A ch : NextStageCommit(ch) => UNCHANGED <<ledgerVars, stake, returned>>
  /\ ResolverStep =>
       \/ UNCHANGED <<ledgerVars, stake, returned>>
       \/ RefundRow \/ \E u \in Users : RefundCoin(u)
BY DEF CreateRoom, TimerFires, ResolveSchedule, Crash, vars, roomVars, ResolverStep,
       StartSchedule, StartAnnounceFails, NextStageCommit, ResolveRead, ResolveNothing,
       ResolveThrows, AnnounceDone, AnnounceFails, RefundRead, RefundEnd

LEMMA RefundsAreTyped ==
  ASSUME MoneyInv, ShapeInv, RefundRow \/ \E u \in Users : RefundCoin(u)
  PROVE  MoneyInv'
<1>1. CASE RefundRow
  <2>1. /\ booked' = Row(booked, NoUser, resolver.user, EntryStake)
        /\ UNCHANGED <<coin, stake, returned>>
    BY <1>1 DEF RefundRow, RefundBooked, roomVars
  <2>2. QED
    BY <2>1, ConstantsAreInts DEF MoneyInv, Row
<1>2. ASSUME NEW u \in Users, RefundCoin(u) PROVE MoneyInv'
  <2>1. /\ coin' = [coin EXCEPT ![u] = @ + EntryStake] /\ Fits(coin')
        /\ returned' = returned + EntryStake /\ UNCHANGED <<booked, stake>>
    BY <1>2 DEF RefundCoin, Credit, roomVars
  <2>2. DOMAIN coin' = Users /\ coin' = [v \in Users |-> coin'[v]]
    BY <2>1 DEF MoneyInv
  <2>3. coin' \in [Users -> Int4]
    BY <2>1, <2>2 DEF Fits
  <2>4. QED
    BY <2>1, <2>3, ConstantsAreInts DEF MoneyInv
<1>3. QED
  BY <1>1, <1>2

LEMMA MoneyNext ==
  ASSUME MoneyInv, GameInv, [MajorityDieNext]_vars
  PROVE  MoneyInv'
<1>0. ShapeInv
  BY DEF GameInv
<1>1. ASSUME UNCHANGED <<ledgerVars, stake, returned>> PROVE MoneyInv'
  BY <1>1 DEF MoneyInv, ledgerVars
<1>2. ASSUME NEW h \in DieHandlers, StartCommit(h) PROVE MoneyInv'
  <2>1. coin' \in [Users -> Int4] /\ booked' \in [Users -> Int]
    BY <1>2, StartPays, PayEachIsLogged
  <2>2. dieReq[h].paying \in SUBSET Users
    BY <1>0, <1>2, RequestIsTyped DEF StartCommit
  <2>3. Cardinality(dieReq[h].paying) \in Nat
    BY <2>2, UsersCounted
  <2>4. stake' \in Nat
    BY <1>2, <2>3, ConstantsAreInts DEF StartCommit
  <2>5. QED
    BY <1>2, <2>1, <2>4 DEF MoneyInv, StartCommit
<1>3. ASSUME NEW ch \in AutoPicks, FinishCommit(ch) PROVE MoneyInv'
  <2>1. coin' \in [Users -> Int4] /\ booked' \in [Users -> Int]
    BY <1>3, FinishPays, PayEachIsLogged
  <2>2. returned' \in Nat /\ stake' \in Nat
    BY <1>3 DEF MoneyInv, FinishCommit
  <2>3. QED
    BY <2>1, <2>2 DEF MoneyInv
<1>4. CASE ResolverStep
  BY <1>0, <1>1, <1>4, QuietSteps, RefundsAreTyped
<1>5. CASE ResolutionStep
  BY <1>1, <1>3, <1>5, QuietSteps DEF ResolutionStep
<1>6. ASSUME NEW h \in DieHandlers, ReadStep(h) \/ CommitStep(h) \/ StartStep(h)
      PROVE  MoneyInv'
  <2>1. CASE ReadStep(h) \/ CommitStep(h)
    BY <1>0, <1>1, <2>1, ReadSteps, CommitSteps DEF roomVars
  <2>2. CASE StartStep(h)
    BY <1>1, <1>2, <2>2, QuietSteps DEF StartStep
  <2>3. QED
    BY <1>6, <2>1, <2>2
<1>7. QED
  BY <1>1, <1>4, <1>5, <1>6, StepCases, QuietSteps

-----------------------------------------------------------------------------
(* Lags.                                                                   *)
LEMMA NobodyLags ==
  ASSUME LagInv, ~Over, resolver.op # "refundRow"
  PROVE  NoLag
BY DEF LagInv, NoLag

LEMMA NoLagKeepsLagInv ==
  ASSUME NoLag', resolver'.op # "refundRow"
  PROVE  LagInv'
<1>1. \A u \in Users : Lag(u)' = 0
  BY DEF NoLag
<1>2. LedgerLagsOneRefund'
  BY <1>1 DEF LedgerLagsOneRefund, Lag
<1>3. QED
  BY <1>1, <1>2 DEF LagInv

LEMMA SameLags ==
  ASSUME UNCHANGED ledgerVars
  PROVE  \A u \in Users : Lag(u)' = Lag(u)
BY DEF ledgerVars, Lag

(* Nothing of the game moves: the same lags are explained.                 *)
LEMMA LagsStay ==
  ASSUME LagInv, UNCHANGED <<ledgerVars, stage, timer, resolver>>, KeepsRequests
  PROVE  LagInv'
<1>1. \A u \in Users : Lag(u)' = Lag(u)
  BY SameLags
<1>2. LedgerLagsOneRefund'
  BY <1>1 DEF LagInv, LedgerLagsOneRefund, Lag
<1>3. Over' <=> Over
  BY DEF Over, KeepsRequests
<1>4. resolver'.op = "refundRow" => Lag(resolver.user)' = EntryStake
  BY DEF LagInv, Lag, ledgerVars
<1>5. QED
  BY <1>1, <1>2, <1>3, <1>4 DEF LagInv, Lag

LEMMA RefundCoinLags ==
  ASSUME MoneyInv, NoLag, NEW u \in Users, RefundCoin(u)
  PROVE  LagInv'
<1>1. /\ coin' = [coin EXCEPT ![u] = @ + EntryStake] /\ booked' = booked
      /\ resolver' = [op |-> "refundRow", todo |-> resolver.todo \ {u}, user |-> u]
  BY DEF RefundCoin, Credit
<1>2. ASSUME NEW v \in Users PROVE Lag(v)' = IF v = u THEN EntryStake ELSE 0
  <2>1. coin'[v] = coin[v] + (IF v = u THEN EntryStake ELSE 0)
    <3>1. coin[v] \in Int /\ u \in DOMAIN coin
      BY ConstantsAreInts DEF MoneyInv
    <3>2. CASE v = u
      BY <1>1, <3>1, <3>2
    <3>3. CASE v # u
      BY <1>1, <3>1, <3>3 DEF MoneyInv
    <3>4. QED
      BY <3>2, <3>3
  <2>2. coin[v] \in Int /\ booked[v] \in Int /\ StartCoin[v] \in Int
        /\ booked'[v] = booked[v]
    BY <1>1, ConstantsAreInts DEF MoneyInv
  <2>3. coin[v] - StartCoin[v] - booked[v] = 0
    BY DEF NoLag, Lag
  <2>4. QED
    BY <2>1, <2>2, <2>3, ConstantsAreInts DEF Lag
<1>3. LedgerLagsOneRefund'
  BY <1>2, ConstantsAreInts DEF LedgerLagsOneRefund, Lag
<1>4. resolver'.op = "refundRow" /\ resolver'.user = u
  BY <1>1
<1>5. Lag(resolver.user)' = EntryStake
  BY <1>2, <1>4 DEF Lag
<1>6. QED
  BY <1>2, <1>3, <1>4, <1>5 DEF LagInv

LEMMA RefundRowClears ==
  ASSUME MoneyInv, ShapeInv, LagInv, RefundRow
  PROVE  NoLag'
<1> DEFINE w == resolver.user
<1>1. /\ resolver.op = "refundRow" /\ resolver # Idle /\ w \in Users
      /\ booked' = Row(booked, NoUser, w, EntryStake) /\ coin' = coin
  BY ResolverIsTyped DEF RefundRow, RefundBooked, Idle
<1>2. Lag(w) = EntryStake
  BY <1>1 DEF LagInv
<1>3. \A u \in Users : u # w => Lag(u) = 0
  BY <1>1 DEF LagInv, Over
<1>4. ASSUME NEW v \in Users PROVE Lag(v)' = 0
  <2>1. booked'[v] = booked[v] + (IF v = w THEN EntryStake ELSE 0)
    BY <1>1, ConstantsAreInts DEF Row, MoneyInv
  <2>2. coin[v] \in Int /\ booked[v] \in Int /\ StartCoin[v] \in Int /\ coin'[v] = coin[v]
    BY <1>1, ConstantsAreInts DEF MoneyInv
  <2>3. coin[v] - StartCoin[v] - booked[v] = IF v = w THEN EntryStake ELSE 0
    BY <1>2, <1>3 DEF Lag
  <2>4. QED
    BY <2>1, <2>2, <2>3, ConstantsAreInts DEF Lag
<1>5. QED
  BY <1>4 DEF NoLag

LEMMA LagNext ==
  ASSUME LagInv, MoneyInv, GameInv, [MajorityDieNext]_vars
  PROVE  LagInv'
<1>0. ShapeInv /\ ControlInv
  BY DEF GameInv
<1>1. ASSUME NoLag, UNCHANGED ledgerVars, resolver'.op # "refundRow" PROVE LagInv'
  BY <1>1, SameLags, NoLagKeepsLagInv DEF NoLag
<1>2. ASSUME NoLag, NEW a \in [Users -> Int], PayEach(a), resolver'.op # "refundRow"
      PROVE  LagInv'
  BY <1>2, PayEachIsLogged, NoLagKeepsLagInv DEF NoLag
<1>3. ASSUME CreateRoom \/ \E h \in DieHandlers : ReadStep(h) \/ CommitStep(h)
      PROVE  LagInv'
  <2>1. CASE CreateRoom
    BY <1>0, <2>1, LagsStay DEF CreateRoom, stageVars, serverVars, KeepsRequests, ShapeInv
  <2>2. ASSUME NEW h \in DieHandlers, ReadStep(h) \/ CommitStep(h) PROVE LagInv'
    BY <1>0, <2>2, ReadSteps, CommitSteps, LagsStay DEF stageVars
  <2>3. QED
    BY <1>3, <2>1, <2>2
<1>4. ASSUME NEW h \in DieHandlers, StartStep(h) PROVE LagInv'
  <2>1. resolver = Idle /\ ~Over
    <3>1. CASE StartCommit(h)
      BY <3>1, StartFacts DEF Over
    <3>2. CASE StartSchedule(h) \/ StartAnnounceFails(h)
      <4>1. dieReq[h].op = "schedule"
        BY <3>2 DEF StartSchedule, StartAnnounceFails
      <4>2. QED
        BY <1>0, <4>1 DEF ControlInv, Over
    <3>3. QED
      BY <1>4, <3>1, <3>2 DEF StartStep
  <2>2. NoLag
    BY <2>1, NobodyLags DEF Idle
  <2>3. resolver'.op # "refundRow"
    BY <1>4, <2>1 DEF StartStep, StartCommit, StartSchedule, StartAnnounceFails, Idle
  <2>4. QED
    BY <1>1, <1>2, <1>4, <2>2, <2>3, StartPays, QuietSteps DEF StartStep
<1>5. ASSUME TimerFires \/ ResolveSchedule \/ ResolutionStep PROVE LagInv'
  <2>1. ~Over /\ resolver.op # "refundRow"
    <3>1. CASE TimerFires
      BY <1>0, <3>1 DEF TimerFires, TimerDue, ControlInv, OneResolution, Over, Idle
    <3>2. CASE ResolveSchedule \/ ResolutionStep
      BY <3>2 DEF ResolveSchedule, ResolutionStep, Over, Idle
    <3>3. QED
      BY <1>5, <3>1, <3>2
  <2>2. NoLag
    BY <2>1, NobodyLags
  <2>3. resolver'.op # "refundRow"
    BY <1>5 DEF TimerFires, ResolveSchedule, ResolutionStep, FinishCommit,
                NextStageCommit, Idle
  <2>4. CASE TimerFires \/ ResolveSchedule
    BY <1>1, <2>2, <2>3, <2>4, QuietSteps
  <2>5. CASE ResolutionStep
    BY <1>1, <1>2, <2>2, <2>3, <2>5, QuietSteps, FinishPays DEF ResolutionStep
  <2>6. QED
    BY <1>5, <2>4, <2>5
<1>6. ASSUME ResolverStep PROVE LagInv'
  <2>1. CASE RefundRow
    BY <1>0, <2>1, RefundRowClears, NoLagKeepsLagInv DEF RefundRow
  <2>2. CASE ~RefundRow
    <3>1. resolver.op \notin {"idle", "refundRow"}
      BY <1>6, <2>2 DEF ResolverStep, ResolveRead, ResolveNothing, ResolveThrows,
         AnnounceDone, AnnounceFails, RefundRead, RefundCoin, RefundEnd
    <3>2. NoLag
      BY <3>1, NobodyLags DEF Over, Idle
    <3>3. CASE \E u \in Users : RefundCoin(u)
      BY <3>2, <3>3, RefundCoinLags
    <3>4. CASE ~\E u \in Users : RefundCoin(u)
      <4>1. UNCHANGED ledgerVars
        BY <1>6, <2>2, <3>4, QuietSteps
      <4>2. resolver'.op # "refundRow"
        BY <1>6, <2>2, <3>4 DEF ResolverStep, ResolveRead, ResolveNothing,
           ResolveThrows, AnnounceDone, AnnounceFails, RefundRead, RefundEnd, Idle
      <4>3. QED
        BY <1>1, <3>2, <4>1, <4>2
    <3>5. QED
      BY <3>3, <3>4
  <2>3. QED
    BY <2>1, <2>2
<1>7. CASE Crash
  <2>1. /\ UNCHANGED ledgerVars /\ stage' = stage /\ timer' = 0 /\ resolver' = Idle
        /\ dieReq' = [h \in DieHandlers |-> Idle]
    BY <1>7 DEF Crash, stageVars
  <2>2. \A u \in Users : Lag(u) # 0 => stage > 0
    BY <1>0 DEF LagInv, Over, ControlInv, Idle
  <2>3. \A u \in Users : Lag(u)' = Lag(u)
    BY <2>1, SameLags
  <2>4. \A u \in Users : Lag(u)' # 0 => Over'
    BY <2>1, <2>2, <2>3 DEF Over, Idle
  <2>5. LedgerLagsOneRefund'
    BY <2>3 DEF LagInv, LedgerLagsOneRefund, Lag
  <2>6. QED
    BY <2>1, <2>4, <2>5 DEF LagInv, Idle
<1>8. CASE UNCHANGED vars
  BY <1>0, <1>8, LagsStay
     DEF vars, stageVars, serverVars, KeepsRequests, ShapeInv
<1>9. QED
  BY <1>3, <1>4, <1>5, <1>6, <1>7, <1>8, StepCases

LEMMA MoneyInitially ==
  ASSUME MajorityDieInit
  PROVE  MoneyInv /\ LagInv
<1>1. /\ coin = StartCoin /\ booked = [u \in Users |-> 0]
      /\ stake = 0 /\ returned = 0 /\ resolver.op = "idle"
  BY DEF MajorityDieInit, LedgerInit, Idle
<1>2. MoneyInv
  BY <1>1, LedgerAssumption DEF MoneyInv, Int4
<1>3. ASSUME NEW u \in Users PROVE Lag(u) = 0
  <2>1. coin[u] = StartCoin[u] /\ booked[u] = 0 /\ StartCoin[u] \in Int
    BY <1>1, ConstantsAreInts
  <2>2. QED
    BY <2>1 DEF Lag
<1>4. LedgerLagsOneRefund
  BY <1>3 DEF LedgerLagsOneRefund, Lag
<1>5. QED
  BY <1>1, <1>2, <1>3, <1>4 DEF LagInv

-----------------------------------------------------------------------------
DieInv == GameInv /\ MoneyInv /\ LagInv

LEMMA DieInitially == MajorityDieInit => DieInv
BY GameInitially, MoneyInitially DEF DieInv

LEMMA DieNext == DieInv /\ [MajorityDieNext]_vars => DieInv'
BY GameNext, MoneyNext, LagNext DEF DieInv

(* The invariant the properties follow from.                               *)
THEOREM MajorityDieCorrect == MajorityDieSpec => []DieInv
BY DieInitially, DieNext, PTL DEF MajorityDieSpec

(* Every reachable state is of the declared types, and no submission row   *)
(* outlives its participant (the foreign key of onDelete: Restrict).       *)
THEOREM TypeCorrect == MajorityDieSpec => []TypeOK
<1>1. DieInv => TypeOK
  <2>1. ASSUME DieInv PROVE recorded \cup Submitted \subseteq Members
    BY <2>1 DEF DieInv, GameInv, ShapeInv
  <2>2. QED
    BY <2>1 DEF DieInv, GameInv, ShapeInv, MoneyInv, TypeOK
<1>2. QED
  BY <1>1, MajorityDieCorrect, PTL

(* Wherever refundRoom stops between its writes, the ledger misses the     *)
(* refund of one player at most, and nothing else.                         *)
THEOREM LagCorrect == MajorityDieSpec => []LedgerLagsOneRefund
<1>1. DieInv => LedgerLagsOneRefund
  BY DEF DieInv, LagInv
<1>2. QED
  BY <1>1, MajorityDieCorrect, PTL

(* A timer is only set when no resolution is running, and always for the   *)
(* stage that is open.                                                     *)
THEOREM OneResolutionCorrect == MajorityDieSpec => []OneResolution
<1>1. DieInv => OneResolution
  BY DEF DieInv, GameInv, ControlInv
<1>2. QED
  BY <1>1, MajorityDieCorrect, PTL

-----------------------------------------------------------------------------
(* What a step does to the stage and to the dead.                          *)
Forward ==
  /\ stage' # stage => stage' = stage + 1
  /\ \A u \in Users : member[u] = "dead" => member'[u] = "dead"

LEMMA ForwardStep ==
  ASSUME GameInv, [MajorityDieNext]_vars
  PROVE  Forward
<1>0. ShapeInv /\ ControlInv /\ DeadInv
  BY DEF GameInv
<1>1. ASSUME UNCHANGED <<member, stage>> PROVE Forward
  <2>1. member' = member /\ stage' = stage
    BY <1>1
  <2>2. QED
    BY <2>1 DEF Forward
<1>2. CASE CreateRoom
  <2>1. status = "none" /\ stage' = stage
    BY <1>2 DEF CreateRoom, stageVars
  <2>2. \A u \in Users : member[u] # "dead"
    BY <1>0, <2>1 DEF DeadInv
  <2>3. QED
    BY <2>1, <2>2 DEF Forward
<1>3. ASSUME NEW h \in DieHandlers, ReadStep(h) \/ StartStep(h) PROVE Forward
  <2>1. CASE ReadStep(h)
    BY <1>0, <1>1, <2>1, ReadSteps DEF roomVars, stageVars
  <2>2. CASE StartCommit(h)
    <3>1. stage = 0 /\ stage' = 1 /\ \A u \in Users : member[u] # "dead"
      BY <2>2, StartFacts DEF StartCommit, OpenStage
    <3>2. QED
      BY <3>1 DEF Forward
  <2>3. CASE StartSchedule(h) \/ StartAnnounceFails(h)
    BY <1>1, <2>3 DEF StartSchedule, StartAnnounceFails, roomVars, stageVars
  <2>4. QED
    BY <1>3, <2>1, <2>2, <2>3 DEF StartStep
<1>4. ASSUME NEW h \in DieHandlers, CommitStep(h) PROVE Forward
  <2>1. stage' = stage /\ recorded \subseteq recorded' /\ recorded' \subseteq Members'
        /\ \A u \in Users : member'[u] = "dead" <=> member[u] = "dead" /\ u \in Members'
    BY <1>0, <1>4, CommitSteps, CommitsKeepRows DEF RowsInv
  <2>2. QED
    BY <1>0, <2>1 DEF DeadInv, Forward
<1>5. CASE TimerFires \/ ResolverStep \/ ResolveSchedule
  <2>1. UNCHANGED <<member, stage>>
    BY <1>5 DEF TimerFires, ResolveSchedule, ResolverStep, ResolveRead, ResolveNothing,
       ResolveThrows, AnnounceDone, AnnounceFails, RefundRead, RefundCoin, RefundRow,
       RefundEnd, roomVars, stageVars
  <2>2. QED
    BY <1>1, <2>1
<1>6. CASE ResolutionStep
  <2>1. PICK ch \in AutoPicks :
          resolver.op = "commit" /\ (FinishCommit(ch) \/ NextStageCommit(ch))
    BY <1>6 DEF ResolutionStep
  <2>2. resolver.stage = stage
    BY <1>0, <2>1 DEF ControlInv
  <2>3. stage' = stage \/ stage' = stage + 1
    BY <2>1, <2>2 DEF FinishCommit, NextStageCommit, OpenStage
  <2>4. QED
    BY <2>1, <2>3, ResolutionWrites DEF Forward
<1>7. CASE Crash \/ UNCHANGED vars
  BY <1>1, <1>7 DEF Crash, vars, roomVars, stageVars
<1>8. QED
  BY <1>2, <1>3, <1>4, <1>5, <1>6, <1>7, StepCases

(* Stages are numbered without a gap or a repetition, however often the    *)
(* room is started, and no player who has died comes back.                 *)
THEOREM ForwardCorrect == MajorityDieSpec => GoesForward
<1>1. GameInv /\ [MajorityDieNext]_vars =>
        [/\ stage' # stage => stage' = stage + 1
         /\ \A u \in Users : member[u] = "dead" => member'[u] = "dead"]_vars
  BY ForwardStep DEF Forward
<1>2. QED
  BY <1>1, GameCorrect, PTL DEF MajorityDieSpec, GoesForward

-----------------------------------------------------------------------------
LEMMA StrandStep ==
  ASSUME GameInv, [MajorityDieNext]_vars, ~Stranded, Stranded'
  PROVE  Crash \/ StartUnannounced
<1>0. ShapeInv /\ ControlInv
  BY DEF GameInv
<1>1. ~UNCHANGED vars
  BY DEF Stranded, vars, roomVars, serverVars
<1>2. ~CreateRoom
  BY DEF CreateRoom, Stranded
<1>3. ASSUME NEW h \in DieHandlers, ReadStep(h) \/ CommitStep(h) PROVE FALSE
  <2>1. /\ timer' = timer /\ resolver' = resolver /\ KeepsRequests
        /\ status' = status \/ status' = "cancelled"
    BY <1>0, <1>3, ReadSteps, CommitSteps DEF roomVars
  <2>2. QED
    BY <2>1 DEF Stranded, KeepsRequests
<1>4. ASSUME NEW h \in DieHandlers, StartCommit(h) \/ StartSchedule(h) PROVE FALSE
  <2>1. CASE StartCommit(h)
    <3>1. dieReq'[h].op = "schedule"
      BY <1>0, <2>1 DEF StartCommit, ShapeInv
    <3>2. QED
      BY <3>1 DEF Stranded
  <2>2. CASE StartSchedule(h)
    BY <2>2 DEF StartSchedule, Stranded
  <2>3. QED
    BY <1>4, <2>1, <2>2
<1>5. ~TimerFires
  BY DEF TimerFires, Stranded, Idle
<1>6. ~ResolveSchedule
  <2>1. resolver.op = "schedule" => resolver.stage > 0
    BY <1>0, ResolverIsTyped
  <2>2. QED
    BY <2>1 DEF ResolveSchedule, Armed, Stranded
<1>7. ~ResolutionStep
  BY DEF ResolutionStep, FinishCommit, NextStageCommit, Stranded, Idle
<1>8. ASSUME ResolverStep PROVE FALSE
  <2>1. status' = "playing" /\ resolver' = Idle
    BY DEF Stranded
  <2>2. CASE ResolveNothing
    <3>1. resolver.op = "read" /\ ~(stageOpen /\ stage = resolver.stage /\ status = "playing")
          /\ status' = status
      BY <2>2 DEF ResolveNothing, roomVars
    <3>2. QED
      BY <1>0, <2>1, <3>1 DEF ControlInv
  <2>3. CASE AnnounceDone
    <3>1. resolver.op = "announce" /\ status' = status
      BY <2>3 DEF AnnounceDone, roomVars
    <3>2. QED
      BY <1>0, <2>1, <3>1 DEF ControlInv
  <2>4. CASE RefundEnd
    BY <2>1, <2>4 DEF RefundEnd
  <2>5. QED
    BY <1>8, <2>1, <2>2, <2>3, <2>4
       DEF ResolverStep, ResolveRead, ResolveThrows, AnnounceFails, RefundRead,
           RefundCoin, RefundRow, Idle
<1>9. QED
  BY <1>1, <1>2, <1>3, <1>4, <1>5, <1>6, <1>7, <1>8, StepCases
     DEF StartStep, StartUnannounced

(* Each way out of a stage sets the next timer or ends the room: only a    *)
(* restart, or a lobby query that fails right after the start, strands it. *)
THEOREM StrandCorrect == MajorityDieSpec => OnlyRestartsStrand
<1>1. GameInv /\ [MajorityDieNext]_vars =>
        [~Stranded /\ Stranded' => Crash \/ StartUnannounced]_vars
  BY StrandStep
<1>2. QED
  BY <1>1, GameCorrect, PTL DEF MajorityDieSpec, OnlyRestartsStrand

-----------------------------------------------------------------------------
(* The fates of a stage.  Nobody dead has a submission in an open stage or *)
(* one on its way to it, however late the message is; and whoever a        *)
(* resolution has read with a submission it has read alive, and nobody it  *)
(* has read alive has died since.                                          *)
VotersInv ==
  /\ stageOpen => \A u \in Users : choice[u] # "none" => member[u] # "dead"
  /\ \A h \in DieHandlers : dieReq[h].op = "submit" =>
       /\ dieReq[h].stage <= stage
       /\ stageOpen /\ dieReq[h].stage = stage => member[dieReq[h].user] # "dead"
  /\ resolver.op = "commit" =>
       /\ \A u \in AliveIn(resolver.member) : member[u] # "dead"
       /\ \A u \in Users : resolver.choice[u] # "none" => u \in AliveIn(resolver.member)

LEMMA VotersStay ==
  ASSUME GameInv, VotersInv, UNCHANGED <<stage, stageOpen>>,
         \A u \in Users : member'[u] = "dead" => member[u] = "dead",
         stageOpen => \A u \in Users : choice'[u] # "none" => member[u] # "dead",
         \A g \in DieHandlers : \/ dieReq'[g] = dieReq[g]
                                \/ dieReq'[g].op # "submit"
                                \/ /\ dieReq'[g].stage = stage
                                   /\ dieReq'[g].user \in Users
                                   /\ member[dieReq'[g].user] # "dead",
         resolver' = resolver \/ resolver'.op # "commit"
  PROVE  VotersInv'
<1>0. ShapeInv
  BY DEF GameInv
<1>1. stageOpen' => \A u \in Users : choice'[u] # "none" => member'[u] # "dead"
  OBVIOUS
<1>2. ASSUME NEW h \in DieHandlers, dieReq'[h].op = "submit"
      PROVE  /\ dieReq'[h].stage <= stage'
             /\ stageOpen' /\ dieReq'[h].stage = stage' =>
                  member'[dieReq'[h].user] # "dead"
  <2>1. CASE dieReq'[h] = dieReq[h]
    BY <1>0, <1>2, <2>1, RequestIsTyped DEF VotersInv
  <2>2. CASE dieReq'[h] # dieReq[h]
    BY <1>0, <1>2, <2>2 DEF ShapeInv
  <2>3. QED
    BY <2>1, <2>2
<1>3. ASSUME resolver'.op = "commit"
      PROVE  /\ \A u \in AliveIn(resolver'.member) : member'[u] # "dead"
             /\ \A u \in Users : resolver'.choice[u] # "none" =>
                  u \in AliveIn(resolver'.member)
  BY <1>3 DEF VotersInv, AliveIn
<1>4. QED
  BY <1>1, <1>2, <1>3 DEF VotersInv, AliveIn

LEMMA ReadsKeepVoters ==
  ASSUME GameInv, VotersInv, NEW h \in DieHandlers, ReadStep(h)
  PROVE  VotersInv'
<1>0. ShapeInv
  BY DEF GameInv
<1>1. UNCHANGED <<member, stage, stageOpen, choice, resolver>>
  BY <1>0, ReadSteps DEF roomVars, stageVars
<1>2. ASSUME NEW q, dieReq' = [dieReq EXCEPT ![h] = q],
             \/ q.op # "submit"
             \/ q.stage = stage /\ q.user \in Users /\ member[q.user] # "dead"
      PROVE  VotersInv'
  <2>1. \A g \in DieHandlers : dieReq'[g] = IF g = h THEN q ELSE dieReq[g]
    BY <1>0, <1>2 DEF ShapeInv
  <2>2. QED
    BY <1>1, <1>2, <2>1, VotersStay DEF VotersInv
<1>3. CASE StartRead(h) \/ DieFail(h)
  BY <1>2, <1>3 DEF StartRead, DieFail, Begin, Done, Idle
<1>4. ASSUME NEW u \in Users, JoinRead(h, u) \/ LeaveRead(h, u) PROVE VotersInv'
  BY <1>2, <1>4 DEF JoinRead, LeaveRead, Begin
<1>5. ASSUME NEW u \in Users, NEW side \in Options, SubmitRead(h, u, side)
      PROVE  VotersInv'
  BY <1>2, <1>5 DEF SubmitRead, Begin
<1>6. QED
  BY <1>3, <1>4, <1>5 DEF ReadStep

LEMMA CommitsKeepVoters ==
  ASSUME GameInv, VotersInv, NEW h \in DieHandlers, CommitStep(h)
  PROVE  VotersInv'
<1> DEFINE r == dieReq[h]
<1>0. ShapeInv
  BY DEF GameInv
<1>1. /\ UNCHANGED <<stage, stageOpen, resolver>>
      /\ \A u \in Users : member'[u] = "dead" => member[u] = "dead"
  BY <1>0, CommitSteps
<1>2. \A g \in DieHandlers : dieReq'[g] = dieReq[g] \/ dieReq'[g].op # "submit"
  <2>1. dieReq' = [dieReq EXCEPT ![h] = Idle]
    BY DEF CommitStep, JoinCommit, CancelCommit, LeaveCommit, SubmitCommit, Done
  <2>2. QED
    BY <1>0, <2>1 DEF ShapeInv, Idle
<1>3. stageOpen => \A u \in Users : choice'[u] # "none" => member[u] # "dead"
  <2>1. CASE choice' = choice
    BY <2>1 DEF VotersInv
  <2>2. CASE choice' # choice
    <3>1. /\ r.op = "submit" /\ r.stage = stage
          /\ choice' = [choice EXCEPT ![r.user] = r.pick]
      BY <2>2 DEF CommitStep, JoinCommit, CancelCommit, LeaveCommit, SubmitCommit,
                  stageVars
    <3>2. \A u \in Users : u # r.user => choice'[u] = choice[u]
      BY <1>0, <3>1 DEF ShapeInv, Choices
    <3>3. stageOpen => member[r.user] # "dead"
      BY <3>1 DEF VotersInv
    <3>4. QED
      BY <3>2, <3>3 DEF VotersInv
  <2>3. QED
    BY <2>1, <2>2
<1>4. QED
  BY <1>1, <1>2, <1>3, VotersStay

LEMMA VotersNext ==
  ASSUME GameInv, VotersInv, [MajorityDieNext]_vars
  PROVE  VotersInv'
<1>0. ShapeInv /\ ControlInv
  BY DEF GameInv
<1>1. ASSUME UNCHANGED <<member, stage, stageOpen, choice>>,
             \A g \in DieHandlers : dieReq'[g] = dieReq[g] \/ dieReq'[g].op # "submit",
             resolver' = resolver \/ resolver'.op # "commit"
      PROVE  VotersInv'
  BY <1>1, VotersStay DEF VotersInv
<1>2. CASE CreateRoom
  <2>1. UNCHANGED <<stage, stageOpen, choice, dieReq, resolver>>
    BY <1>2 DEF CreateRoom, stageVars, serverVars
  <2>2. \A u \in Users : member'[u] = "dead" => member[u] = "dead"
    BY <1>0, <1>2 DEF CreateRoom, ShapeInv, Memberships
  <2>3. QED
    BY <2>1, <2>2, VotersStay DEF VotersInv
<1>3. ASSUME NEW h \in DieHandlers, StartCommit(h) PROVE VotersInv'
  <2>1. stage = 0 /\ resolver = Idle
    BY <1>3, StartFacts
  <2>2. /\ choice' = NoChoice /\ resolver' = resolver
        /\ dieReq' = [dieReq EXCEPT ![h] = [op |-> "schedule"]]
    BY <1>3 DEF StartCommit, OpenStage
  <2>3. \A g \in DieHandlers : dieReq[g].op # "submit"
    BY <1>0, <2>1, RequestIsTyped DEF VotersInv
  <2>4. \A g \in DieHandlers : dieReq'[g].op # "submit"
    BY <1>0, <2>2, <2>3 DEF ShapeInv
  <2>5. QED
    BY <2>1, <2>2, <2>4 DEF VotersInv, NoChoice, Idle
<1>4. ASSUME NEW h \in DieHandlers, StartSchedule(h) \/ StartAnnounceFails(h)
      PROVE  VotersInv'
  <2>1. /\ UNCHANGED <<member, stage, stageOpen, choice, resolver>>
        /\ dieReq' = [dieReq EXCEPT ![h] = Idle]
    BY <1>4 DEF StartSchedule, StartAnnounceFails, Done, roomVars, stageVars
  <2>2. \A g \in DieHandlers : dieReq'[g] = dieReq[g] \/ dieReq'[g].op # "submit"
    BY <1>0, <2>1 DEF ShapeInv, Idle
  <2>3. QED
    BY <1>1, <2>1, <2>2
<1>5. CASE ResolveRead
  <2>1. /\ UNCHANGED <<member, stage, stageOpen, choice, dieReq>> /\ stageOpen
        /\ resolver' = [op |-> "commit", stage |-> resolver.stage,
                        member |-> member, choice |-> choice]
    BY <1>5 DEF ResolveRead, roomVars, stageVars
  <2>2. \A u \in Users : choice[u] # "none" => member[u] = "alive"
    BY <1>0, <2>1 DEF VotersInv, ShapeInv, Submitted, Members, Memberships
  <2>3. QED
    BY <2>1, <2>2 DEF VotersInv, AliveIn
<1>6. CASE TimerFires \/ ResolveSchedule \/ (ResolverStep /\ ~ResolveRead)
  <2>1. /\ UNCHANGED <<member, stage, stageOpen, choice, dieReq>>
        /\ resolver'.op # "commit"
    BY <1>6 DEF TimerFires, ResolveSchedule, ResolverStep, ResolveNothing,
       ResolveThrows, AnnounceDone, AnnounceFails, RefundRead, RefundCoin, RefundRow,
       RefundEnd, roomVars, stageVars, Idle
  <2>2. QED
    BY <1>1, <2>1
<1>7. CASE ResolutionStep
  <2>1. PICK ch \in AutoPicks :
          resolver.op = "commit" /\ (FinishCommit(ch) \/ NextStageCommit(ch))
    BY <1>7 DEF ResolutionStep
  <2>2. resolver.stage = stage /\ stage \in 1 .. MaxStages
    BY <1>0, <2>1, ResolverIsTyped DEF ControlInv
  <2>3. \A g \in DieHandlers : dieReq[g].op = "submit" =>
          dieReq[g].stage \in Int /\ dieReq[g].stage <= stage
    BY <1>0, RequestIsTyped DEF VotersInv
  <2>4. dieReq' = dieReq /\ resolver'.op # "commit"
    BY <2>1 DEF FinishCommit, NextStageCommit
  <2>5. CASE FinishCommit(ch)
    <3>1. stageOpen' = FALSE /\ stage' = stage
      BY <2>5 DEF FinishCommit
    <3>2. QED
      BY <2>3, <2>4, <3>1 DEF VotersInv
  <2>6. CASE NextStageCommit(ch)
    <3>1. stage' = stage + 1 /\ choice' = NoChoice
      BY <2>2, <2>6 DEF NextStageCommit, OpenStage
    <3>2. \A g \in DieHandlers : dieReq'[g].op = "submit" => dieReq'[g].stage < stage'
      BY <2>2, <2>3, <2>4, <3>1
    <3>3. \A u \in Users : choice'[u] = "none"
      BY <3>1 DEF NoChoice
    <3>4. \A g \in DieHandlers : dieReq'[g].op = "submit" =>
            dieReq'[g].stage <= stage' /\ dieReq'[g].stage # stage'
      BY <2>2, <2>3, <2>4, <3>1, <3>2
    <3>5. QED
      BY <2>4, <3>3, <3>4 DEF VotersInv
  <2>7. QED
    BY <2>1, <2>5, <2>6
<1>8. CASE Crash \/ UNCHANGED vars
  BY <1>1, <1>8 DEF Crash, vars, roomVars, stageVars, serverVars, Idle
<1>9. QED
  BY <1>2, <1>3, <1>4, <1>5, <1>6, <1>7, <1>8, StepCases, ReadsKeepVoters,
     CommitsKeepVoters DEF StartStep

THEOREM VotersCorrect == MajorityDieSpec => [](GameInv /\ VotersInv)
<1>1. MajorityDieInit => GameInv /\ VotersInv
  <2>1. MajorityDieInit => VotersInv
    BY DEF MajorityDieInit, VotersInv, NoChoice, Idle
  <2>2. QED
    BY <2>1, GameInitially
<1>2. (GameInv /\ VotersInv) /\ [MajorityDieNext]_vars => (GameInv /\ VotersInv)'
  BY GameNext, VotersNext
<1>3. QED
  BY <1>1, <1>2, PTL DEF MajorityDieSpec

-----------------------------------------------------------------------------
(* Everybody a resolution has read alive is still alive, and is on one of  *)
(* the two sides.                                                          *)
LEMMA SidesSplitTheLiving ==
  ASSUME GameInv, VotersInv, NEW ch \in AutoPicks, resolver.op = "commit", AutoPicked
  PROVE  /\ AliveIn(resolver.member) \subseteq AliveIn(member)
         /\ AliveIn(resolver.member) = On(ch, "left") \cup On(ch, "right")
         /\ \A u \in Users : resolver.choice[u] # "none" => ch[u] = resolver.choice[u]
<1> DEFINE A == AliveIn(resolver.member)
<1>0. /\ ShapeInv /\ DeadInv
      /\ resolver.member \in Memberships /\ resolver.choice \in Choices
  BY ResolverIsTyped DEF GameInv
<1>1. PICK p \in [Missing -> Options] :
        ch = [u \in Users |-> IF u \in Missing THEN p[u] ELSE resolver.choice[u]]
  BY DEF AutoPicks
<1>2. A \subseteq AliveIn(member)
  <2>1. ASSUME NEW u \in A PROVE member[u] = "alive"
    <3>1. u \in Members
      BY <1>0, <2>1 DEF AutoPicked, Missing, DeadInv, ShapeInv, AliveIn
    <3>2. member[u] # "dead"
      BY <2>1 DEF VotersInv
    <3>3. QED
      BY <1>0, <3>1, <3>2 DEF ShapeInv, Memberships, Members
  <2>2. QED
    BY <2>1 DEF AliveIn
<1>3. ASSUME NEW u \in Users
      PROVE  u \in A <=> ch[u] \in Options
  <2>1. CASE u \in Missing
    BY <1>1, <2>1 DEF Missing
  <2>2. CASE u \notin Missing
    <3>1. ch[u] = resolver.choice[u] /\ resolver.choice[u] \in Options \cup {"none"}
      BY <1>0, <1>1, <2>2 DEF Choices
    <3>2. u \in A <=> resolver.choice[u] # "none"
      BY <2>2 DEF Missing, VotersInv
    <3>3. QED
      BY <3>1, <3>2 DEF Options
  <2>3. QED
    BY <2>1, <2>2
<1>4. A = On(ch, "left") \cup On(ch, "right")
  BY <1>3 DEF On, Options, AliveIn
<1>5. \A u \in Users : resolver.choice[u] # "none" => ch[u] = resolver.choice[u]
  BY <1>1 DEF Missing
<1>6. QED
  BY <1>2, <1>4, <1>5

(* A side that wins is the only one, has somebody and is the smaller.      *)
LEMMA MinorityIsOneSide ==
  ASSUME NEW ch, Minority(ch) # {}
  PROVE  \E s, t \in Options :
           /\ Options = {s, t} /\ s # t /\ Minority(ch) = {s}
           /\ Survivors(ch) = On(ch, s) /\ On(ch, s) # {}
           /\ Cardinality(On(ch, s)) < Cardinality(On(ch, t))
<1>1. \A s \in Options : On(ch, s) \in SUBSET Users
  BY DEF On
<1>2. \A s \in Options : Cardinality(On(ch, s)) \in Nat
  BY <1>1, UsersCounted
<1>3. PICK s \in Options, t \in Options :
        /\ s # t /\ s \in Minority(ch) /\ On(ch, s) # {}
        /\ Cardinality(On(ch, s)) < Cardinality(On(ch, t))
  BY DEF Minority
<1>4. Options = {s, t} /\ s # t
  BY <1>3 DEF Options
<1>5. t \notin Minority(ch)
  BY <1>2, <1>3, <1>4 DEF Minority
<1>6. Minority(ch) = {s}
  BY <1>3, <1>4, <1>5 DEF Minority
<1>7. Survivors(ch) = On(ch, s)
  BY <1>6 DEF Survivors
<1>8. QED
  BY <1>3, <1>4, <1>6, <1>7

Fates ==
  LET died == {u \in Users : member[u] = "alive" /\ member'[u] = "dead"}
      lived == AliveIn(resolver.member) \ died
  IN died # {} =>
       /\ died \subseteq AliveIn(resolver.member)
       /\ lived # {} /\ Cardinality(lived) < Cardinality(died)
       /\ \A u, v \in AliveIn(resolver.member) :
            u \in died /\ v \notin died =>
              resolver.choice[u] # resolver.choice[v] \/ resolver.choice[u] = "none"

LEMMA ResolutionFates ==
  ASSUME GameInv, VotersInv, NEW ch \in AutoPicks, resolver.op = "commit",
         ResolveCommon(ch)
  PROVE  Fates
<1> DEFINE A == AliveIn(resolver.member)
           died == {u \in Users : member[u] = "alive" /\ member'[u] = "dead"}
<1>1. /\ AutoPicked
      /\ member' = [u \in Users |-> IF u \in A \ Survivors(ch) THEN "dead" ELSE member[u]]
  BY DEF ResolveCommon
<1>2. /\ A \subseteq AliveIn(member) /\ A = On(ch, "left") \cup On(ch, "right")
      /\ \A u \in Users : resolver.choice[u] # "none" => ch[u] = resolver.choice[u]
  BY <1>1, SidesSplitTheLiving
<1>3. died = A \ Survivors(ch)
  BY <1>1, <1>2 DEF AliveIn
<1>4. CASE Minority(ch) = {}
  <2>1. died = {}
    BY <1>3, <1>4 DEF Survivors
  <2>2. QED
    BY <2>1 DEF Fates
<1>5. CASE Minority(ch) # {}
  <2>1. PICK s \in Options, t \in Options :
          /\ Options = {s, t} /\ s # t
          /\ Survivors(ch) = On(ch, s) /\ On(ch, s) # {}
          /\ Cardinality(On(ch, s)) < Cardinality(On(ch, t))
    BY <1>5, MinorityIsOneSide
  <2>2. A = On(ch, s) \cup On(ch, t)
    BY <1>2, <2>1 DEF Options
  <2>3. On(ch, s) \cap On(ch, t) = {}
    BY <2>1 DEF On
  <2>4. died = On(ch, t) /\ A \ died = On(ch, s)
    BY <1>3, <2>1, <2>2, <2>3
  <2>5. ASSUME NEW u \in A, NEW v \in A, u \in died, v \notin died,
               resolver.choice[u] # "none"
        PROVE  resolver.choice[u] # resolver.choice[v]
    <3>1. ch[u] = t /\ ch[v] = s /\ u \in Users /\ v \in Users
      BY <2>4, <2>5 DEF On
    <3>2. resolver.choice[u] = t
      BY <1>2, <2>5, <3>1
    <3>3. resolver.choice[v] # "none" => resolver.choice[v] = s
      BY <1>2, <3>1
    <3>4. QED
      BY <2>1, <2>5, <3>2, <3>3
  <2>6. died \subseteq A /\ A \ died # {} /\ Cardinality(A \ died) < Cardinality(died)
    BY <2>1, <2>2, <2>4
  <2>7. \A u, v \in A : u \in died /\ v \notin died =>
          resolver.choice[u] # resolver.choice[v] \/ resolver.choice[u] = "none"
    BY <2>5
  <2>8. QED
    BY <2>6, <2>7 DEF Fates
<1>6. QED
  BY <1>4, <1>5

LEMMA FatesStep ==
  ASSUME GameInv, VotersInv, [MajorityDieNext]_vars
  PROVE  Fates
<1>0. ShapeInv
  BY DEF GameInv
<1>1. CASE ResolutionStep
  BY <1>1, ResolutionFates DEF ResolutionStep, FinishCommit, NextStageCommit
<1>2. CASE ~ResolutionStep
  <2>1. \A u \in Users : member'[u] = "dead" => member[u] = "dead"
    <3>1. ASSUME member' = member
          PROVE  \A u \in Users : member'[u] = "dead" => member[u] = "dead"
      BY <3>1
    <3>2. CASE CreateRoom
      BY <1>0, <3>2 DEF CreateRoom, ShapeInv, Memberships
    <3>3. ASSUME NEW h \in DieHandlers, ReadStep(h) \/ CommitStep(h) \/ StartStep(h)
          PROVE  \A u \in Users : member'[u] = "dead" => member[u] = "dead"
      <4>1. CASE ReadStep(h)
        BY <1>0, <3>1, <4>1, ReadSteps DEF roomVars
      <4>2. CASE CommitStep(h)
        BY <1>0, <4>2, CommitSteps
      <4>3. CASE StartStep(h)
        BY <3>1, <4>3 DEF StartStep, StartCommit, StartSchedule, StartAnnounceFails,
                          roomVars
      <4>4. QED
        BY <3>3, <4>1, <4>2, <4>3
    <3>4. CASE TimerFires \/ ResolverStep \/ ResolveSchedule \/ Crash \/ UNCHANGED vars
      <4>1. member' = member
        BY <3>4 DEF TimerFires, ResolveSchedule, ResolverStep, ResolveRead,
           ResolveNothing, ResolveThrows, AnnounceDone, AnnounceFails, RefundRead,
           RefundCoin, RefundRow, RefundEnd, Crash, vars, roomVars
      <4>2. QED
        BY <3>1, <4>1
    <3>5. QED
      BY <1>2, <3>2, <3>3, <3>4, StepCases
  <2>2. {u \in Users : member[u] = "alive" /\ member'[u] = "dead"} = {}
    BY <2>1
  <2>3. QED
    BY <2>2 DEF Fates
<1>3. QED
  BY <1>1, <1>2

(* The minority survives, whatever messages come late: the dead are the    *)
(* larger part of those who were read alive, somebody survives them, and   *)
(* nobody dies who submitted what a survivor submitted.                    *)
THEOREM MinorityCorrect == MajorityDieSpec => MinorityRule
<1>1. GameInv /\ VotersInv /\ [MajorityDieNext]_vars =>
        [LET died == {u \in Users : member[u] = "alive" /\ member'[u] = "dead"}
             lived == AliveIn(resolver.member) \ died
         IN died # {} =>
              /\ died \subseteq AliveIn(resolver.member)
              /\ lived # {} /\ Cardinality(lived) < Cardinality(died)
              /\ \A u, v \in AliveIn(resolver.member) :
                   u \in died /\ v \notin died =>
                     resolver.choice[u] # resolver.choice[v]
                       \/ resolver.choice[u] = "none"]_vars
  BY FatesStep DEF Fates
<1>2. QED
  BY <1>1, VotersCorrect, PTL DEF MajorityDieSpec, MinorityRule

-----------------------------------------------------------------------------
LEMMA DuelStep ==
  ASSUME GameInv, VotersInv, [MajorityDieNext]_vars,
         status = "playing", Cardinality(AliveIn(member)) = 2
  PROVE  status' # "finished"
<1>0. ShapeInv
  BY DEF GameInv
<1>1. ASSUME NEW ch \in AutoPicks, resolver.op = "commit", FinishCommit(ch) PROVE FALSE
  <2>1. AutoPicked /\ Minority(ch) # {}
    BY <1>1 DEF FinishCommit, ResolveCommon, ShouldFinish
  <2>2. PICK s \in Options, t \in Options :
          /\ Options = {s, t} /\ s # t /\ On(ch, s) # {}
          /\ Cardinality(On(ch, s)) < Cardinality(On(ch, t))
    BY <2>1, MinorityIsOneSide
  <2>3. On(ch, s) \cup On(ch, t) \subseteq AliveIn(member)
    BY <1>1, <2>1, <2>2, SidesSplitTheLiving DEF Options
  <2>4. On(ch, s) \cap On(ch, t) = {}
    BY <2>2 DEF On
  <2>5. /\ On(ch, s) \in SUBSET Users /\ On(ch, t) \in SUBSET Users
        /\ AliveIn(member) \in SUBSET Users
    BY DEF On, AliveIn
  <2>6. /\ IsFiniteSet(On(ch, s)) /\ IsFiniteSet(On(ch, t)) /\ IsFiniteSet(AliveIn(member))
        /\ Cardinality(On(ch, s)) \in Nat \ {0} /\ Cardinality(On(ch, t)) \in Nat
    BY <2>2, <2>5, UsersCounted
  <2>7. Cardinality(On(ch, s) \cup On(ch, t)) =
          Cardinality(On(ch, s)) + Cardinality(On(ch, t)) - Cardinality({})
    BY <2>4, <2>6, FS_Union
  <2>8. Cardinality(On(ch, s) \cup On(ch, t)) <= 2
    BY <2>3, <2>6, FS_Subset
  <2>9. QED
    BY <2>2, <2>6, <2>7, <2>8, FS_EmptySet
<1>2. ~ResolutionStep => status' # "finished"
  <2>1. CASE \E h \in DieHandlers : ReadStep(h) \/ CommitStep(h)
    BY <1>0, <2>1, ReadSteps, CommitSteps DEF roomVars
  <2>2. CASE CreateRoom \/ \E h \in DieHandlers : StartStep(h)
    BY <2>2 DEF CreateRoom, StartStep, StartCommit, StartSchedule, StartAnnounceFails,
                roomVars
  <2>3. CASE TimerFires \/ ResolverStep \/ ResolveSchedule \/ Crash \/ UNCHANGED vars
    BY <2>3 DEF TimerFires, ResolveSchedule, ResolverStep, ResolveRead,
       ResolveNothing, ResolveThrows, AnnounceDone, AnnounceFails, RefundRead,
       RefundCoin, RefundRow, RefundEnd, Crash, vars, roomVars
  <2>4. QED
    BY <2>1, <2>2, <2>3, StepCases
<1>3. ResolutionStep => status' # "finished"
  <2>1. ASSUME NEW ch \in AutoPicks, NextStageCommit(ch) PROVE status' = status
    BY <2>1 DEF NextStageCommit
  <2>2. QED
    BY <1>1, <2>1 DEF ResolutionStep
<1>4. QED
  BY <1>2, <1>3

(* A game that has come down to two is never finished by its rules.        *)
THEOREM DuelCorrect == MajorityDieSpec => DuelUndecided
<1>1. GameInv /\ VotersInv /\ [MajorityDieNext]_vars =>
        [status = "playing" /\ Cardinality(AliveIn(member)) = 2 =>
           status' # "finished"]_vars
  BY DuelStep
<1>2. QED
  BY <1>1, VotersCorrect, PTL DEF MajorityDieSpec, DuelUndecided

-----------------------------------------------------------------------------
(* The stake of the room.  Paying everyone a[u] moves the coins by the sum *)
(* of a.                                                                   *)
LEMMA PayEachSum ==
  ASSUME MoneyInv, NEW a \in [Users -> Int], PayEach(a)
  PROVE  /\ SumFunction(coin) \in Int /\ SumFunction(a) \in Int
         /\ SumFunction(coin') = SumFunction(coin) + SumFunction(a)
<1>1. coin \in [Users -> Int] /\ coin' = [u \in Users |-> coin[u] + a[u]]
  BY ConstantsAreInts DEF MoneyInv, PayEach
<1>2. SumFunction(coin) \in Int /\ SumFunction(a) \in Int
  BY <1>1, UsersAssumption, SumIsInt
<1> DEFINE c == coin'
<1>3. /\ \A u \in Users : coin[u] \in Int /\ a[u] \in Int
      /\ \A u \in Users : c[u] = coin[u] + a[u]
      /\ DOMAIN c = Users /\ DOMAIN a = Users /\ DOMAIN coin = Users
  BY <1>1
<1> HIDE DEF c
<1>4. SumFunctionOnSet(c, Users) = SumFunctionOnSet(coin, Users) + SumFunctionOnSet(a, Users)
  BY <1>3, UsersAssumption, SumPlus
<1>5. SumFunction(c) = SumFunction(coin) + SumFunction(a)
  BY <1>3, <1>4, SumOverDomain
<1>6. QED
  BY <1>2, <1>5 DEF c

(* Equal payments to some of the users.                                    *)
LEMMA SumOfShares ==
  ASSUME NEW X \in SUBSET Users, NEW q \in Int
  PROVE  SumFunction([u \in Users |-> IF u \in X THEN q ELSE 0]) = q * Cardinality(X)
<1> DEFINE f == [u \in Users |-> IF u \in X THEN q ELSE 0]
<1>1. DOMAIN f = Users /\ \A u \in Users : f[u] = IF u \in X THEN q ELSE 0
  OBVIOUS
<1> HIDE DEF f
<1>2. SumFunctionOnSet(f, Users) = q * Cardinality(X)
  BY <1>1, UsersAssumption, SumShares
<1>3. SumFunction(f) = q * Cardinality(X)
  BY <1>1, <1>2, SumOverDomain
<1>4. QED
  BY <1>3 DEF f

(* The shares of the survivors add up to the pot: no coin is left over and *)
(* none is made up.                                                        *)
LEMMA SplitTotal ==
  ASSUME NEW total \in Nat, NEW W \in SUBSET Users, W # {},
         NEW pay \in SplitPot(total, W)
  PROVE  SumFunction(pay) = total
<1> DEFINE n == Cardinality(W)
           q == total \div n
           m == total % n
<1>1. n \in Nat \ {0}
  BY UsersCounted
<1>2. PICK X \in SUBSET W :
        /\ Cardinality(X) = m
        /\ pay = [u \in Users |-> IF u \notin W THEN 0
                                  ELSE q + IF u \in X THEN 1 ELSE 0]
  BY DEF SplitPot
<1>3. q \in Int /\ m \in Int /\ total = q * n + m
  BY <1>1
<1> HIDE DEF n, q, m
<1> DEFINE f == [u \in Users |-> IF u \in W THEN q ELSE 0]
           g == [u \in Users |-> IF u \in X THEN 1 ELSE 0]
<1>4. SumFunction(f) = q * n /\ SumFunction(g) = m
  <2>1. SumFunction(f) = q * Cardinality(W) /\ SumFunction(g) = 1 * Cardinality(X)
    BY <1>3, SumOfShares
  <2> HIDE DEF f, g
  <2>2. QED
    BY <1>2, <1>3, <2>1 DEF n
<1>5. /\ DOMAIN pay = Users /\ DOMAIN f = Users /\ DOMAIN g = Users
      /\ \A u \in Users : f[u] \in Int /\ g[u] \in Int
      /\ \A u \in Users : pay[u] = f[u] + g[u]
  BY <1>2, <1>3
<1> HIDE DEF f, g
<1>6. SumFunctionOnSet(pay, Users) = SumFunctionOnSet(f, Users) + SumFunctionOnSet(g, Users)
  BY <1>5, UsersAssumption, SumPlus
<1>7. SumFunction(pay) = SumFunction(f) + SumFunction(g)
  BY <1>5, <1>6, SumOverDomain
<1>8. QED
  BY <1>3, <1>4, <1>7

(* A room that has not started has taken nothing.                          *)
StakeInv == StakeExplainsCoins /\ (stage = 0 => stake = 0)

LEMMA StartTakesStake ==
  ASSUME MoneyInv, GameInv, StakeInv, NEW h \in DieHandlers, StartCommit(h)
  PROVE  StakeInv'
<1> DEFINE P == dieReq[h].paying
           a == [u \in Users |-> IF u \in P THEN -EntryStake ELSE 0]
<1>1. P \in SUBSET Users
  BY RequestIsTyped DEF GameInv, StartCommit
<1>2. /\ PayEach(a) /\ stake' = EntryStake * Cardinality(P)
      /\ stage' = 1 /\ returned' = returned
  BY DEF StartCommit, OpenStage
<1>3. stake = 0
  BY StartFacts DEF StakeInv
<1>4. -EntryStake \in Int /\ EntryStake \in Int /\ Cardinality(P) \in Int
  BY <1>1, ConstantsAreInts, UsersCounted
<1>5. a \in [Users -> Int]
  BY <1>4
<1>6. SumFunction(a) = (-EntryStake) * Cardinality(P)
  BY <1>1, <1>4, SumOfShares
<1> HIDE DEF a, P
<1>7. /\ SumFunction(coin) \in Int
      /\ SumFunction(coin') = SumFunction(coin) + SumFunction(a)
  BY <1>2, <1>5, PayEachSum
<1>8. (-EntryStake) * Cardinality(P) = -(EntryStake * Cardinality(P))
      /\ EntryStake * Cardinality(P) \in Int
  BY <1>4
<1>9. SumFunction(coin') + stake' = SumFunction(coin) + stake
  BY <1>2, <1>3, <1>6, <1>7, <1>8
<1>10. QED
  BY <1>2, <1>9 DEF StakeInv, StakeExplainsCoins

LEMMA FinishReturnsStake ==
  ASSUME MoneyInv, GameInv, StakeInv, NEW ch \in AutoPicks, FinishCommit(ch)
  PROVE  StakeInv'
<1>1. PICK pay \in SplitPot(stake, Survivors(ch)) : PayEach(pay)
  BY DEF FinishCommit
<1>2. Survivors(ch) \in SUBSET Users /\ Survivors(ch) # {}
  BY FinishHasSurvivors
<1>3. stake \in Nat /\ returned \in Nat
  BY DEF MoneyInv
<1>4. pay \in [Users -> Int] /\ SumFunction(pay) = stake
  BY <1>1, <1>2, <1>3, SplitIsTyped, SplitTotal
<1>5. SumFunction(coin) \in Int /\ SumFunction(coin') = SumFunction(coin) + stake
  BY <1>1, <1>4, PayEachSum
<1>6. SumFunction(StartCoin) \in Int
  BY ConstantsAreInts, UsersAssumption, LedgerAssumption, SumIsInt
<1>7. stake' = stake /\ stage' = stage /\ returned' = returned + stake
  BY DEF FinishCommit
<1>8. SumFunction(coin) + stake = SumFunction(StartCoin) + returned
  BY DEF StakeInv, StakeExplainsCoins
<1>9. SumFunction(coin') + stake' = SumFunction(StartCoin) + returned'
  BY <1>3, <1>5, <1>6, <1>7, <1>8
<1>10. QED
  BY <1>7, <1>9 DEF StakeInv, StakeExplainsCoins

LEMMA RefundReturnsStake ==
  ASSUME MoneyInv, StakeInv, NEW u \in Users, RefundCoin(u)
  PROVE  StakeInv'
<1>1. coin \in [Users -> Int] /\ stake \in Nat /\ returned \in Nat /\ EntryStake \in Int
  <2>1. coin \in [Users -> Int4] /\ Int4 \subseteq Int /\ EntryStake \in Int
    BY ConstantsAreInts DEF MoneyInv
  <2>2. coin \in [Users -> Int]
    BY <2>1
  <2>3. QED
    BY <2>1, <2>2 DEF MoneyInv
<1>2. /\ coin' = Credit(coin, u, EntryStake) /\ returned' = returned + EntryStake
      /\ stake' = stake /\ stage' = stage
  BY DEF RefundCoin, roomVars, stageVars
<1>3. SumFunction(coin) \in Int /\ SumFunction(coin') = SumFunction(coin) + EntryStake
  BY <1>1, <1>2, SumCredit
<1>4. SumFunction(StartCoin) \in Int
  BY ConstantsAreInts, UsersAssumption, LedgerAssumption, SumIsInt
<1>5. SumFunction(coin) + stake = SumFunction(StartCoin) + returned
  BY DEF StakeInv, StakeExplainsCoins
<1>6. SumFunction(coin') + stake' = SumFunction(StartCoin) + returned'
  BY <1>1, <1>2, <1>3, <1>4, <1>5
<1>7. QED
  BY <1>2, <1>6 DEF StakeInv, StakeExplainsCoins

LEMMA StakeNext ==
  ASSUME DieInv, StakeInv, [MajorityDieNext]_vars
  PROVE  StakeInv'
<1>0. MoneyInv /\ GameInv /\ ShapeInv
  BY DEF DieInv, GameInv
<1>1. ASSUME UNCHANGED <<coin, stake, returned>>, stage' = 0 => stage = 0
      PROVE  StakeInv'
  BY <1>1 DEF StakeInv, StakeExplainsCoins
<1>2. ASSUME NEW h \in DieHandlers, ReadStep(h) \/ CommitStep(h) \/ StartStep(h)
      PROVE  StakeInv'
  <2>1. CASE ReadStep(h) \/ CommitStep(h)
    BY <1>0, <1>1, <2>1, ReadSteps, CommitSteps DEF roomVars, stageVars, ledgerVars
  <2>2. CASE StartCommit(h)
    BY <1>0, <2>2, StartTakesStake
  <2>3. CASE StartSchedule(h) \/ StartAnnounceFails(h)
    BY <1>1, <2>3 DEF StartSchedule, StartAnnounceFails, roomVars, stageVars, ledgerVars
  <2>4. QED
    BY <1>2, <2>1, <2>2, <2>3 DEF StartStep
<1>3. CASE ResolutionStep
  <2>1. PICK ch \in AutoPicks :
          resolver.op = "commit" /\ (FinishCommit(ch) \/ NextStageCommit(ch))
    BY <1>3 DEF ResolutionStep
  <2>2. CASE FinishCommit(ch)
    BY <1>0, <2>2, FinishReturnsStake
  <2>3. CASE NextStageCommit(ch)
    <3>1. resolver.stage \in Nat \ {0} /\ stage' = resolver.stage + 1
      BY <1>0, <2>1, <2>3, ResolverIsTyped DEF NextStageCommit, OpenStage
    <3>2. QED
      BY <1>1, <2>3, <3>1 DEF NextStageCommit, ledgerVars
  <2>4. QED
    BY <2>1, <2>2, <2>3
<1>4. CASE ResolverStep
  <2>1. stage' = stage
    BY <1>4 DEF ResolverStep, ResolveRead, ResolveNothing, ResolveThrows, AnnounceDone,
       AnnounceFails, RefundRead, RefundCoin, RefundRow, RefundEnd, stageVars
  <2>2. RefundRow => UNCHANGED <<coin, stake, returned>>
    BY DEF RefundRow, roomVars
  <2>3. QED
    BY <1>0, <1>1, <1>4, <2>1, <2>2, QuietSteps, RefundReturnsStake DEF ledgerVars
<1>5. CASE CreateRoom \/ TimerFires \/ ResolveSchedule \/ Crash \/ UNCHANGED vars
  <2>1. stage' = stage
    BY <1>5 DEF CreateRoom, TimerFires, ResolveSchedule, Crash, vars, stageVars
  <2>2. QED
    BY <1>1, <1>5, <2>1, QuietSteps DEF ledgerVars
<1>6. QED
  BY <1>2, <1>3, <1>4, <1>5, StepCases

LEMMA StakeInitially == MajorityDieInit => StakeInv
<1> SUFFICES ASSUME MajorityDieInit PROVE StakeInv
  OBVIOUS
<1>1. coin = StartCoin /\ stake = 0 /\ returned = 0
  BY DEF MajorityDieInit, LedgerInit
<1>2. SumFunction(StartCoin) \in Int
  BY ConstantsAreInts, UsersAssumption, LedgerAssumption, SumIsInt
<1>3. QED
  BY <1>1, <1>2 DEF StakeInv, StakeExplainsCoins

(* The coins, the stake and what was returned explain each other, whatever *)
(* is refunded, restarted or paid twice.                                   *)
THEOREM StakeCorrect == MajorityDieSpec => []StakeExplainsCoins
<1>1. DieInv /\ StakeInv /\ [MajorityDieNext]_vars => StakeInv'
  BY StakeNext
<1>2. StakeInv => StakeExplainsCoins
  BY DEF StakeInv
<1>3. QED
  BY <1>1, <1>2, StakeInitially, MajorityDieCorrect, PTL DEF MajorityDieSpec

-----------------------------------------------------------------------------
(* One message at a time and a lobby that can always be told.              *)
OneMessage == \A g, h \in DieHandlers : g = h

(* What the message under way has checked is still true.                   *)
Promised(r) ==
  /\ r.op \in {"join", "leave", "cancel", "start"} => status = "waiting"
  /\ r.op = "start" => r.paying = Members
  /\ r.op = "schedule" => status = "playing" /\ returned = 0

(* A room goes from waiting to playing to its end, and pays at its end     *)
(* only, but for a refund that a restart may leave half done.              *)
QuietInv ==
  /\ status \in {"none", "waiting"} => stage = 0 /\ returned = 0
  /\ status = "playing" => stake = EntryStake * Cardinality(Members) /\ returned <= stake
  /\ status \in {"finished", "cancelled"} => returned = stake
  /\ timer # 0 => status = "playing" /\ returned = 0
  /\ resolver.op \in {"read", "commit", "schedule", "refund"} =>
       status = "playing" /\ returned = 0
  /\ resolver.op \in {"refundCoin", "refundRow"} =>
       status = "playing" /\ returned + EntryStake * Cardinality(resolver.todo) = stake
  /\ \A h \in DieHandlers : Promised(dieReq[h])

LEMMA IdlePromisesNothing == Promised(Idle)
BY DEF Promised, Idle

LEMMA IdleWillPromiseNothing == Promised(Idle)'
BY IdlePromisesNothing, PTL

LEMMA QuietCases ==
  ASSUME [QuietNext]_vars
  PROVE  \/ CreateRoom
         \/ \E h \in DieHandlers :
              ReadStep(h) \/ CommitStep(h) \/ StartCommit(h) \/ StartSchedule(h)
         \/ TimerFires \/ (ResolverStep /\ ~AnnounceFails) \/ ResolutionStep
         \/ ResolveSchedule \/ Crash
         \/ UNCHANGED vars
<1>1. ~(ResolverNext /\ AnnounceFails /\ ~ResolveSchedule)
  <2>1. ASSUME AnnounceFails PROVE resolver.op = "announce" /\ resolver' = [op |-> "refund"]
    BY <2>1 DEF AnnounceFails
  <2>2. ASSUME AnnounceFails PROVE ~ResolverNext
    BY <2>1, <2>2 DEF ResolverNext, ResolveRead, ResolveNothing, ResolveThrows,
       ResolveSchedule, AnnounceDone, RefundRead, RefundCoin, RefundRow, RefundEnd, Idle
  <2>3. QED
    BY <2>2
<1>2. QED
  BY <1>1 DEF QuietNext, ClientNext, Scheduling, ResolverNext, ReadStep, CommitStep,
              ResolverStep, ResolutionStep

LEMMA QuietIsNext == [QuietNext]_vars => [MajorityDieNext]_vars
BY DEF MajorityDieNext

(* Before the start nothing resolves a stage, nothing is staked and        *)
(* nothing has been paid out.                                              *)
LEMMA NothingStakedYet ==
  ASSUME GameInv, MoneyInv, StakeInv, QuietInv, status \in {"none", "waiting"}
  PROVE  stage = 0 /\ timer = 0 /\ resolver = Idle /\ stake = 0 /\ returned = 0
BY DEF GameInv, ControlInv, OneResolution, StakeInv, QuietInv

LEMMA ReadsKeepQuiet ==
  ASSUME OneMessage, GameInv, QuietInv, NEW h \in DieHandlers, ReadStep(h)
  PROVE  QuietInv'
<1>0. ShapeInv
  BY DEF GameInv
<1>1. UNCHANGED <<status, member, stake, stage, timer, resolver, returned>>
  BY <1>0, ReadSteps DEF roomVars, stageVars
<1>2. Members' = Members
  BY <1>1 DEF Members
<1>3. ASSUME NEW r, dieReq' = [dieReq EXCEPT ![h] = r], Promised(r)
      PROVE  \A g \in DieHandlers : Promised(dieReq[g])'
  <2>1. dieReq'[h] = r /\ \A g \in DieHandlers : g = h
    BY <1>0, <1>3 DEF ShapeInv, OneMessage
  <2>2. Promised(dieReq[h])'
    BY <1>1, <1>2, <1>3, <2>1 DEF Promised
  <2>3. QED
    BY <2>1, <2>2
<1>4. \A g \in DieHandlers : Promised(dieReq[g])'
  <2>1. CASE StartRead(h)
    BY <1>3, <2>1 DEF StartRead, Begin, Promised
  <2>2. CASE DieFail(h)
    BY <1>3, <2>2, IdlePromisesNothing DEF DieFail, Done
  <2>3. ASSUME NEW u \in Users, JoinRead(h, u)
        PROVE  \A g \in DieHandlers : Promised(dieReq[g])'
    BY <1>3, <2>3 DEF JoinRead, Joinable, Begin, Promised
  <2>4. ASSUME NEW u \in Users, LeaveRead(h, u)
        PROVE  \A g \in DieHandlers : Promised(dieReq[g])'
    <3> DEFINE q == IF u = Host THEN [op |-> "cancel"] ELSE [op |-> "leave", user |-> u]
    <3>1. q.op \in {"cancel", "leave"}
      OBVIOUS
    <3>2. status = "waiting" /\ dieReq' = [dieReq EXCEPT ![h] = q]
      BY <2>4 DEF LeaveRead, Begin
    <3> HIDE DEF q
    <3>3. Promised(q)
      BY <3>1, <3>2 DEF Promised
    <3>4. QED
      BY <1>3, <3>2, <3>3
  <2>5. ASSUME NEW u \in Users, NEW side \in Options, SubmitRead(h, u, side)
        PROVE  \A g \in DieHandlers : Promised(dieReq[g])'
    BY <1>3, <2>5 DEF SubmitRead, Begin, Promised
  <2>6. QED
    BY <2>1, <2>2, <2>3, <2>4, <2>5 DEF ReadStep
<1>5. QED
  BY <1>1, <1>2, <1>4 DEF QuietInv

LEMMA MessagesKeepQuiet ==
  ASSUME OneMessage, GameInv, MoneyInv, StakeInv, QuietInv,
         \/ CreateRoom
         \/ \E h \in DieHandlers : CommitStep(h) \/ StartCommit(h) \/ StartSchedule(h)
  PROVE  QuietInv'
<1>0. ShapeInv /\ ControlInv
  BY DEF GameInv
<1>1. CASE CreateRoom
  <2>1. status = "none" /\ status' = "waiting" /\ UNCHANGED <<stage, timer, resolver, dieReq, returned>>
    BY <1>1 DEF CreateRoom, stageVars, serverVars
  <2>2. stage = 0 /\ timer = 0 /\ resolver = Idle /\ returned = 0
    BY <2>1, NothingStakedYet
  <2>3. ASSUME NEW g \in DieHandlers PROVE Promised(dieReq[g])'
    <3>1. Promised(dieReq[g])
      BY DEF QuietInv
    <3>2. dieReq[g].op \notin {"join", "leave", "cancel", "start", "schedule"}
      BY <2>1, <3>1 DEF Promised
    <3>3. QED
      BY <2>1, <3>2 DEF Promised
  <2>4. QED
    BY <2>1, <2>2, <2>3 DEF QuietInv, Idle
<1>2. ASSUME NEW h \in DieHandlers, dieReq' = [dieReq EXCEPT ![h] = Idle]
      PROVE  \A g \in DieHandlers : Promised(dieReq[g])'
  <2>1. dieReq'[h] = Idle
    BY <1>0, <1>2 DEF ShapeInv
  <2>2. Promised(dieReq[h])'
    BY <2>1, IdleWillPromiseNothing
  <2>3. QED
    BY <2>2 DEF OneMessage
<1>3. ASSUME NEW h \in DieHandlers, SubmitCommit(h) PROVE QuietInv'
  <2>1. /\ UNCHANGED <<status, member, stake, stage, timer, resolver, returned>>
        /\ Members' = Members
    BY <1>3 DEF SubmitCommit, roomVars, Members
  <2>2. \A g \in DieHandlers : Promised(dieReq[g])'
    BY <1>2, <1>3 DEF SubmitCommit, Done
  <2>3. QED
    BY <2>1, <2>2 DEF QuietInv
<1>4. ASSUME NEW h \in DieHandlers, JoinCommit(h) \/ CancelCommit(h) \/ LeaveCommit(h)
      PROVE  QuietInv'
  <2>1. status = "waiting"
    BY <1>4 DEF JoinCommit, CancelCommit, LeaveCommit, QuietInv, Promised
  <2>2. stage = 0 /\ timer = 0 /\ resolver = Idle /\ stake = 0 /\ returned = 0
    BY <2>1, NothingStakedYet
  <2>3. /\ UNCHANGED <<stake, stage, timer, resolver, returned>>
        /\ status' \in {"waiting", "cancelled"}
    BY <1>4, <2>1 DEF JoinCommit, CancelCommit, LeaveCommit, stageVars
  <2>4. \A g \in DieHandlers : Promised(dieReq[g])'
    BY <1>2, <1>4 DEF JoinCommit, CancelCommit, LeaveCommit, Done
  <2>5. QED
    BY <2>2, <2>3, <2>4 DEF QuietInv, Idle
<1>5. ASSUME NEW h \in DieHandlers, StartCommit(h) PROVE QuietInv'
  <2>1. status = "waiting" /\ dieReq[h].paying = Members
    BY <1>5 DEF StartCommit, QuietInv, Promised
  <2>2. stage = 0 /\ timer = 0 /\ resolver = Idle /\ stake = 0 /\ returned = 0
    BY <2>1, NothingStakedYet
  <2>3. /\ status' = "playing" /\ UNCHANGED <<timer, resolver, returned>>
        /\ stake' = EntryStake * Cardinality(Members)
        /\ member' = [u \in Users |-> IF u \in Members THEN "alive" ELSE "out"]
        /\ dieReq' = [dieReq EXCEPT ![h] = [op |-> "schedule"]]
    BY <1>5, <2>1 DEF StartCommit
  <2>4. Members' = Members
    BY <2>3 DEF Members
  <2>5. EntryStake * Cardinality(Members) \in Nat
    <3>1. Members \in SUBSET Users
      BY DEF Members
    <3>2. Cardinality(Members) \in Nat
      BY <3>1, UsersCounted
    <3>3. QED
      BY <3>2, ConstantsAreInts
  <2>6. \A g \in DieHandlers : Promised(dieReq[g])'
    <3>1. dieReq'[h] = [op |-> "schedule"]
      BY <1>0, <2>3 DEF ShapeInv
    <3>2. Promised(dieReq[h])'
      BY <2>2, <2>3, <3>1 DEF Promised
    <3>3. QED
      BY <3>2 DEF OneMessage
  <2>7. QED
    BY <2>2, <2>3, <2>4, <2>5, <2>6 DEF QuietInv, Idle
<1>6. ASSUME NEW h \in DieHandlers, StartSchedule(h) PROVE QuietInv'
  <2>1. status = "playing" /\ returned = 0 /\ resolver = Idle
    BY <1>0, <1>6 DEF StartSchedule, QuietInv, Promised, ControlInv
  <2>2. /\ UNCHANGED <<status, member, stake, resolver, returned>> /\ Members' = Members
    BY <1>6 DEF StartSchedule, roomVars, Members
  <2>3. \A g \in DieHandlers : Promised(dieReq[g])'
    BY <1>2, <1>6 DEF StartSchedule, Done
  <2>4. QED
    BY <2>1, <2>2, <2>3 DEF QuietInv, Idle
<1>7. QED
  BY <1>1, <1>3, <1>4, <1>5, <1>6 DEF CommitStep

(* While a stage is resolved or the room refunded no message has checked   *)
(* anything but a submission.                                              *)
LEMMA ServerKeepsPromises ==
  ASSUME GameInv, QuietInv, status = "playing", resolver # Idle, UNCHANGED dieReq
  PROVE  \A g \in DieHandlers : Promised(dieReq[g])'
<1>1. ASSUME NEW g \in DieHandlers PROVE Promised(dieReq[g])'
  <2>1. Promised(dieReq[g])
    BY DEF QuietInv
  <2>2. dieReq[g].op # "schedule"
    BY DEF GameInv, ControlInv
  <2>3. dieReq[g].op \notin {"join", "leave", "cancel", "start"}
    BY <2>1 DEF Promised
  <2>4. QED
    BY <2>2, <2>3 DEF Promised
<1>2. QED
  BY <1>1

LEMMA RefundKeepsQuiet ==
  ASSUME GameInv, MoneyInv, QuietInv,
         RefundRead \/ (\E u \in Users : RefundCoin(u)) \/ RefundRow \/ RefundEnd
  PROVE  QuietInv'
<1>0. /\ ShapeInv /\ ControlInv /\ stake \in Nat /\ returned \in Nat
      /\ EntryStake \in Nat \ {0}
  BY ConstantsAreInts DEF GameInv, MoneyInv
<1>1. /\ resolver # Idle /\ status = "playing" /\ UNCHANGED dieReq
      /\ timer = 0 /\ UNCHANGED <<stake, member, timer>> /\ Members' = Members
  <2>1. resolver # Idle /\ status = "playing"
    BY DEF QuietInv, RefundRead, RefundCoin, RefundRow, RefundEnd, Idle
  <2>2. UNCHANGED <<stake, member, timer, dieReq>>
    BY DEF RefundRead, RefundCoin, RefundRow, RefundEnd, roomVars
  <2>3. QED
    BY <1>0, <2>1, <2>2 DEF ControlInv, Members
<1>2. \A g \in DieHandlers : Promised(dieReq[g])'
  BY <1>1, ServerKeepsPromises
<1>3. stake = EntryStake * Cardinality(Members) /\ returned <= stake
  BY <1>1 DEF QuietInv
<1>4. ASSUME NEW T \in SUBSET Users
      PROVE  IsFiniteSet(T) /\ Cardinality(T) \in Nat
  BY UsersCounted
<1>5. ASSUME NEW T \in SUBSET Users, resolver'.todo = T, status' = status,
             resolver'.op \in {"refundCoin", "refundRow"},
             returned' + EntryStake * Cardinality(T) = stake, returned' \in Nat
      PROVE  QuietInv'
  <2>1. EntryStake * Cardinality(T) \in Nat
    BY <1>0, <1>4
  <2>2. returned' <= stake
    BY <1>0, <1>5, <2>1
  <2>3. QED
    BY <1>1, <1>2, <1>3, <1>5, <2>2 DEF QuietInv
<1>6. CASE RefundRead
  <2> DEFINE T == IF stake > 0 THEN Members ELSE {}
  <2>1. /\ returned = 0 /\ returned' = 0 /\ status' = status
        /\ resolver' = [op |-> "refundCoin", todo |-> T]
    BY <1>6 DEF RefundRead, QuietInv, roomVars
  <2>2. T \in SUBSET Users
    BY DEF Members
  <2>3. EntryStake * Cardinality(T) = stake
    <3>1. CASE stake > 0
      BY <1>3, <3>1
    <3>2. CASE stake = 0
      BY <1>0, <3>2, FS_EmptySet
    <3>3. QED
      BY <1>0, <3>1, <3>2
  <2> HIDE DEF T
  <2>4. returned' + EntryStake * Cardinality(T) = stake
    BY <1>0, <2>1, <2>3
  <2>5. resolver'.todo = T /\ resolver'.op = "refundCoin"
    BY <2>1
  <2>6. QED
    BY <1>0, <1>5, <2>1, <2>2, <2>4, <2>5
<1>7. ASSUME NEW u \in Users, RefundCoin(u) PROVE QuietInv'
  <2> DEFINE S == resolver.todo
             T == S \ {u}
  <2>1. /\ S \in SUBSET Users /\ u \in S
        /\ returned + EntryStake * Cardinality(S) = stake
        /\ returned' = returned + EntryStake /\ status' = status
        /\ resolver' = [op |-> "refundRow", todo |-> T, user |-> u]
    BY <1>0, <1>7, ResolverIsTyped DEF RefundCoin, QuietInv, roomVars
  <2>2. T \in SUBSET Users /\ Cardinality(T) = Cardinality(S) - 1
    BY <1>4, <2>1, FS_RemoveElement
  <2>3. resolver'.todo = T /\ resolver'.op = "refundRow"
    BY <2>1
  <2> HIDE DEF T
  <2> DEFINE n == Cardinality(S)
  <2>4. n \in Nat /\ Cardinality(T) = n - 1 /\ returned + EntryStake * n = stake
    BY <1>4, <2>1, <2>2
  <2> HIDE DEF n
  <2>5. EntryStake * (n - 1) = EntryStake * n - EntryStake
    BY <1>0, <2>4
  <2>6. returned' + EntryStake * Cardinality(T) = stake /\ returned' \in Nat
    BY <1>0, <2>1, <2>4, <2>5
  <2>7. QED
    BY <1>5, <2>1, <2>2, <2>3, <2>6
<1>8. CASE RefundRow
  <2>1. /\ resolver.todo \in SUBSET Users /\ returned' = returned /\ status' = status
        /\ returned + EntryStake * Cardinality(resolver.todo) = stake
        /\ resolver' = [op |-> "refundCoin", todo |-> resolver.todo]
    BY <1>0, <1>8, ResolverIsTyped DEF RefundRow, QuietInv, roomVars
  <2>2. resolver'.todo = resolver.todo /\ resolver'.op = "refundCoin"
    BY <2>1
  <2>3. QED
    BY <1>0, <1>5, <2>1, <2>2
<1>9. CASE RefundEnd
  <2>1. /\ status' = "cancelled" /\ resolver' = Idle /\ returned' = returned
        /\ returned + EntryStake * Cardinality({}) = stake
    BY <1>9 DEF RefundEnd, QuietInv
  <2>2. returned' = stake'
    BY <1>0, <1>1, <2>1, FS_EmptySet
  <2>3. QED
    BY <1>1, <1>2, <2>1, <2>2 DEF QuietInv, Idle
<1>10. QED
  BY <1>6, <1>7, <1>8, <1>9

LEMMA ServerKeepsQuiet ==
  ASSUME GameInv, MoneyInv, QuietInv,
         \/ TimerFires \/ ResolveSchedule \/ ResolutionStep
         \/ ResolveRead \/ ResolveNothing \/ ResolveThrows \/ AnnounceDone
  PROVE  QuietInv'
<1>0. ShapeInv /\ ControlInv /\ stake \in Nat /\ returned \in Nat
  BY DEF GameInv, MoneyInv
<1>1. CASE TimerFires
  <2>1. /\ timer # 0 /\ timer' = 0 /\ resolver' = [op |-> "read", stage |-> timer]
        /\ UNCHANGED <<status, member, stake, dieReq, returned>> /\ Members' = Members
    BY <1>1 DEF TimerFires, TimerDue, roomVars, Members
  <2>2. status = "playing" /\ returned = 0 /\ resolver'.op = "read"
    BY <2>1 DEF QuietInv
  <2>3. \A g \in DieHandlers : Promised(dieReq[g])'
    BY <2>1 DEF QuietInv, Promised
  <2>4. QED
    BY <2>1, <2>2, <2>3 DEF QuietInv
<1>2. CASE ResolveSchedule \/ ResolveRead \/ ResolveNothing \/ ResolveThrows
  <2>1. /\ status = "playing" /\ returned = 0 /\ resolver # Idle
        /\ UNCHANGED <<status, member, stake, dieReq, returned>> /\ Members' = Members
    BY <1>2 DEF ResolveSchedule, ResolveRead, ResolveNothing, ResolveThrows, roomVars,
                Members, QuietInv, Idle
  <2>2. resolver'.op \in {"idle", "commit", "refund"}
    BY <1>2 DEF ResolveSchedule, ResolveRead, ResolveNothing, ResolveThrows, Idle
  <2>3. \A g \in DieHandlers : Promised(dieReq[g])'
    BY <2>1, ServerKeepsPromises
  <2>4. QED
    BY <2>1, <2>2, <2>3 DEF QuietInv
<1>3. CASE AnnounceDone
  <2>1. /\ UNCHANGED <<status, member, stake, stage, timer, dieReq, returned>>
        /\ resolver' = Idle /\ Members' = Members
    BY <1>3 DEF AnnounceDone, roomVars, stageVars, Members
  <2>2. \A g \in DieHandlers : Promised(dieReq[g])'
    BY <2>1 DEF QuietInv, Promised
  <2>3. QED
    BY <2>1, <2>2 DEF QuietInv, Idle
<1>4. CASE ResolutionStep
  <2>1. PICK ch \in AutoPicks :
          resolver.op = "commit" /\ (FinishCommit(ch) \/ NextStageCommit(ch))
    BY <1>4 DEF ResolutionStep
  <2>2. status = "playing" /\ returned = 0 /\ resolver # Idle /\ timer = 0
    BY <1>0, <2>1 DEF QuietInv, ControlInv, Idle
  <2>3. Members' = Members
    BY <2>1, ResolutionWrites
  <2>4. UNCHANGED <<stake, timer, dieReq>>
    BY <2>1 DEF FinishCommit, NextStageCommit
  <2>5. \A g \in DieHandlers : Promised(dieReq[g])'
    BY <2>2, <2>4, ServerKeepsPromises
  <2>6. CASE FinishCommit(ch)
    <3>1. status' = "finished" /\ returned' = stake /\ resolver'.op = "announce"
      BY <1>0, <2>2, <2>6 DEF FinishCommit
    <3>2. QED
      BY <2>2, <2>4, <2>5, <3>1 DEF QuietInv
  <2>7. CASE NextStageCommit(ch)
    <3>1. status' = status /\ returned' = returned /\ resolver'.op = "schedule"
      BY <2>7 DEF NextStageCommit
    <3>2. QED
      BY <2>2, <2>3, <2>4, <2>5, <3>1 DEF QuietInv
  <2>8. QED
    BY <2>1, <2>6, <2>7
<1>5. QED
  BY <1>1, <1>2, <1>3, <1>4

LEMMA QuietStepKeeps ==
  ASSUME OneMessage, DieInv, StakeInv, QuietInv, [QuietNext]_vars
  PROVE  QuietInv'
<1>0. GameInv /\ MoneyInv
  BY DEF DieInv
<1>1. CASE Crash
  <2>1. /\ timer' = 0 /\ resolver' = Idle
        /\ \A g \in DieHandlers : dieReq'[g] = Idle
        /\ UNCHANGED <<status, member, stake, stage, returned>> /\ Members' = Members
    BY <1>1 DEF Crash, roomVars, stageVars, Members
  <2>2. \A g \in DieHandlers : Promised(dieReq[g])'
    BY <2>1, IdleWillPromiseNothing
  <2>3. QED
    BY <2>1, <2>2 DEF QuietInv, Idle
<1>2. CASE UNCHANGED vars
  <2>1. /\ UNCHANGED <<status, member, stake, stage, timer, resolver, dieReq, returned>>
        /\ Members' = Members
    BY <1>2 DEF vars, roomVars, stageVars, serverVars, Members
  <2>2. \A g \in DieHandlers : Promised(dieReq[g])'
    BY <2>1 DEF QuietInv, Promised
  <2>3. QED
    BY <2>1, <2>2 DEF QuietInv
<1>3. CASE ResolverStep /\ ~AnnounceFails
  BY <1>0, <1>3, RefundKeepsQuiet, ServerKeepsQuiet DEF ResolverStep
<1>4. QED
  BY <1>0, <1>1, <1>2, <1>3, QuietCases, ReadsKeepQuiet, MessagesKeepQuiet,
     ServerKeepsQuiet

LEMMA QuietInitially == MajorityDieInit => QuietInv
BY IdlePromisesNothing DEF MajorityDieInit, QuietInv, Idle

(* The invariants of the room also hold of its quiet steps.                *)
LEMMA QuietHolds ==
  ASSUME OneMessage
  PROVE  MajorityDieInit /\ [][QuietNext]_vars => [](DieInv /\ StakeInv /\ QuietInv)
<1>1. MajorityDieInit => DieInv /\ StakeInv /\ QuietInv
  BY DieInitially, StakeInitially, QuietInitially
<1>2. DieInv /\ StakeInv /\ QuietInv /\ [QuietNext]_vars => (DieInv /\ StakeInv /\ QuietInv)'
  BY QuietIsNext, DieNext, StakeNext, QuietStepKeeps
<1>3. QED
  BY <1>1, <1>2, PTL

(* With one message at a time and a lobby that can be told, whoever plays  *)
(* has staked and whoever has staked plays.                                *)
THEOREM PotCorrect ==
  ASSUME OneMessage
  PROVE  QuietLobbySpec => []PotMatchesPlayers
<1>1. QuietInv => PotMatchesPlayers
  BY DEF QuietInv, PotMatchesPlayers
<1>2. QED
  BY <1>1, QuietHolds, PTL DEF QuietLobbySpec

-----------------------------------------------------------------------------
(* The room as an escrow.                                                  *)
Pot == stake - returned
Closed == status \in {"finished", "cancelled"}

LEMMA EscrowSumIsSum == ASSUME NEW f PROVE Escrowed!SumFunction(f) = SumFunction(f)
BY DEF Escrowed!SumFunction, Escrowed!SumFunctionOnSet, Escrowed!FoldFunctionOnSet,
       Escrowed!MapThenFoldSet, SumFunction, SumFunctionOnSet, FoldFunctionOnSet,
       MapThenFoldSet

LEMMA TotalIsConstant ==
  MoneyInv /\ StakeInv => Escrowed!Total = SumFunction(StartCoin)
<1> SUFFICES ASSUME MoneyInv, StakeInv PROVE Escrowed!Total = SumFunction(StartCoin)
  OBVIOUS
<1> DEFINE p == [r \in {"room"} |-> Pot]
<1>1. /\ DOMAIN p = {"room"} /\ p["room"] = Pot /\ Pot \in Int
      /\ stake \in Nat /\ returned \in Nat
  BY DEF MoneyInv, Pot
<1>2. IsFiniteSet({"room"}) /\ Cardinality({"room"}) = 1
  BY FS_Singleton
<1>3. \A x \in {"room"} : p[x] = IF x \in {"room"} THEN Pot ELSE 0
  BY <1>1
<1>4. Escrowed!Total = SumFunction(coin) + SumFunction(p)
  BY EscrowSumIsSum DEF Escrowed!Total, Pot
<1> HIDE DEF p
<1>5. SumFunctionOnSet(p, {"room"}) = Pot * Cardinality({"room"})
  BY <1>1, <1>2, <1>3, SumShares
<1>6. SumFunction(p) = Pot
  BY <1>1, <1>2, <1>5, SumOverDomain
<1>7. SumFunction(coin) \in Int
  <2>1. coin \in [Users -> Int4] /\ Int4 \subseteq Int
    BY ConstantsAreInts DEF MoneyInv
  <2>2. coin \in [Users -> Int]
    BY <2>1
  <2>3. QED
    BY <2>2, UsersAssumption, SumIsInt
<1>8. SumFunction(StartCoin) \in Int
  BY ConstantsAreInts, UsersAssumption, LedgerAssumption, SumIsInt
<1>9. QED
  BY <1>1, <1>4, <1>6, <1>7, <1>8 DEF StakeInv, StakeExplainsCoins, Pot

LEMMA TotalStays ==
  (MoneyInv /\ StakeInv => Escrowed!Total = SumFunction(StartCoin))'
BY TotalIsConstant, PTL

(* The room holds what it has not paid back, and nothing once it is over.  *)
LEMMA PotIsHeld ==
  GameInv /\ MoneyInv /\ StakeInv /\ QuietInv
    => Pot \in Nat /\ (Closed => Pot = 0)
<1> SUFFICES ASSUME GameInv, MoneyInv, StakeInv, QuietInv
             PROVE  Pot \in Nat /\ (Closed => Pot = 0)
  OBVIOUS
<1>1. stake \in Nat /\ returned \in Nat
  BY DEF MoneyInv
<1>2. CASE status \in {"none", "waiting"}
  BY <1>1, <1>2, NothingStakedYet DEF Pot, Closed
<1>3. CASE status = "playing"
  BY <1>1, <1>3 DEF QuietInv, Pot, Closed
<1>4. CASE Closed
  BY <1>1, <1>4 DEF QuietInv, Pot, Closed
<1>5. QED
  BY <1>2, <1>3, <1>4 DEF GameInv, ShapeInv, Closed

LEMMA PotStaysHeld ==
  (GameInv /\ MoneyInv /\ StakeInv /\ QuietInv
    => Pot \in Nat /\ (Closed => Pot = 0))'
BY PotIsHeld, PTL

(* A room that is over moves no coin and is never opened again.            *)
LEMMA OverStaysOver ==
  ASSUME GameInv, QuietInv, Closed, [QuietNext]_vars
  PROVE  UNCHANGED <<coin, stake, returned>> /\ Closed'
<1>0. ShapeInv
  BY DEF GameInv
<1>1. \A h \in DieHandlers :
        dieReq[h].op \notin {"join", "leave", "cancel", "start", "schedule"}
  BY DEF QuietInv, Promised, Closed
<1>2. /\ timer = 0
      /\ resolver.op \notin {"read", "commit", "schedule", "refund",
                             "refundCoin", "refundRow"}
  BY DEF QuietInv, Closed
<1>3. CASE AnnounceDone \/ Crash \/ UNCHANGED vars
  BY <1>3 DEF AnnounceDone, Crash, vars, ledgerVars, roomVars, Closed
<1>4. ASSUME NEW h \in DieHandlers,
             ReadStep(h) \/ CommitStep(h) \/ StartCommit(h) \/ StartSchedule(h)
      PROVE  UNCHANGED <<coin, stake, returned>> /\ Closed'
  <2>1. CASE ReadStep(h)
    BY <1>0, <2>1, ReadSteps DEF ledgerVars, roomVars, Closed
  <2>2. CASE SubmitCommit(h)
    BY <2>2 DEF SubmitCommit, ledgerVars, roomVars, Closed
  <2>3. QED
    BY <1>1, <1>4, <2>1, <2>2
       DEF CommitStep, JoinCommit, CancelCommit, LeaveCommit, StartCommit, StartSchedule
<1>5. QED
  BY <1>2, <1>3, <1>4, QuietCases
     DEF Closed, CreateRoom, TimerFires, TimerDue, ResolverStep, ResolveRead,
         ResolveNothing, ResolveThrows, RefundRead, RefundCoin, RefundRow, RefundEnd,
         ResolutionStep, ResolveSchedule

LEMMA EscrowStep ==
  ASSUME OneMessage, DieInv, StakeInv, QuietInv, [QuietNext]_vars
  PROVE  [\E r \in {"room"} : Escrowed!Exchange(r)]_(Escrowed!escrowVars)
<1>0. /\ GameInv /\ MoneyInv /\ GameInv' /\ MoneyInv' /\ StakeInv' /\ QuietInv'
  BY QuietIsNext, DieNext, StakeNext, QuietStepKeeps DEF DieInv
<1>1. CASE Closed
  <2>1. UNCHANGED <<coin, stake, returned>> /\ Closed'
    BY <1>0, <1>1, OverStaysOver
  <2>2. (status' \in {"finished", "cancelled"}) = (status \in {"finished", "cancelled"})
    BY <1>1, <2>1 DEF Closed
  <2>3. QED
    BY <2>1, <2>2 DEF Escrowed!escrowVars
<1>2. CASE ~Closed
  <2>1. Escrowed!Total' = Escrowed!Total
    BY <1>0, TotalIsConstant, TotalStays
  <2>2. Pot' \in Nat /\ (Closed' => Pot' = 0)
    BY <1>0, PotStaysHeld
  <2>3. Pot' >= 0
    BY <2>2
  <2>4. [r \in {"room"} |-> Pot'] = [[r \in {"room"} |-> Pot] EXCEPT !["room"] = Pot']
    OBVIOUS
  <2>5. [r \in {"room"} |-> Closed'] = [[r \in {"room"} |-> Closed] EXCEPT !["room"] = Closed']
    OBVIOUS
  <2>6. Escrowed!Exchange("room")
    BY <1>2, <2>1, <2>2, <2>3, <2>4, <2>5 DEF Escrowed!Exchange, Pot, Closed
  <2>7. QED
    BY <2>6
<1>3. QED
  BY <1>1, <1>2

LEMMA EscrowInitially == MajorityDieInit => Escrowed!EscrowInit
<1> SUFFICES ASSUME MajorityDieInit PROVE Escrowed!EscrowInit
  OBVIOUS
<1>1. coin = StartCoin /\ stake = 0 /\ returned = 0 /\ status = "none"
  BY DEF MajorityDieInit, LedgerInit
<1>2. (status \in {"finished", "cancelled"}) = FALSE /\ stake - returned = 0
  BY <1>1
<1>3. QED
  BY <1>1, <1>2 DEF Escrowed!EscrowInit

(* With one message at a time and a lobby that can be told the room keeps  *)
(* the escrow promise, whatever timers, failing resolutions and restarts   *)
(* do: a refund that a restart has cut short is never taken up again, so   *)
(* no player is refunded twice, and a room that is over is empty.          *)
THEOREM EscrowCorrect ==
  ASSUME OneMessage
  PROVE  QuietLobbySpec => ImplementsEscrow
<1>1. DieInv /\ StakeInv /\ QuietInv /\ [QuietNext]_vars
        => [\E r \in {"room"} : Escrowed!Exchange(r)]_(Escrowed!escrowVars)
  BY EscrowStep
<1>2. QED
  BY <1>1, EscrowInitially, QuietHolds, PTL
     DEF QuietLobbySpec, ImplementsEscrow, Escrowed!EscrowSpec
=============================================================================
