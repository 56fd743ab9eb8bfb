---------------------------- MODULE RpsVoteProofs ----------------------------
(***************************************************************************)
(* Theorems about RpsVote, for any players, teams, votes and hashes.       *)
(***************************************************************************)
EXTENDS RpsVote, FiniteSetTheorems, SequenceTheorems, TLAPS

LEMMA HandsAre == Hands = {"rock", "paper", "scissors"}
<1>1. 1 .. 3 = {1, 2, 3}
  OBVIOUS
<1>2. QED
  BY <1>1 DEF Hands, Options

(* An index into a list of n options.                                      *)
LEMMA HashIsIndex ==
  ASSUME NEW hash \in Nat, NEW n \in Nat \ {0}
  PROVE  hash % n \in 0 .. (n - 1)
OBVIOUS

LEMMA OptionPicked ==
  ASSUME NEW hash \in Nat
  PROVE  HashPick(Options, hash) \in Hands
<1>1. hash % 3 \in 0 .. 2
  BY HashIsIndex
<1>2. HashPick(Options, hash) = Options[(hash % 3) + 1]
  BY DEF HashPick, Options
<1>3. (hash % 3) + 1 \in 1 .. 3
  BY <1>1
<1>4. QED
  BY <1>2, <1>3 DEF Hands

(* The largest of three counts.                                            *)
LEMMA MaxOfHands ==
  ASSUME NEW tally \in [Hands -> Nat]
  PROVE  LET max == Max({tally[c] : c \in Hands}) IN
         /\ \E c \in Hands : tally[c] = max
         /\ \A c \in Hands : tally[c] <= max
<1> DEFINE S == {tally[c] : c \in Hands}
<1>1. \E x \in S : \A y \in S : x >= y
  <2>1. S = {tally["rock"], tally["paper"], tally["scissors"]}
    BY HandsAre
  <2>2. tally["rock"] \in Nat /\ tally["paper"] \in Nat /\ tally["scissors"] \in Nat
    BY HandsAre
  <2> HIDE DEF S
  <2>3. QED
    BY <2>1, <2>2
<1>2. Max(S) \in S /\ \A y \in S : Max(S) >= y
  <2> HIDE DEF S
  <2>1. QED
    BY <1>1 DEF Max
<1>3. QED
  BY <1>2

(* Lists of two and of three.                                              *)
LEMMA TwoListed ==
  ASSUME NEW S, NEW a \in S, NEW b \in S
  PROVE  <<a>> \o <<b>> = <<a, b>>
<1>1. <<a>> \in Seq(S) /\ <<b>> \in Seq(S) /\ <<a, b>> \in Seq(S)
  OBVIOUS
<1>2. /\ <<a>> \o <<b>> \in Seq(S) /\ Len(<<a>> \o <<b>>) = 2
      /\ (<<a>> \o <<b>>)[1] = a /\ (<<a>> \o <<b>>)[2] = b
  BY <1>1, ConcatProperties
<1>3. \A i \in 1 .. 2 : (<<a>> \o <<b>>)[i] = <<a, b>>[i]
  <2>1. \A i \in 1 .. 2 : i = 1 \/ i = 2
    OBVIOUS
  <2>2. QED
    BY <1>2, <2>1
<1>4. Len(<<a, b>>) = 2
  OBVIOUS
<1>5. QED
  BY <1>1, <1>2, <1>3, <1>4, SeqEqual

LEMMA ThreeListed ==
  ASSUME NEW S, NEW a \in S, NEW b \in S, NEW c \in S
  PROVE  <<a>> \o <<b>> \o <<c>> = <<a, b, c>>
<1>1. <<a, b>> \in Seq(S) /\ <<c>> \in Seq(S) /\ <<a, b, c>> \in Seq(S)
  OBVIOUS
<1>2. /\ <<a, b>> \o <<c>> \in Seq(S) /\ Len(<<a, b>> \o <<c>>) = 3
      /\ (<<a, b>> \o <<c>>)[1] = a /\ (<<a, b>> \o <<c>>)[2] = b
      /\ (<<a, b>> \o <<c>>)[3] = c
  BY <1>1, ConcatProperties
<1>3. \A i \in 1 .. 3 : (<<a, b>> \o <<c>>)[i] = <<a, b, c>>[i]
  <2>1. \A i \in 1 .. 3 : i = 1 \/ i = 2 \/ i = 3
    OBVIOUS
  <2>2. QED
    BY <1>2, <2>1
<1>4. Len(<<a, b, c>>) = 3
  OBVIOUS
<1>5. <<a, b>> \o <<c>> = <<a, b, c>>
  BY <1>1, <1>2, <1>3, <1>4, SeqEqual
<1>6. QED
  BY <1>5, TwoListed

LEMMA NothingAdded ==
  ASSUME NEW S, NEW s \in Seq(S)
  PROVE  s \o <<>> = s /\ <<>> \o s = s
BY ConcatEmptySeq

(* The lists of finalists that arise.                                      *)
LEMMA FinalistLists ==
  /\ <<"rock">> \o <<"paper">> \o <<"scissors">> = <<"rock", "paper", "scissors">>
  /\ <<"rock">> \o <<"paper">> \o <<>> = <<"rock", "paper">>
  /\ <<"rock">> \o <<>> \o <<"scissors">> = <<"rock", "scissors">>
  /\ <<>> \o <<"paper">> \o <<"scissors">> = <<"paper", "scissors">>
<1>1. "rock" \in Hands /\ "paper" \in Hands /\ "scissors" \in Hands
  BY HandsAre
<1>2. /\ <<"rock">> \in Seq(Hands) /\ <<"paper">> \in Seq(Hands)
      /\ <<"rock", "paper">> \in Seq(Hands)
  BY <1>1
<1>3. <<"rock">> \o <<"paper">> \o <<"scissors">> = <<"rock", "paper", "scissors">>
  BY <1>1, ThreeListed, Zenon
<1>4. <<"rock">> \o <<"paper">> \o <<>> = <<"rock", "paper">>
  <2>1. <<"rock">> \o <<"paper">> = <<"rock", "paper">>
    BY <1>1, TwoListed, Zenon
  <2>2. <<"rock", "paper">> \o <<>> = <<"rock", "paper">>
    BY <1>2, NothingAdded, Zenon
  <2>3. QED
    BY <2>1, <2>2, Zenon
<1>5. <<"rock">> \o <<>> \o <<"scissors">> = <<"rock", "scissors">>
  <2>1. <<"rock">> \o <<>> = <<"rock">>
    BY <1>2, NothingAdded, Zenon
  <2>2. <<"rock">> \o <<"scissors">> = <<"rock", "scissors">>
    BY <1>1, TwoListed, Zenon
  <2>3. QED
    BY <2>1, <2>2, Zenon
<1>6. <<>> \o <<"paper">> \o <<"scissors">> = <<"paper", "scissors">>
  <2>1. <<>> \o <<"paper">> = <<"paper">>
    BY <1>2, NothingAdded, Zenon
  <2>2. <<"paper">> \o <<"scissors">> = <<"paper", "scissors">>
    BY <1>1, TwoListed, Zenon
  <2>3. QED
    BY <2>1, <2>2, Zenon
<1>7. QED
  BY <1>3, <1>4, <1>5, <1>6

(* The team plays a hand no other hand has more votes than, and tells a    *)
(* tie exactly when another hand has as many.                              *)
LEMMA TeamChoice ==
  ASSUME NEW tally \in [Hands -> Nat], NEW hash \in Nat
  PROVE  LET r == ResolveTeamChoice(tally, hash) IN
         /\ r.choice \in Hands /\ r.tieBreak \in BOOLEAN
         /\ \A c \in Hands : tally[c] <= tally[r.choice]
         /\ r.tieBreak <=> \E c \in Hands \ {r.choice} : tally[c] = tally[r.choice]
<1> DEFINE max == Max({tally[c] : c \in Hands})
           IfBest(c) == IF tally[c] = max THEN <<c>> ELSE <<>>
           finalists == IfBest("rock") \o IfBest("paper") \o IfBest("scissors")
           n == Len(finalists)
           r == ResolveTeamChoice(tally, hash)
<1>1. /\ \E c \in Hands : tally[c] = max
      /\ \A c \in Hands : tally[c] <= max
  BY MaxOfHands
<1>2. r = [choice |-> HashPick(finalists, hash), tieBreak |-> n > 1]
  BY DEF ResolveTeamChoice
<1> HIDE DEF max, r
<1>3. /\ n \in 1 .. 3
      /\ \A i \in 1 .. n : finalists[i] \in Hands /\ tally[finalists[i]] = max
      /\ \A c \in Hands : tally[c] = max => \E i \in 1 .. n : finalists[i] = c
      /\ \A i, j \in 1 .. n : i # j => finalists[i] # finalists[j]
  <2> DEFINE R == tally["rock"] = max
             P == tally["paper"] = max
             C == tally["scissors"] = max
  <2>1. R \/ P \/ C
    BY <1>1, HandsAre
  <2>2. CASE R /\ P /\ C
    <3>1. finalists = <<"rock", "paper", "scissors">> /\ n = 3
      <4>1. /\ IfBest("rock") = <<"rock">>
            /\ IfBest("paper") = <<"paper">>
            /\ IfBest("scissors") = <<"scissors">>
        BY <2>2
      <4> HIDE DEF IfBest
      <4>2. finalists = <<"rock">> \o <<"paper">> \o <<"scissors">>
        BY <4>1, Zenon
      <4>3. finalists = <<"rock", "paper", "scissors">>
        BY <4>2, FinalistLists, Zenon
      <4> HIDE DEF finalists
      <4>4. QED
        BY <4>3
    <3> HIDE DEF finalists, n
    <3>2. QED
      BY <2>2, <3>1, HandsAre
  <2>3. CASE R /\ P /\ ~C
    <3>1. finalists = <<"rock", "paper">> /\ n = 2
      <4>1. /\ IfBest("rock") = <<"rock">>
            /\ IfBest("paper") = <<"paper">>
            /\ IfBest("scissors") = <<>>
        BY <2>3
      <4> HIDE DEF IfBest
      <4>2. finalists = <<"rock">> \o <<"paper">> \o <<>>
        BY <4>1, Zenon
      <4>3. finalists = <<"rock", "paper">>
        BY <4>2, FinalistLists, Zenon
      <4> HIDE DEF finalists
      <4>4. QED
        BY <4>3
    <3> HIDE DEF finalists, n
    <3>2. QED
      BY <2>3, <3>1, HandsAre
  <2>4. CASE R /\ ~P /\ C
    <3>1. finalists = <<"rock", "scissors">> /\ n = 2
      <4>1. /\ IfBest("rock") = <<"rock">>
            /\ IfBest("paper") = <<>>
            /\ IfBest("scissors") = <<"scissors">>
        BY <2>4
      <4> HIDE DEF IfBest
      <4>2. finalists = <<"rock">> \o <<>> \o <<"scissors">>
        BY <4>1, Zenon
      <4>3. finalists = <<"rock", "scissors">>
        BY <4>2, FinalistLists, Zenon
      <4> HIDE DEF finalists
      <4>4. QED
        BY <4>3
    <3> HIDE DEF finalists, n
    <3>2. QED
      BY <2>4, <3>1, HandsAre
  <2>5. CASE ~R /\ P /\ C
    <3>1. finalists = <<"paper", "scissors">> /\ n = 2
      <4>1. /\ IfBest("rock") = <<>>
            /\ IfBest("paper") = <<"paper">>
            /\ IfBest("scissors") = <<"scissors">>
        BY <2>5
      <4> HIDE DEF IfBest
      <4>2. finalists = <<>> \o <<"paper">> \o <<"scissors">>
        BY <4>1, Zenon
      <4>3. finalists = <<"paper", "scissors">>
        BY <4>2, FinalistLists, Zenon
      <4> HIDE DEF finalists
      <4>4. QED
        BY <4>3
    <3> HIDE DEF finalists, n
    <3>2. QED
      BY <2>5, <3>1, HandsAre
  <2>6. CASE R /\ ~P /\ ~C
    <3>1. finalists = <<"rock">> /\ n = 1
      BY <2>6
    <3> HIDE DEF finalists, n
    <3>2. QED
      BY <2>6, <3>1, HandsAre
  <2>7. CASE ~R /\ P /\ ~C
    <3>1. finalists = <<"paper">> /\ n = 1
      BY <2>7
    <3> HIDE DEF finalists, n
    <3>2. QED
      BY <2>7, <3>1, HandsAre
  <2>8. CASE ~R /\ ~P /\ C
    <3>1. finalists = <<"scissors">> /\ n = 1
      BY <2>8
    <3> HIDE DEF finalists, n
    <3>2. QED
      BY <2>8, <3>1, HandsAre
  <2>9. QED
    BY <2>1, <2>2, <2>3, <2>4, <2>5, <2>6, <2>7, <2>8
<1> DEFINE k == (hash % n) + 1
<1>4. r.choice = finalists[k] /\ (r.tieBreak = (n > 1))
  BY <1>2 DEF HashPick
<1> HIDE DEF finalists, n
<1>5. k \in 1 .. n
  <2>1. n \in Nat \ {0}
    BY <1>3
  <2>2. hash % n \in 0 .. (n - 1)
    BY <2>1, HashIsIndex
  <2>3. QED
    BY <2>1, <2>2
<1> HIDE DEF k
<1>6. r.choice \in Hands /\ tally[r.choice] = max
  BY <1>3, <1>4, <1>5
<1>7. n > 1 <=> \E c \in Hands \ {r.choice} : tally[c] = max
  <2>1. ASSUME n > 1 PROVE \E c \in Hands \ {r.choice} : tally[c] = max
    <3>1. PICK i \in 1 .. n : i # k
      <4>1. 1 \in 1 .. n /\ 2 \in 1 .. n
        BY <1>3, <2>1
      <4>2. QED
        BY <4>1
    <3>2. finalists[i] # r.choice /\ finalists[i] \in Hands /\ tally[finalists[i]] = max
      BY <1>3, <1>4, <1>5, <3>1
    <3>3. QED
      BY <3>2
  <2>2. ASSUME NEW c \in Hands \ {r.choice}, tally[c] = max PROVE n > 1
    <3>1. PICK i \in 1 .. n : finalists[i] = c
      BY <1>3, <2>2
    <3>2. i # k
      BY <1>4, <2>2, <3>1
    <3>3. QED
      BY <1>3, <1>5, <3>1, <3>2
  <2>3. QED
    BY <2>1, <2>2
<1>8. r.tieBreak \in BOOLEAN /\ (r.tieBreak <=> n > 1)
  <2>1. (n > 1) \in BOOLEAN
    BY <1>3
  <2>2. QED
    BY <1>4, <2>1, Zenon
<1>9. /\ \A c \in Hands : tally[c] <= tally[r.choice]
      /\ r.tieBreak <=> \E c \in Hands \ {r.choice} : tally[c] = tally[r.choice]
  BY <1>1, <1>6, <1>7, <1>8
<1>10. QED
  BY <1>6, <1>8, <1>9 DEF r

-----------------------------------------------------------------------------
(* The made-up picks are hands, so all players on a team have one.         *)
LEMMA AutoPicksTyped ==
  ASSUME TypeOK, NEW hash \in [Missing -> Hashes]
  PROVE  WithAutoPicks(hash) \in [Players -> Hands \cup {"none"}]
<1>1. ASSUME NEW u \in Missing PROVE HashPick(Options, hash[u]) \in Hands
  <2>1. hash[u] \in Nat
    BY RpsVoteAssumption
  <2>2. QED
    BY <2>1, OptionPicked
<1>2. QED
  BY <1>1 DEF WithAutoPicks, TypeOK

(* The counts of a team are its backers once the votes are in.             *)
LEMMA TallyCounts ==
  ASSUME NEW v, NEW t
  PROVE  TallyForTeam(v, t) \in [Hands -> Nat]
<1>1. ASSUME NEW c \in Hands
      PROVE  Cardinality({u \in Players : side[u] = t /\ v[u] = c}) \in Nat
  <2>1. IsFiniteSet({u \in Players : side[u] = t /\ v[u] = c})
    BY RpsVoteAssumption, FS_Subset
  <2>2. QED
    BY <2>1, FS_CardinalityType
<1>2. QED
  BY <1>1 DEF TallyForTeam

LEMMA ResolveRpsTyped ==
  ASSUME NEW a, NEW b
  PROVE  ResolveRps(a, b) \in Sides \cup {"draw"}
BY DEF ResolveRps, Sides

LEMMA ChoiceTyped ==
  ASSUME NEW tally \in [Hands -> Nat], NEW hash \in Nat
  PROVE  ResolveTeamChoice(tally, hash) \in [choice : Hands, tieBreak : BOOLEAN]
<1>1. /\ ResolveTeamChoice(tally, hash).choice \in Hands
      /\ ResolveTeamChoice(tally, hash).tieBreak \in BOOLEAN
  BY TeamChoice
<1>2. PICK x, y : ResolveTeamChoice(tally, hash) = [choice |-> x, tieBreak |-> y]
  BY DEF ResolveTeamChoice
<1>3. x \in Hands /\ y \in BOOLEAN
  BY <1>1, <1>2
<1>4. QED
  BY <1>2, <1>3

-----------------------------------------------------------------------------
(* Which hand a team plays, as a property of its tally.                    *)
LEMMA RivalsOfChoice ==
  ASSUME NEW tally \in [Hands -> Nat], NEW hash \in Nat
  PROVE  LET r == ResolveTeamChoice(tally, hash)
             Rivals == {c \in Hands \ {r.choice} : tally[c] >= tally[r.choice]}
         IN /\ \A c \in Rivals : tally[c] = tally[r.choice]
            /\ r.tieBreak <=> Rivals # {}
<1> DEFINE r == ResolveTeamChoice(tally, hash)
<1>1. /\ r.choice \in Hands /\ r.tieBreak \in BOOLEAN
      /\ \A c \in Hands : tally[c] <= tally[r.choice]
      /\ r.tieBreak <=> \E c \in Hands \ {r.choice} : tally[c] = tally[r.choice]
  BY TeamChoice
<1> HIDE DEF r
<1>2. \A c \in Hands : tally[c] >= tally[r.choice] <=> tally[c] = tally[r.choice]
  <2>1. \A c \in Hands : tally[c] \in Nat
    OBVIOUS
  <2>2. QED
    BY <1>1, <2>1
<1>3. /\ \A c \in {c \in Hands \ {r.choice} : tally[c] >= tally[r.choice]} :
           tally[c] = tally[r.choice]
      /\ r.tieBreak <=> {c \in Hands \ {r.choice} : tally[c] >= tally[r.choice]} # {}
  BY <1>1, <1>2
<1>4. QED
  BY <1>3 DEF r

(* Which of two hands wins: the cycle of the hands against the table.      *)
LEMMA WinnerOfHands ==
  ASSUME NEW a \in Hands, NEW b \in Hands
  PROVE  LET edge == (3 + Rank(a) - Rank(b)) % 3 IN
         ResolveRps(a, b) = CASE edge = 0 -> "draw" [] edge = 1 -> "A" [] edge = 2 -> "B"
<1>1. Rank("rock") = 0 /\ Rank("paper") = 1 /\ Rank("scissors") = 2
  BY DEF Rank
<1>2. /\ a = "rock" \/ a = "paper" \/ a = "scissors"
      /\ b = "rock" \/ b = "paper" \/ b = "scissors"
  BY HandsAre
<1>3. CASE a = b
  <2>1. (3 + Rank(a) - Rank(b)) % 3 = 0
    BY <1>1, <1>2, <1>3
  <2>2. QED
    BY <1>3, <2>1 DEF ResolveRps
<1>4. CASE \/ a = "rock" /\ b = "scissors"
           \/ a = "paper" /\ b = "rock"
           \/ a = "scissors" /\ b = "paper"
  <2>1. (3 + Rank(a) - Rank(b)) % 3 = 1
    BY <1>1, <1>4
  <2>2. ResolveRps(a, b) = "A"
    BY <1>4 DEF ResolveRps
  <2>3. QED
    BY <2>1, <2>2
<1>5. CASE \/ a = "rock" /\ b = "paper"
           \/ a = "paper" /\ b = "scissors"
           \/ a = "scissors" /\ b = "rock"
  <2>1. (3 + Rank(a) - Rank(b)) % 3 = 2
    BY <1>1, <1>5
  <2>2. ResolveRps(a, b) = "B"
    BY <1>5 DEF ResolveRps
  <2>3. QED
    BY <2>1, <2>2
<1>6. \/ a = b
      \/ a = "rock" /\ b = "scissors"
      \/ a = "paper" /\ b = "rock"
      \/ a = "scissors" /\ b = "paper"
      \/ a = "rock" /\ b = "paper"
      \/ a = "paper" /\ b = "scissors"
      \/ a = "scissors" /\ b = "rock"
  BY <1>2
<1>7. QED
  BY <1>3, <1>4, <1>5, <1>6

-----------------------------------------------------------------------------
(* The type invariant: a hash never picks past the end of its options, and *)
(* every choice of a team is a hand.                                       *)
THEOREM TypeCorrect == RpsVoteSpec => []TypeOK
<1>1. RpsVoteInit => TypeOK
  BY DEF RpsVoteInit, TypeOK
<1>2. ASSUME TypeOK, [RpsVoteNext]_vars PROVE TypeOK'
  <2>1. ASSUME NEW u \in Players, NEW c \in Hands, SubmitVote(u, c) PROVE TypeOK'
    BY <1>2, <2>1 DEF SubmitVote, TypeOK
  <2>2. ASSUME NEW hash \in [Missing -> Hashes], NEW hashA \in Hashes,
               NEW hashB \in Hashes, ResolveRound(hash, hashA, hashB)
        PROVE  TypeOK'
    <3> DEFINE all == WithAutoPicks(hash)
               a == ResolveTeamChoice(TallyForTeam(all, "A"), hashA)
               b == ResolveTeamChoice(TallyForTeam(all, "B"), hashB)
    <3>1. all \in [Players -> Hands \cup {"none"}]
      BY <1>2, AutoPicksTyped
    <3>2. hashA \in Nat /\ hashB \in Nat
      BY RpsVoteAssumption
    <3>3. /\ TallyForTeam(all, "A") \in [Hands -> Nat]
          /\ TallyForTeam(all, "B") \in [Hands -> Nat]
      BY TallyCounts
    <3>4. a \in [choice : Hands, tieBreak : BOOLEAN]
      BY <3>2, <3>3, ChoiceTyped
    <3>5. b \in [choice : Hands, tieBreak : BOOLEAN]
      BY <3>2, <3>3, ChoiceTyped
    <3>6. /\ vote' = all /\ side' = side
          /\ result' = [winner |-> ResolveRps(a.choice, b.choice), A |-> a, B |-> b]
      BY <2>2 DEF ResolveRound
    <3> HIDE DEF all, a, b
    <3>7. ResolveRps(a.choice, b.choice) \in Sides \cup {"draw"}
      BY ResolveRpsTyped
    <3>8. QED
      BY <1>2, <3>1, <3>4, <3>5, <3>6, <3>7 DEF TypeOK
  <2>3. CASE UNCHANGED vars
    BY <1>2, <2>3 DEF TypeOK, vars
  <2>4. QED
    BY <1>2, <2>1, <2>2, <2>3 DEF RpsVoteNext
<1>3. QED
  BY <1>1, <1>2, PTL DEF RpsVoteSpec

-----------------------------------------------------------------------------
(* No step follows the decision of a round, so what resolveRound            *)
(* establishes stays.                                                      *)
LEMMA DecidedStays ==
  ASSUME result # Undecided, [RpsVoteNext]_vars
  PROVE  UNCHANGED vars
BY DEF RpsVoteNext, SubmitVote, ResolveRound

LEMMA OpenAtFirst == RpsVoteInit => result = Undecided
BY DEF RpsVoteInit

(* A step that leaves the round open is a vote.                            *)
LEMMA DecidedBy ==
  ASSUME result = Undecided, [RpsVoteNext]_vars, result' # Undecided
  PROVE  \E hash \in [Missing -> Hashes], hashA, hashB \in Hashes :
           ResolveRound(hash, hashA, hashB)
BY DEF RpsVoteNext, SubmitVote, vars

-----------------------------------------------------------------------------
(* PluralityWins, with the votes and teams it counts named.                *)
Support(s, v, t, c) == Cardinality({u \in Players : s[u] = t /\ v[u] = c})

Justified(r, s, v, t) ==
  LET Rivals == {c \in Hands \ {r.choice} :
                   Support(s, v, t, c) >= Support(s, v, t, r.choice)}
  IN /\ \A c \in Rivals : Support(s, v, t, c) = Support(s, v, t, r.choice)
     /\ r.tieBreak <=> Rivals # {}

LEMMA PluralityIs ==
  PluralityWins <=>
    (result # Undecided => \A t \in Sides : Justified(result[t], side, vote, t))
BY DEF PluralityWins, Justified, Support, Backers

LEMMA PluralityIsNext ==
  (PluralityWins <=>
    (result # Undecided => \A t \in Sides : Justified(result[t], side, vote, t)))'
BY PluralityIs, PTL

(* The decision of one team in resolveRound.                               *)
LEMMA TeamDecision ==
  ASSUME NEW t \in Sides, NEW all, NEW hash \in Nat
  PROVE  Justified(ResolveTeamChoice(TallyForTeam(all, t), hash), side, all, t)
<1> DEFINE tally == TallyForTeam(all, t)
           r == ResolveTeamChoice(tally, hash)
<1>1. tally \in [Hands -> Nat]
  BY TallyCounts
<1>2. \A c \in Hands : tally[c] = Support(side, all, t, c)
  BY DEF TallyForTeam, Support
<1>3. r.choice \in Hands
  BY <1>1, TeamChoice
<1>4. LET Rivals == {c \in Hands \ {r.choice} : tally[c] >= tally[r.choice]}
      IN /\ \A c \in Rivals : tally[c] = tally[r.choice]
         /\ r.tieBreak <=> Rivals # {}
  BY <1>1, RivalsOfChoice
<1> HIDE DEF tally, r
<1>5. {c \in Hands \ {r.choice} : tally[c] >= tally[r.choice]} =
      {c \in Hands \ {r.choice} : Support(side, all, t, c) >= Support(side, all, t, r.choice)}
  BY <1>2, <1>3
<1>6. Justified(r, side, all, t)
  BY <1>2, <1>3, <1>4, <1>5 DEF Justified
<1>7. QED
  BY <1>6 DEF r, tally

(* Neither a hash nor the votes of the other team overrule the votes of a  *)
(* team: the hand it plays has the most backers, and a tie-break is        *)
(* reported exactly when another hand has as many.                         *)
THEOREM PluralityCorrect == RpsVoteSpec => []PluralityWins
<1>1. RpsVoteInit => PluralityWins
  BY OpenAtFirst DEF PluralityWins
<1>2. ASSUME TypeOK, PluralityWins, [RpsVoteNext]_vars PROVE PluralityWins'
  <2>1. CASE result' = Undecided
    BY <2>1 DEF PluralityWins
  <2>2. CASE result # Undecided
    <3>1. UNCHANGED vars
      BY <1>2, <2>2, DecidedStays
    <3>2. side' = side /\ vote' = vote /\ result' = result
      BY <3>1 DEF vars
    <3>3. QED
      BY <1>2, <3>2, PluralityIs, PluralityIsNext
  <2>3. CASE result = Undecided /\ result' # Undecided
    <3>1. PICK hash \in [Missing -> Hashes], hashA \in Hashes, hashB \in Hashes :
            ResolveRound(hash, hashA, hashB)
      BY <1>2, <2>3, DecidedBy
    <3> DEFINE all == WithAutoPicks(hash)
               a == ResolveTeamChoice(TallyForTeam(all, "A"), hashA)
               b == ResolveTeamChoice(TallyForTeam(all, "B"), hashB)
    <3>2. hashA \in Nat /\ hashB \in Nat
      BY RpsVoteAssumption
    <3>3. /\ vote' = all /\ side' = side
          /\ result' = [winner |-> ResolveRps(a.choice, b.choice), A |-> a, B |-> b]
      BY <3>1 DEF ResolveRound
    <3> HIDE DEF all
    <3>4. Justified(a, side, all, "A") /\ Justified(b, side, all, "B")
      BY <3>2, TeamDecision DEF Sides
    <3> HIDE DEF a, b
    <3>5. result'["A"] = a /\ result'["B"] = b
      BY <3>3
    <3>6. ASSUME NEW t \in Sides PROVE Justified(result'[t], side', vote', t)
      BY <3>3, <3>4, <3>5 DEF Sides
    <3>7. QED
      BY <3>6, PluralityIsNext
  <2>4. QED
    BY <2>1, <2>2, <2>3
<1>3. QED
  BY <1>1, <1>2, TypeCorrect, PTL DEF RpsVoteSpec

(* A round goes to the hand that beats the other in the cycle of the       *)
(* hands, and is drawn between equal hands only.                           *)
THEOREM WinnerCorrect == RpsVoteSpec => []BetterHandWins
<1>1. RpsVoteInit => BetterHandWins
  BY OpenAtFirst DEF BetterHandWins
<1>2. ASSUME TypeOK, BetterHandWins, [RpsVoteNext]_vars PROVE BetterHandWins'
  <2>1. CASE result' = Undecided
    BY <2>1 DEF BetterHandWins
  <2>2. CASE result # Undecided
    <3>1. UNCHANGED vars
      BY <1>2, <2>2, DecidedStays
    <3>2. QED
      BY <1>2, <3>1 DEF BetterHandWins, vars
  <2>3. CASE result = Undecided /\ result' # Undecided
    <3>1. PICK hash \in [Missing -> Hashes], hashA \in Hashes, hashB \in Hashes :
            ResolveRound(hash, hashA, hashB)
      BY <1>2, <2>3, DecidedBy
    <3> DEFINE all == WithAutoPicks(hash)
               a == ResolveTeamChoice(TallyForTeam(all, "A"), hashA)
               b == ResolveTeamChoice(TallyForTeam(all, "B"), hashB)
    <3>2. hashA \in Nat /\ hashB \in Nat
      BY RpsVoteAssumption
    <3>3. a.choice \in Hands /\ b.choice \in Hands
      BY <3>2, TallyCounts, TeamChoice
    <3>4. result' = [winner |-> ResolveRps(a.choice, b.choice), A |-> a, B |-> b]
      BY <3>1 DEF ResolveRound
    <3> HIDE DEF a, b
    <3>5. /\ result'.winner = ResolveRps(a.choice, b.choice)
          /\ result'.A.choice = a.choice /\ result'.B.choice = b.choice
      BY <3>4
    <3>6. LET edge == (3 + Rank(a.choice) - Rank(b.choice)) % 3 IN
          ResolveRps(a.choice, b.choice) =
            CASE edge = 0 -> "draw" [] edge = 1 -> "A" [] edge = 2 -> "B"
      BY <3>3, WinnerOfHands
    <3>7. QED
      BY <3>5, <3>6 DEF BetterHandWins
  <2>4. QED
    BY <2>1, <2>2, <2>3
<1>3. QED
  BY <1>1, <1>2, TypeCorrect, PTL DEF RpsVoteSpec
=============================================================================
