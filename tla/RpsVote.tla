------------------------------- MODULE RpsVote -------------------------------
(***************************************************************************)
(* What a round of team rock-paper-scissors decides: the votes of a round, *)
(* the picks made up for players without one, the choice of each team and  *)
(* the winner.  TeamRpsVote leaves this open and lets a round end any way. *)
(*                                                                         *)
(* Ties and made-up picks are decided by a sha256 of the room, the round   *)
(* and the team or player.  Each such seed is used once in a round, so the *)
(* hash is any number, chosen when it is looked at.                        *)
(***************************************************************************)
EXTENDS Naturals, Sequences, FiniteSets, FiniteSetsExt

CONSTANTS
  Players,   \* the participants of the room
  Hashes     \* the hash values to choose from: all remainders by 2 and 3

ASSUME RpsVoteAssumption == IsFiniteSet(Players) /\ Hashes \subseteq Nat

VARIABLES
  side,     \* side[u]: the team of u when the round is resolved, or "none"
  vote,     \* vote[u]: the submission of u, or "none"
  result    \* what resolveRound found, or Undecided

vars == <<side, vote, result>>

Options == <<"rock", "paper", "scissors">>
Hands == {Options[i] : i \in 1 .. 3}
Sides == {"A", "B"}
Undecided == [winner |-> "open"]

RpsVoteInit ==
  /\ side \in [Players -> Sides \cup {"none"}]
  /\ vote = [u \in Players |-> "none"]
  /\ result = Undecided

-----------------------------------------------------------------------------
(* options[hash % options.length].                                         *)
HashPick(options, hash) == options[(hash % Len(options)) + 1]

(* tallyForTeam.                                                           *)
TallyOfAll(v, t) == [c \in Hands |-> Cardinality({u \in Players : v[u] = c})]
TallyForTeam(v, t) ==
  [c \in Hands |-> Cardinality({u \in Players : side[u] = t /\ v[u] = c})]

(* resolveTeamChoice: among the hands with the most votes, in the order    *)
(* rock, paper, scissors, the hash picks one.                              *)
ResolveTeamChoice(tally, hash) ==
  LET max == Max({tally[c] : c \in Hands})
      IfBest(c) == IF tally[c] = max THEN <<c>> ELSE <<>>
      finalists == IfBest("rock") \o IfBest("paper") \o IfBest("scissors")
  IN [choice |-> HashPick(finalists, hash), tieBreak |-> Len(finalists) > 1]

(* resolveRps.                                                             *)
SwappedRps(a, b) ==
  IF a = b THEN "draw"
  ELSE IF <<b, a>> \in {<<"rock", "scissors">>, <<"paper", "rock">>,
                        <<"scissors", "paper">>} THEN "A"
  ELSE "B"
ResolveRps(a, b) ==
  IF a = b THEN "draw"
  ELSE IF <<a, b>> \in {<<"rock", "scissors">>, <<"paper", "rock">>,
                        <<"scissors", "paper">>} THEN "A"
  ELSE "B"

-----------------------------------------------------------------------------
(* submitVote, as far as the choice goes.                                  *)
SubmitVote(u, c) ==
  /\ result = Undecided
  /\ side[u] # "none" /\ vote[u] = "none"
  /\ vote' = [vote EXCEPT ![u] = c]
  /\ UNCHANGED <<side, result>>

(* resolveRound, as far as the choices go: a pick is made up for every     *)
(* player on a team without a submission, and the round is decided.        *)
Missing == {u \in Players : side[u] # "none" /\ vote[u] = "none"}

WithAutoPicks(hash) ==
  [u \in Players |-> IF u \in Missing THEN HashPick(Options, hash[u]) ELSE vote[u]]

ResolveRound(hash, hashA, hashB) ==
  LET all == WithAutoPicks(hash)
      a == ResolveTeamChoice(TallyForTeam(all, "A"), hashA)
      b == ResolveTeamChoice(TallyForTeam(all, "B"), hashB)
  IN
  /\ result = Undecided
  /\ vote' = all
  /\ result' = [winner |-> ResolveRps(a.choice, b.choice), A |-> a, B |-> b]
  /\ UNCHANGED side

RpsVoteNext ==
  \/ \E u \in Players, c \in Hands : SubmitVote(u, c)
  \/ \E hash \in [Missing -> Hashes], hashA, hashB \in Hashes :
       ResolveRound(hash, hashA, hashB)

RpsVoteSpec == RpsVoteInit /\ [][RpsVoteNext]_vars

-----------------------------------------------------------------------------
(* Type invariant: a hash never picks past the end of the options.         *)
TypeOK ==
  /\ side \in [Players -> Sides \cup {"none"}]
  /\ vote \in [Players -> Hands \cup {"none"}]
  /\ result \in {Undecided} \cup
       [winner : Sides \cup {"draw"},
        A : [choice : Hands, tieBreak : BOOLEAN],
        B : [choice : Hands, tieBreak : BOOLEAN]]

Backers(t, c) == {u \in Players : side[u] = t /\ vote[u] = c}

(* The hand a team plays is one that no other hand has more backers than   *)
(* within that team, and a tie-break is reported exactly when another hand *)
(* has as many: neither a hash nor the other team's votes overrule votes.  *)
PluralityWins ==
  result # Undecided =>
    \A t \in Sides :
      LET r == result[t]
          Rivals == {c \in Hands \ {r.choice} :
                       Cardinality(Backers(t, c)) >= Cardinality(Backers(t, r.choice))}
      IN /\ \A c \in Rivals :
              Cardinality(Backers(t, c)) = Cardinality(Backers(t, r.choice))
         /\ r.tieBreak <=> Rivals # {}

(* A round is won by the hand that beats the other, where each hand beats  *)
(* the one before it in the cycle rock, paper, scissors, and a draw is two *)
(* equal hands.                                                            *)
Rank(c) == CASE c = "rock" -> 0 [] c = "paper" -> 1 [] c = "scissors" -> 2
BetterHandWins ==
  result # Undecided =>
    LET edge == (3 + Rank(result.A.choice) - Rank(result.B.choice)) % 3 IN
    result.winner = CASE edge = 0 -> "draw" [] edge = 1 -> "A" [] edge = 2 -> "B"
=============================================================================
