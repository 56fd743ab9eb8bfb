---------------------------- MODULE MCTeamRpsVote ----------------------------
(* Small instances of TeamRpsVote.                                         *)
EXTENDS TeamRpsVote, TLC

MCStartCoin == [u \in Users |-> EntryStake]
Symmetry == Permutations(Users \ {Host}) \cup Permutations(TeamHandlers)
=============================================================================
