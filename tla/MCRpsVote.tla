------------------------------ MODULE MCRpsVote ------------------------------
(* A small instance of RpsVote.                                            *)
EXTENDS RpsVote, TLC

MCHashes == 0 .. 5
Symmetry == Permutations(Players)
=============================================================================
