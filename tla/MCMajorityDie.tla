---------------------------- MODULE MCMajorityDie ----------------------------
(* Small instances of MajorityDie.                                         *)
EXTENDS MajorityDie, TLC

MCStartCoin == [u \in Users |-> EntryStake]
Symmetry == Permutations(Users \ {Host}) \cup Permutations(DieHandlers)

(* splitPot loses no coin and favours no winner by more than one, for any  *)
(* number of winners.                                                      *)
ASSUME SplitIsExact ==
  \A total \in 0 .. 25, W \in SUBSET Users \ {{}} :
    \A pay \in SplitPot(total, W) :
      /\ SumFunction(pay) = total
      /\ \A u, v \in W : pay[u] - pay[v] <= 1
=============================================================================
