CONSTANTS
  u1 = u1
  u2 = u2
  u3 = u3
  u4 = u4
  Players = {u1, u2, u3, u4}
  Hashes <- MCHashes
SYMMETRY Symmetry
SPECIFICATION RpsVoteSpec
INVARIANTS PluralityWins BetterHandWins
CHECK_DEADLOCK FALSE
