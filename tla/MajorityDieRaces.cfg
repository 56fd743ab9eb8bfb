CONSTANTS
  host = host
  u1 = u1
  u2 = u2
  h1 = h1
  h2 = h2
  Users = {host, u1, u2}
  Host = host
  DieHandlers = {h1, h2}
  NoUser = NoUser
  MaxInt = 60
  EntryStake = 5
  MaxPlayers = 3
  MaxWinners = 1
  MaxStages = 3
  StartCoin <- MCStartCoin
SYMMETRY Symmetry
SPECIFICATION MajorityDieSpec
INVARIANTS TypeOK StakeExplainsCoins LedgerLagsOneRefund OneResolution
PROPERTIES GoesForward OnlyRestartsStrand
CHECK_DEADLOCK FALSE
