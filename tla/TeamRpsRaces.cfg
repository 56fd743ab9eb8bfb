CONSTANTS
  host = host
  u1 = u1
  u2 = u2
  u3 = u3
  h1 = h1
  h2 = h2
  Users = {host, u1, u2, u3}
  Host = host
  TeamHandlers = {h1, h2}
  NoUser = NoUser
  MaxInt = 60
  EntryStake = 5
  MaxPlayers = 2
  MaxRounds = 3
  StartCoin <- MCStartCoin
SYMMETRY Symmetry
SPECIFICATION TeamRpsVoteSpec
INVARIANTS OverfullBounded StakeMatchesParticipants LedgerExplainsCoins ScoreDecidesGame OneResolution
PROPERTIES RoundsInOrder OnlyFailuresStrand
CHECK_DEADLOCK FALSE
