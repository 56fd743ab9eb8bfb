CONSTANTS
  host = host
  u1 = u1
  u2 = u2
  h1 = h1
  h2 = h2
  Users = {host, u1, u2}
  Host = host
  TeamHandlers = {h1, h2}
  NoUser = NoUser
  MaxInt = 60
  EntryStake = 5
  MaxPlayers = 3
  MaxRounds = 2
  StartCoin <- MCStartCoin
SYMMETRY Symmetry
SPECIFICATION TeamRpsVoteSpec
INVARIANT SettledOnce
CHECK_DEADLOCK FALSE
