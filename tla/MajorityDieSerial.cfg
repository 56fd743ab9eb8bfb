CONSTANTS
  host = host
  u1 = u1
  u2 = u2
  u3 = u3
  u4 = u4
  h1 = h1
  Users = {host, u1, u2, u3, u4}
  Host = host
  DieHandlers = {h1}
  NoUser = NoUser
  MaxInt = 60
  EntryStake = 5
  MaxPlayers = 5
  MaxWinners = 1
  MaxStages = 2
  StartCoin <- MCStartCoin
SPECIFICATION QuietLobbySpec
INVARIANTS PotMatchesPlayers
PROPERTIES MinorityRule DuelUndecided EveryStageEnds ImplementsEscrow
CHECK_DEADLOCK FALSE
