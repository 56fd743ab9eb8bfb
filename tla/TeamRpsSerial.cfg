CONSTANTS
  host = host
  u1 = u1
  u2 = u2
  Users = {host, u1, u2, u3}
  u3 = u3
  Host = host
  TeamHandlers = {h1}
  h1 = h1
  NoUser = NoUser
  MaxInt = 60
  EntryStake = 5
  MaxPlayers = 4
  MaxRounds = 4
  StartCoin <- MCStartCoin
SPECIFICATION FairSpec
INVARIANTS PlaysBalanced
PROPERTIES EveryRoundEnds ImplementsEscrow
CHECK_DEADLOCK FALSE
