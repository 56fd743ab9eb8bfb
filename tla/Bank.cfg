CONSTANTS
  u1 = u1
  u2 = u2
  h1 = h1
  h2 = h2
  Users = {u1, u2}
  Handlers = {h1, h2}
  NoUser = NoUser
  NoSnapshot = NoSnapshot
  MaxInt = 2
  Amounts = {1, 2}
  StartCoin <- MCStartCoin
SYMMETRY Symmetry
SPECIFICATION SettlementsSpec
INVARIANTS TypeOK LedgerExplainsBalances OverdraftBounded SettlementBalances
PROPERTIES NetWorthOnlyMoves
